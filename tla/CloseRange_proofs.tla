--------------------------- MODULE CloseRange_proofs ---------------------------
(***************************************************************************)
(* The ladder never raises, owns nothing that it does not manage, never    *)
(* mixes campaigns and opens no slot twice: for every number of units,     *)
(* length of a day, mode and add-on profile, through restarts, lost        *)
(* answers and closes that the venue makes by itself.                      *)
(*                                                                         *)
(* The invariant says three things of (model, live): it is Sound, that is, *)
(* what the executor holds is a funded or undecided unit of the campaign   *)
(* or queued for closure; so is the pair in the snapshot; and where the    *)
(* loop stands between two bars, Between, or in a submitted bar, Acting,   *)
(* mirror, campaign and intents fit together.  Counted ties both pairs to  *)
(* the trades that have ever been opened.                                  *)
(*                                                                         *)
(* First come the operators of the model (folds over sets of slots,        *)
(* machines), then what each method of the strategy makes of a Sound pair, *)
(* then one lemma for every action.                                        *)
(***************************************************************************)
EXTENDS CloseRange, FiniteSetTheorems, SequenceTheorems, WellFoundedInduction, TLAPS

\* A set of natural numbers has a least one.
LEMMA LeastNat ==
  ASSUME NEW T, T \subseteq Nat, T # {}
  PROVE  \E x \in T : \A y \in T : x <= y
<1> DEFINE R == OpToRel(<, Nat)
<1>1. \E x \in T : \A y \in T : ~ (<<y, x>> \in R)
  BY NatLessThanWellFounded, WFMin
<1>2. ASSUME NEW x \in Nat, NEW y \in Nat, ~(<<y, x>> \in R)
      PROVE  x <= y
  <2>1. y < x <=> <<y, x>> \in R
    <3>1. R = {ss \in Nat \X Nat : ss[1] < ss[2]}
      BY DEF OpToRel
    <3>2. <<y, x>> \in Nat \X Nat /\ <<y, x>>[1] = y /\ <<y, x>>[2] = x
      OBVIOUS
    <3> QED
      BY <3>1, <3>2
  <2> HIDE DEF R
  <2> QED
    BY <1>2, <2>1
<1> QED
  BY <1>1, <1>2

\* What holds at 0, and passes from each number up to n to the next, holds at n.
LEMMA Stepwise ==
  ASSUME NEW n \in Nat, NEW G, 0 \in G, \A i \in 1 .. n : i - 1 \in G => i \in G
  PROVE  n \in G
<1> DEFINE bad == {i \in 0 .. n : i \notin G}
<1>1. SUFFICES ASSUME n \notin G PROVE FALSE
  OBVIOUS
<1>2. n \in bad /\ bad \subseteq Nat
  BY <1>1
<1> HIDE DEF bad
<1>3. PICK i \in bad : \A j \in bad : i <= j
  BY <1>2, LeastNat
<1>4. i \in 0 .. n /\ i \notin G
  BY <1>3 DEF bad
<1>5. i # 0
  BY <1>4
<1>6. i - 1 \in 0 .. n /\ i - 1 \in G
  BY <1>3, <1>4, <1>5 DEF bad
<1>7. i \in 1 .. n
  BY <1>4, <1>5
<1> QED
  BY <1>4, <1>6, <1>7

LEMMA MaxOf ==
  ASSUME NEW n \in Nat, NEW T \in SUBSET (0 .. n), T # {}
  PROVE  Max(T) \in T /\ \A k \in T : k <= Max(T)
<1> DEFINE R == {k \in 0 .. n : n - k \in T}
<1>1. R \subseteq Nat
  OBVIOUS
<1>2. R # {}
  <2>1. PICK x \in T : TRUE
    OBVIOUS
  <2>2. n - x \in R
    OBVIOUS
  <2> QED
    BY <2>2
<1> HIDE DEF R
<1>3. PICK k \in R : \A j \in R : k <= j
  BY <1>1, <1>2, LeastNat
<1> DEFINE x == n - k
<1>4. x \in T
  BY <1>3 DEF R
<1>5. ASSUME NEW y \in T PROVE x >= y
  <2>1. n - y \in R
    BY DEF R
  <2>2. k <= n - y /\ k \in Nat /\ y \in Nat
    BY <1>1, <1>3, <2>1
  <2> QED
    BY <2>2
<1> HIDE DEF x
<1>6. Max(T) \in T /\ \A y \in T : Max(T) >= y
  <2>1. \E z \in T : \A y \in T : z >= y
    BY <1>4, <1>5
  <2> QED
    BY <2>1 DEF Max
<1> DEFINE a == Max(T)
<1>7. ASSUME NEW y \in T PROVE y <= a
  <2>1. a \in 0 .. n /\ y \in 0 .. n /\ a >= y
    BY <1>6
  <2> HIDE DEF a
  <2> QED
    BY <2>1
<1> QED
  BY <1>6, <1>7

LEMMA PrefixMax ==
  ASSUME NEW i \in Nat, i # 0
  PROVE  Max(1 .. i) = i /\ (1 .. i) \ {i} = 1 .. (i - 1) /\ 1 .. i # {}
<1>1. 1 .. i \in SUBSET (0 .. i) /\ 1 .. i # {} /\ i \in 1 .. i
  OBVIOUS
<1> DEFINE a == Max(1 .. i)
<1>2. a \in 1 .. i /\ i <= a
  BY <1>1, MaxOf
<1> HIDE DEF a
<1>3. a = i
  BY <1>2
<1> QED
  BY <1>1, <1>3 DEF a

LEMMA SmallSets ==
  ASSUME NEW n \in Nat, NEW T \in SUBSET (1 .. n)
  PROVE  /\ IsFiniteSet(T) /\ Cardinality(T) \in Nat /\ Cardinality(T) <= n
         /\ T # {} => /\ Max(T) \in T /\ T \ {Max(T)} \in SUBSET (1 .. n)
                      /\ Cardinality(T \ {Max(T)}) = Cardinality(T) - 1
         /\ Cardinality(T) = 0 => T = {}
<1>1. IsFiniteSet(1 .. n) /\ Cardinality(1 .. n) = n
  <2>1. ASSUME NEW a \in Int, NEW b \in Int, a = 1, b \in Nat
        PROVE  IsFiniteSet(a .. b) /\ Cardinality(a .. b) = b
    BY <2>1, FS_Interval
  <2> QED
    BY <2>1
<1>2. IsFiniteSet(T) /\ Cardinality(T) <= n
  BY <1>1, FS_Subset
<1>3. Cardinality(T) \in Nat
  BY <1>2, FS_CardinalityType
<1>4. ASSUME T # {}
      PROVE  /\ Max(T) \in T /\ T \ {Max(T)} \in SUBSET (1 .. n)
             /\ Cardinality(T \ {Max(T)}) = Cardinality(T) - 1
  <2>1. T \in SUBSET (0 .. n)
    OBVIOUS
  <2>2. Max(T) \in T
    BY <1>4, <2>1, MaxOf
  <2>3. Cardinality(T \ {Max(T)}) = Cardinality(T) - 1
    BY <1>2, <2>2, FS_RemoveElement
  <2> QED
    BY <2>2, <2>3
<1>5. Cardinality(T) = 0 => T = {}
  BY <1>2, FS_EmptySet
<1> QED
  BY <1>2, <1>3, <1>4, <1>5

-----------------------------------------------------------------------------
(* A fold over a sequence is a function of the sets of its places; such a  *)
(* function exists when the values stay in some set D.                     *)

Folded(h, n, base, R) ==
  h = [T \in SUBSET (1 .. n) |-> IF T = {} THEN base ELSE R[h[T \ {Max(T)}], Max(T)]]

LEMMA FoldExists ==
  ASSUME NEW n \in Nat, NEW D, NEW base \in D, NEW R \in [D \X (1 .. n) -> D]
  PROVE  \E h \in [SUBSET (1 .. n) -> D] : Folded(h, n, base, R)
<1> DEFINE Ps == SUBSET (1 .. n)
           Aft(g, T) == IF T = {} THEN base ELSE R[g[T \ {Max(T)}], Max(T)]
           Up(g, k) == \A T \in Ps : Cardinality(T) <= k => g[T] = Aft(g, T)
           G == {k \in Nat : \E g \in [Ps -> D] : Up(g, k)}
<1>1. 0 \in G
  <2> DEFINE g == [T \in Ps |-> base]
  <2>1. Up(g, 0)
    <3> SUFFICES ASSUME NEW T \in Ps, Cardinality(T) <= 0 PROVE g[T] = Aft(g, T)
      OBVIOUS
    <3>1. Cardinality(T) \in Nat /\ (Cardinality(T) = 0 => T = {})
      BY SmallSets
    <3>2. T = {}
      BY <3>1
    <3> QED
      BY <3>2
  <2>2. g \in [Ps -> D]
    OBVIOUS
  <2> HIDE DEF g, Up
  <2> QED
    BY <2>1, <2>2
<1>2. ASSUME NEW k \in 1 .. n, k - 1 \in G PROVE k \in G
  <2>1. PICK g \in [Ps -> D] : Up(g, k - 1)
    BY <1>2
  <2> DEFINE h == [T \in Ps |-> IF Cardinality(T) <= k - 1 THEN g[T] ELSE Aft(g, T)]
  <2>2. ASSUME NEW T \in Ps, Cardinality(T) <= k
        PROVE  h[T] = Aft(h, T)
    <3>1. h[T] = Aft(g, T)
      BY <2>1
    <3>2. ASSUME T # {} PROVE h[T \ {Max(T)}] = g[T \ {Max(T)}]
      <4>1. Cardinality(T) \in Nat /\ T \ {Max(T)} \in Ps
            /\ Cardinality(T \ {Max(T)}) = Cardinality(T) - 1
        BY <3>2, SmallSets
      <4>2. Cardinality(T \ {Max(T)}) <= k - 1
        BY <2>2, <4>1
      <4> QED
        BY <4>1, <4>2
    <3> HIDE DEF h
    <3> QED
      BY <3>1, <3>2
  <2>3. h \in [Ps -> D]
    <3> SUFFICES ASSUME NEW T \in Ps PROVE Aft(g, T) \in D
      BY <2>1
    <3>1. CASE T = {}
      BY <3>1
    <3>2. CASE T # {}
      <4>1. Max(T) \in 1 .. n /\ g[T \ {Max(T)}] \in D
        BY <2>1, <3>2, SmallSets
      <4> QED
        BY <3>2, <4>1
    <3> QED
      BY <3>1, <3>2
  <2>4. Up(h, k)
    BY <2>2
  <2> HIDE DEF h, Up
  <2> QED
    BY <2>3, <2>4
<1> HIDE DEF G
<1>3. n \in G
  BY <1>1, <1>2, Stepwise
<1>4. PICK g \in [Ps -> D] : Up(g, n)
  BY <1>3 DEF G
<1>5. ASSUME NEW T \in Ps PROVE g[T] = Aft(g, T)
  BY <1>4, SmallSets
<1>6. g = [T \in Ps |-> Aft(g, T)]
  <2> HIDE DEF Aft
  <2> QED
    BY <1>5
<1> QED
  BY <1>6 DEF Folded

\* The slots of a set in their order.
Sorted(q, ks) ==
  /\ q \in [1 .. Cardinality(ks) -> ks]
  /\ \A i, j \in DOMAIN q : i < j => q[i] < q[j]

LEMMA SlotSets ==
  /\ Ks \subseteq Nat /\ IsFiniteSet(Ks) /\ 0 \in Ks
  /\ \A ks \in SUBSET Ks : IsFiniteSet(ks) /\ Cardinality(ks) \in Nat
<1>1. MaxUnits \in Nat \ {0}
  BY MaxUnitsType
<1>2. IsFiniteSet(Ks)
  <2>1. ASSUME NEW a \in Int, NEW b \in Int PROVE IsFiniteSet(a .. b)
    BY FS_Interval
  <2> QED
    BY <1>1, <2>1 DEF Ks
<1>3. ASSUME NEW ks \in SUBSET Ks PROVE IsFiniteSet(ks) /\ Cardinality(ks) \in Nat
  BY <1>2, FS_Subset, FS_CardinalityType
<1> QED
  BY <1>1, <1>2, <1>3 DEF Ks

LEMMA SortedExists ==
  ASSUME NEW ks \in SUBSET Ks
  PROVE  \E q : Sorted(q, ks)
<1> DEFINE G == {n \in Nat : \A s \in SUBSET Ks : Cardinality(s) = n => \E q : Sorted(q, s)}
           N == Cardinality(ks)
<1>1. 0 \in G
  <2> SUFFICES ASSUME NEW s \in SUBSET Ks, Cardinality(s) = 0 PROVE \E q : Sorted(q, s)
    OBVIOUS
  <2>1. s = {}
    BY SlotSets, FS_EmptySet
  <2>2. Sorted([i \in {} |-> i], s)
    <3>1. 1 .. Cardinality(s) = {}
      OBVIOUS
    <3> QED
      BY <3>1 DEF Sorted
  <2> QED
    BY <2>2
<1>2. ASSUME NEW n \in 1 .. N, n - 1 \in G PROVE n \in G
  <2>0. n \in Nat
    OBVIOUS
  <2> SUFFICES ASSUME NEW s \in SUBSET Ks, Cardinality(s) = n PROVE \E q : Sorted(q, s)
    BY <2>0
  <2>1. s # {} /\ IsFiniteSet(s)
    BY SlotSets, FS_EmptySet
  <2> DEFINE x == Max(s)
             r == s \ {x}
  <2>2. x \in s /\ \A k \in s : k <= x
    <3>1. MaxUnits - 1 \in Nat /\ s \in SUBSET (0 .. MaxUnits - 1)
      BY MaxUnitsType DEF Ks
    <3> QED
      BY <2>1, <3>1, MaxOf
  <2> HIDE DEF x
  <2>3. r \in SUBSET Ks /\ Cardinality(r) = n - 1
    BY <2>1, <2>2, FS_RemoveElement
  <2>4. PICK p : Sorted(p, r)
    BY <1>2, <2>3
  <2> DEFINE q == [i \in 1 .. n |-> IF i = n THEN x ELSE p[i]]
  <2>5. p \in [1 .. (n - 1) -> r] /\ \A i, j \in 1 .. (n - 1) : i < j => p[i] < p[j]
    BY <2>3, <2>4 DEF Sorted
  <2>6. q \in [1 .. n -> s]
    BY <2>2, <2>5
  <2>7. ASSUME NEW i \in 1 .. n, NEW j \in 1 .. n, i < j PROVE q[i] < q[j]
    <3>1. i \in 1 .. (n - 1) /\ q[i] = p[i]
      BY <2>7
    <3>2. CASE j = n
      <4>1. p[i] \in s /\ p[i] # x /\ p[i] <= x
        BY <2>2, <2>5, <3>1
      <4>2. p[i] \in Nat /\ x \in Nat
        BY <2>2, <4>1, SlotSets
      <4> HIDE DEF q
      <4>3. q[j] = x
        BY <3>2 DEF q
      <4> QED
        BY <3>1, <4>1, <4>2, <4>3
    <3>3. CASE j # n
      <4>1. j \in 1 .. (n - 1) /\ q[j] = p[j]
        BY <3>3
      <4> HIDE DEF q
      <4> QED
        BY <2>5, <2>7, <3>1, <4>1
    <3> QED
      BY <3>2, <3>3
  <2> HIDE DEF q
  <2>8. Sorted(q, s)
    BY <2>6, <2>7 DEF Sorted
  <2> QED
    BY <2>8
<1>3. N \in Nat
  BY SlotSets
<1> HIDE DEF G, N
<1>4. N \in G
  BY <1>1, <1>2, <1>3, Stepwise
<1> QED
  BY <1>4 DEF G, N

LEMMA InOrderFacts ==
  ASSUME NEW ks \in SUBSET Ks
  PROVE  LET n == Cardinality(ks)
             q == InOrder(ks)
         IN  /\ n \in Nat /\ q \in [1 .. n -> ks] /\ q \in Seq(Ks) /\ Len(q) = n
             /\ \A i, j \in 1 .. n : q[i] = q[j] => i = j
             /\ \A k \in ks : \E i \in 1 .. n : q[i] = k
<1> DEFINE n == Cardinality(ks)
           q == InOrder(ks)
<1>1. Sorted(q, ks)
  <2>1. q = CHOOSE p : Sorted(p, ks)
    BY DEF InOrder, Sorted
  <2> QED
    BY <2>1, SortedExists
<1>2. n \in Nat
  BY SlotSets
<1> HIDE DEF q
<1>3. q \in [1 .. n -> ks] /\ \A i, j \in 1 .. n : i < j => q[i] < q[j]
  BY <1>1 DEF Sorted
<1>4. \A i \in 1 .. n : q[i] \in Nat
  BY <1>3, SlotSets
<1>5. \A i, j \in 1 .. n : q[i] = q[j] => i = j
  <2> SUFFICES ASSUME NEW i \in 1 .. n, NEW j \in 1 .. n, q[i] = q[j], i # j PROVE FALSE
    OBVIOUS
  <2> HIDE DEF n
  <2>1. i < j \/ j < i
    BY <1>2
  <2> QED
    BY <1>3, <1>4, <2>1
<1>6. \A k \in ks : \E i \in 1 .. n : q[i] = k
  <2>1. q \in Injection(1 .. n, ks)
    BY <1>3, <1>5 DEF Injection, IsInjective
  <2>2. IsFiniteSet(ks)
    BY SlotSets
  <2>3. Cardinality(1 .. n) = n
    <3>1. ASSUME NEW a \in Int, NEW b \in Int, a = 1, b \in Nat PROVE Cardinality(a .. b) = b
      BY <3>1, FS_Interval
    <3> QED
      BY <1>2, <3>1
  <2>4. q \in Surjection(1 .. n, ks)
    BY <2>1, <2>2, <2>3, FS_Injection
  <2> QED
    BY <2>4 DEF Surjection
<1>7. q \in Seq(Ks) /\ Len(q) = n
  <2>1. q \in [1 .. n -> Ks]
    BY <1>3
  <2> HIDE DEF n
  <2> QED
    BY <1>2, <2>1
<1> QED
  BY <1>2, <1>3, <1>5, <1>6, <1>7 DEF q

-----------------------------------------------------------------------------
(* Campaigns and machines.                                                 *)

LEMMA MachineFacts ==
  ASSUME NEW m \in Machines
  PROVE  /\ Occupied(m) <=> m.campaign \in Campaigns
         /\ ~Occupied(m) <=> m.campaign = NoCampaign
         /\ m.exit \in Exits \cup {"none"} /\ m.candidate \in Candidates /\ m.day \in Nat
         /\ m.verified \in BOOLEAN /\ m.funded \in BOOLEAN
         /\ m = [campaign |-> m.campaign, exit |-> m.exit, candidate |-> m.candidate,
                 day |-> m.day, verified |-> m.verified, funded |-> m.funded]
<1>1. \A c \in Campaigns : c # NoCampaign
  <2> SUFFICES ASSUME NEW c \in Campaigns PROVE c # NoCampaign
    OBVIOUS
  <2>1. c.id \in Nat
    BY DEF Campaigns
  <2>2. NoCampaign.id = -1
    BY DEF NoCampaign
  <2> QED
    BY <2>1, <2>2
<1>2. m.campaign \in Campaigns \cup {NoCampaign}
  BY DEF Machines
<1>3. m = [campaign |-> m.campaign, exit |-> m.exit, candidate |-> m.candidate,
           day |-> m.day, verified |-> m.verified, funded |-> m.funded]
  BY DEF Machines
<1>4. m.exit \in Exits \cup {"none"} /\ m.candidate \in Candidates /\ m.day \in Nat
      /\ m.verified \in BOOLEAN /\ m.funded \in BOOLEAN
  BY DEF Machines
<1> QED
  BY <1>1, <1>2, <1>3, <1>4 DEF Occupied

LEMMA CampaignFacts ==
  ASSUME NEW c \in Campaigns
  PROVE  /\ c.id \in Nat /\ c.side \in Sides /\ c.age \in 0 .. MaxHold - 1
         /\ c.origin \in Origins /\ c.lifetime \in 1 .. MaxUnits
         /\ DOMAIN c.units \subseteq Ks /\ \A k \in DOMAIN c.units : c.units[k] \in Units
         /\ c.units \in [DOMAIN c.units -> Units]
         /\ c = [id |-> c.id, side |-> c.side, age |-> c.age, origin |-> c.origin,
                 lifetime |-> c.lifetime, units |-> c.units]
<1>1. c.units \in UNION {[ks -> Units] : ks \in SUBSET Ks}
  BY DEF Campaigns
<1>2. PICK ks \in SUBSET Ks : c.units \in [ks -> Units]
  BY <1>1
<1>3. DOMAIN c.units = ks
  BY <1>2
<1>4. c.id \in Nat /\ c.side \in Sides /\ c.age \in 0 .. MaxHold - 1
      /\ c.origin \in Origins /\ c.lifetime \in 1 .. MaxUnits
  BY DEF Campaigns
<1>5. c = [id |-> c.id, side |-> c.side, age |-> c.age, origin |-> c.origin,
           lifetime |-> c.lifetime, units |-> c.units]
  BY DEF Campaigns
<1> QED
  BY <1>2, <1>3, <1>4, <1>5

LEMMA CampaignTyped ==
  ASSUME NEW i \in Nat, NEW s \in Sides, NEW a \in 0 .. MaxHold - 1, NEW o \in Origins,
         NEW n \in 1 .. MaxUnits, NEW ks \in SUBSET Ks, NEW us \in [ks -> Units]
  PROVE  [id |-> i, side |-> s, age |-> a, origin |-> o, lifetime |-> n, units |-> us]
           \in Campaigns
BY DEF Campaigns

LEMMA WithoutFacts ==
  ASSUME NEW c \in Campaigns, NEW ks
  PROVE  LET d == WithoutUnits(c, ks)
         IN  /\ d \in Campaigns
             /\ d.id = c.id /\ d.side = c.side /\ d.age = c.age /\ d.origin = c.origin
             /\ d.lifetime = c.lifetime
             /\ DOMAIN d.units = DOMAIN c.units \ ks
             /\ \A k \in DOMAIN d.units : d.units[k] = c.units[k]
<1> DEFINE us == [j \in DOMAIN c.units \ ks |-> c.units[j]]
           d == WithoutUnits(c, ks)
<1>1. us \in [DOMAIN c.units \ ks -> Units] /\ DOMAIN c.units \ ks \in SUBSET Ks
  BY CampaignFacts
<1>2. DOMAIN us = DOMAIN c.units \ ks /\ \A k \in DOMAIN us : us[k] = c.units[k]
  OBVIOUS
<1>3. d = [c EXCEPT !.units = us]
  BY DEF WithoutUnits
<1> HIDE DEF us, d
<1>4. d = [id |-> c.id, side |-> c.side, age |-> c.age, origin |-> c.origin,
           lifetime |-> c.lifetime, units |-> us]
  BY <1>3 DEF Campaigns
<1>5. d \in Campaigns
  BY <1>1, <1>4, CampaignFacts, CampaignTyped
<1>6. /\ d.id = c.id /\ d.side = c.side /\ d.age = c.age /\ d.origin = c.origin
      /\ d.lifetime = c.lifetime /\ d.units = us
  BY <1>4
<1> QED
  BY <1>2, <1>5, <1>6 DEF d

LEMMA WithFacts ==
  ASSUME NEW c \in Campaigns, NEW k \in Ks, NEW u \in Units
  PROVE  LET d == WithUnit(c, k, u)
         IN  /\ d \in Campaigns
             /\ d.id = c.id /\ d.side = c.side /\ d.age = c.age /\ d.origin = c.origin
             /\ d.lifetime = c.lifetime
             /\ DOMAIN d.units = DOMAIN c.units \cup {k}
             /\ d.units[k] = u
             /\ \A j \in DOMAIN c.units : j # k => d.units[j] = c.units[j]
<1> DEFINE us == [j \in DOMAIN c.units \cup {k} |-> IF j = k THEN u ELSE c.units[j]]
           d == WithUnit(c, k, u)
<1>1. us \in [DOMAIN c.units \cup {k} -> Units] /\ DOMAIN c.units \cup {k} \in SUBSET Ks
  BY CampaignFacts
<1>2. DOMAIN us = DOMAIN c.units \cup {k} /\ us[k] = u
      /\ \A j \in DOMAIN c.units : j # k => us[j] = c.units[j]
  OBVIOUS
<1>3. d = [c EXCEPT !.units = us]
  BY DEF WithUnit
<1> HIDE DEF us, d
<1>4. d = [id |-> c.id, side |-> c.side, age |-> c.age, origin |-> c.origin,
           lifetime |-> c.lifetime, units |-> us]
  BY <1>3 DEF Campaigns
<1>5. d \in Campaigns
  BY <1>1, <1>4, CampaignFacts, CampaignTyped
<1>6. /\ d.id = c.id /\ d.side = c.side /\ d.age = c.age /\ d.origin = c.origin
      /\ d.lifetime = c.lifetime /\ d.units = us
  BY <1>4
<1> QED
  BY <1>2, <1>5, <1>6 DEF d

\* A machine with another campaign.
LEMMA SetCampaign ==
  ASSUME NEW m \in Machines, NEW c \in Campaigns \cup {NoCampaign}
  PROVE  LET n == [m EXCEPT !.campaign = c]
         IN  /\ n \in Machines /\ n.campaign = c /\ n.exit = m.exit /\ n.day = m.day
             /\ n.candidate = m.candidate /\ n.verified = m.verified /\ n.funded = m.funded
             /\ Occupied(n) <=> c # NoCampaign
<1>1. [m EXCEPT !.campaign = c] \in Machines
  BY DEF Machines
<1>2. [m EXCEPT !.campaign = c].campaign = c
  BY DEF Machines
<1> QED
  BY <1>1, <1>2 DEF Machines, Occupied

LEMMA VacatedFacts ==
  ASSUME NEW m \in Machines
  PROVE  LET n == Vacated(m)
         IN  /\ n \in Machines /\ ~Occupied(n) /\ n.exit = "none" /\ n.day = m.day
             /\ n.candidate = m.candidate /\ n.verified = m.verified /\ n.funded = m.funded
<1>1. Vacated(m) \in Machines
  BY DEF Machines, Vacated
<1>2. Vacated(m).campaign = NoCampaign
  BY DEF Machines, Vacated
<1> QED
  BY <1>1, <1>2 DEF Machines, Vacated, Occupied

LEMMA ForgetFacts ==
  ASSUME NEW m \in Machines, Occupied(m), NEW ks
  PROVE  LET n == [m EXCEPT !.campaign = WithoutUnits(@, ks)]
         IN  /\ n \in Machines /\ Occupied(n) /\ n.exit = m.exit /\ n.day = m.day
             /\ n.candidate = m.candidate /\ n.verified = m.verified /\ n.funded = m.funded
             /\ n.campaign = WithoutUnits(m.campaign, ks)
             /\ n.campaign.id = m.campaign.id /\ n.campaign.side = m.campaign.side
             /\ n.campaign.age = m.campaign.age /\ n.campaign.origin = m.campaign.origin
             /\ n.campaign.lifetime = m.campaign.lifetime
             /\ DOMAIN n.campaign.units = DOMAIN m.campaign.units \ ks
             /\ \A k \in DOMAIN n.campaign.units : n.campaign.units[k] = m.campaign.units[k]
<1> DEFINE d == WithoutUnits(m.campaign, ks)
           n == [m EXCEPT !.campaign = d]
<1>1. m.campaign \in Campaigns
  BY MachineFacts
<1>2. d \in Campaigns
  BY <1>1, WithoutFacts
<1>3. /\ n \in Machines /\ n.campaign = d /\ n.exit = m.exit /\ n.day = m.day
      /\ n.candidate = m.candidate /\ n.verified = m.verified /\ n.funded = m.funded
  <2> HIDE DEF d
  <2> QED
    BY <1>2, SetCampaign
<1>4. Occupied(n)
  <2> HIDE DEF n, d
  <2> QED
    BY <1>2, <1>3, MachineFacts
<1>5. [m EXCEPT !.campaign = WithoutUnits(@, ks)] = n
  OBVIOUS
<1>6. /\ d.id = m.campaign.id /\ d.side = m.campaign.side
      /\ d.age = m.campaign.age /\ d.origin = m.campaign.origin
      /\ d.lifetime = m.campaign.lifetime
      /\ DOMAIN d.units = DOMAIN m.campaign.units \ ks
      /\ \A k \in DOMAIN d.units : d.units[k] = m.campaign.units[k]
  BY <1>1, WithoutFacts
<1> HIDE DEF n, d
<1> QED
  BY <1>3, <1>4, <1>5, <1>6 DEF d

\* An adapter's fields.
LEMMA AdapterFacts ==
  ASSUME NEW l \in Adapters
  PROVE  /\ l.urgent \subseteq Ks /\ l.closing \subseteq Ks /\ l.aborting \subseteq Ks
         /\ l.reversal # NoReversal =>
              l.reversal.id \in Nat /\ l.reversal.side \in Sides /\ l.reversal.at \in Nat
BY DEF Adapters

LEMMA SetFields ==
  ASSUME NEW l \in Adapters, NEW a \in SUBSET Ks
  PROVE  /\ [l EXCEPT !.urgent = a] \in Adapters /\ [l EXCEPT !.closing = a] \in Adapters
         /\ [l EXCEPT !.aborting = a] \in Adapters /\ [l EXCEPT !.reversal = NoReversal] \in Adapters
         /\ [l EXCEPT !.urgent = a] = [urgent |-> a, closing |-> l.closing, aborting |-> l.aborting,
                                       reversal |-> l.reversal]
         /\ [l EXCEPT !.closing = a] = [urgent |-> l.urgent, closing |-> a,
                                        aborting |-> l.aborting, reversal |-> l.reversal]
         /\ [l EXCEPT !.aborting = a] = [urgent |-> l.urgent, closing |-> l.closing,
                                         aborting |-> a, reversal |-> l.reversal]
         /\ [l EXCEPT !.reversal = NoReversal] = [urgent |-> l.urgent, closing |-> l.closing,
                                         aborting |-> l.aborting, reversal |-> NoReversal]
BY DEF Adapters

-----------------------------------------------------------------------------
(* The closes that are told one after the other.                           *)

ToldOrder(ks) == InOrder(ks \ {0}) \o InOrder(ks \cap {0})
ToldStep(v, k, p) ==
  LET w == ClosedOutside(v.model, v.live, k, p)
  IN  IF v.ok THEN w ELSE v
IsTold(g, m, l, ks, p) ==
  g = [T \in SUBSET DOMAIN ToldOrder(ks) |->
         IF T = {} THEN Quiet(m, l)
         ELSE ToldStep(g[T \ {Max(T)}], ToldOrder(ks)[Max(T)], p)]

LEMMA ToldUnfolds ==
  ASSUME NEW m, NEW l, NEW ks, NEW p
  PROVE  Told(m, l, ks, p) = (CHOOSE g : IsTold(g, m, l, ks, p))[DOMAIN ToldOrder(ks)]
BY DEF Told, FoldLeft, MapThenFoldSet, IsTold, ToldStep, ToldOrder

LEMMA ToldOrderFacts ==
  ASSUME NEW ks \in SUBSET Ks
  PROVE  LET q == ToldOrder(ks)
             n == Len(q)
         IN  /\ n \in Nat /\ q \in [1 .. n -> Ks] /\ DOMAIN q = 1 .. n
             /\ \A i, j \in 1 .. n : q[i] = q[j] => i = j
             /\ \A i \in 1 .. n : q[i] \in ks
             /\ \A k \in ks : \E i \in 1 .. n : q[i] = k
             /\ 0 \in ks => n # 0 /\ q[n] = 0
<1> DEFINE a == InOrder(ks \ {0})
           b == InOrder(ks \cap {0})
           na == Cardinality(ks \ {0})
           nb == Cardinality(ks \cap {0})
           q == a \o b
<1>1. /\ na \in Nat /\ a \in [1 .. na -> ks \ {0}] /\ a \in Seq(Ks) /\ Len(a) = na
      /\ \A i, j \in 1 .. na : a[i] = a[j] => i = j
      /\ \A k \in ks \ {0} : \E i \in 1 .. na : a[i] = k
  BY InOrderFacts
<1>2. /\ nb \in Nat /\ b \in [1 .. nb -> ks \cap {0}] /\ b \in Seq(Ks) /\ Len(b) = nb
      /\ \A i, j \in 1 .. nb : b[i] = b[j] => i = j
      /\ \A k \in ks \cap {0} : \E i \in 1 .. nb : b[i] = k
  BY InOrderFacts
<1>3. nb = IF 0 \in ks THEN 1 ELSE 0
  <2>1. CASE 0 \in ks
    <3>1. ks \cap {0} = {0}
      BY <2>1
    <3> QED
      BY <2>1, <3>1, FS_Singleton
  <2>2. CASE 0 \notin ks
    <3>1. ks \cap {0} = {}
      BY <2>2
    <3> QED
      BY <2>2, <3>1, FS_EmptySet
  <2> QED
    BY <2>1, <2>2
<1> HIDE DEF a, b, na, nb
<1>4. /\ q \in Seq(Ks) /\ Len(q) = na + nb /\ DOMAIN q = 1 .. (na + nb)
      /\ \A i \in 1 .. (na + nb) : q[i] = IF i <= na THEN a[i] ELSE b[i - na]
  BY <1>1, <1>2
<1> HIDE DEF q
<1>5. \A i \in 1 .. (na + nb) : i <= na => i \in 1 .. na /\ q[i] = a[i] /\ q[i] \in ks \ {0}
  BY <1>1, <1>2, <1>4
<1>6. \A i \in 1 .. (na + nb) : ~(i <= na) => i - na \in 1 .. nb /\ q[i] = b[i - na] /\ q[i] \in ks \cap {0}
  BY <1>1, <1>2, <1>4
<1>7. \A i, j \in 1 .. (na + nb) : q[i] = q[j] => i = j
  <2> SUFFICES ASSUME NEW i \in 1 .. (na + nb), NEW j \in 1 .. (na + nb), q[i] = q[j] PROVE i = j
    OBVIOUS
  <2>1. CASE i <= na /\ j <= na
    BY <1>1, <1>5, <2>1
  <2>2. CASE ~(i <= na) /\ ~(j <= na)
    BY <1>1, <1>2, <1>6, <2>2
  <2>3. CASE i <= na /\ ~(j <= na)
    BY <1>5, <1>6, <2>3
  <2>4. CASE ~(i <= na) /\ j <= na
    BY <1>5, <1>6, <2>4
  <2> QED
    BY <2>1, <2>2, <2>3, <2>4
<1>8. \A k \in ks : \E i \in 1 .. (na + nb) : q[i] = k
  <2> SUFFICES ASSUME NEW k \in ks PROVE \E i \in 1 .. (na + nb) : q[i] = k
    OBVIOUS
  <2>1. CASE k # 0
    <3>1. PICK i \in 1 .. na : a[i] = k
      BY <1>1, <2>1
    <3> QED
      BY <1>1, <1>2, <1>4, <3>1
  <2>2. CASE k = 0
    <3>1. PICK i \in 1 .. nb : b[i] = k
      BY <1>2, <2>2
    <3>2. i + na \in 1 .. (na + nb) /\ ~(i + na <= na) /\ (i + na) - na = i
      BY <1>1, <1>2
    <3> QED
      BY <1>4, <3>1, <3>2
  <2> QED
    BY <2>1, <2>2
<1>9. 0 \in ks => na + nb # 0 /\ q[na + nb] = 0
  <2> SUFFICES ASSUME 0 \in ks PROVE na + nb # 0 /\ q[na + nb] = 0
    OBVIOUS
  <2>1. nb = 1 /\ na + nb \in 1 .. (na + nb) /\ ~(na + nb <= na)
    BY <1>1, <1>3
  <2> QED
    BY <1>1, <1>6, <2>1
<1>10. q \in [1 .. (na + nb) -> Ks] /\ na + nb \in Nat
  BY <1>1, <1>2, <1>4
<1>11. \A i \in 1 .. (na + nb) : q[i] \in ks
  BY <1>5, <1>6
<1> QED
  BY <1>4, <1>7, <1>8, <1>9, <1>10, <1>11 DEF ToldOrder, q, a, b

Verdicts == [model : Machines, live : Adapters, out : Seq(Intents), ok : BOOLEAN]

LEMMA QuietTyped ==
  ASSUME NEW m \in Machines, NEW l \in Adapters
  PROVE  /\ Quiet(m, l) \in Verdicts /\ Quiet(m, l).model = m /\ Quiet(m, l).live = l
         /\ Quiet(m, l).ok = TRUE /\ Quiet(m, l).out = <<>>
BY DEF Quiet, Verdict, Verdicts

LEMMA RaisesTyped ==
  ASSUME NEW m \in Machines, NEW l \in Adapters
  PROVE  Raises(m, l) \in Verdicts /\ Raises(m, l).ok = FALSE
BY DEF Raises, Verdict, Verdicts

\* The slots whose close the strategy can be told of.
Answerable(m, l) == IF Occupied(m) THEN DOMAIN m.campaign.units ELSE l.closing

LEMMA ClosedFacts ==
  ASSUME NEW m \in Machines, NEW l \in Adapters, NEW k \in Ks, NEW p \in SUBSET Ks
  PROVE  LET v == ClosedOutside(m, l, k, p)
         IN  /\ v \in Verdicts
             /\ (Occupied(m) => 0 \in DOMAIN m.campaign.units) =>
                  (v.ok <=> k \in Answerable(m, l))
<1>1. CASE ~Occupied(m)
  <2>1. l.closing \ {k} \in SUBSET Ks
    BY AdapterFacts
  <2>2. [l EXCEPT !.closing = @ \ {k}] \in Adapters
    BY <2>1, SetFields
  <2>3. CASE k \in l.closing
    BY <1>1, <2>2, <2>3, QuietTyped DEF ClosedOutside, Answerable
  <2>4. CASE k \notin l.closing
    BY <1>1, <2>4, RaisesTyped DEF ClosedOutside, Answerable
  <2> QED
    BY <2>3, <2>4
<1>2. CASE Occupied(m) /\ k = 0
  <2>1. Vacated(m) \in Machines
    BY VacatedFacts
  <2>2. Survivors(l, p) \in Adapters
    <3>1. l.closing \cup (p \ {0}) \in SUBSET Ks /\ l.urgent \cup (p \ {0}) \in SUBSET Ks
      BY AdapterFacts
    <3> QED
      BY <3>1 DEF Survivors, Adapters
  <2> QED
    BY <1>2, <2>1, <2>2, QuietTyped DEF ClosedOutside, Answerable, ParentClosed
<1>3. CASE Occupied(m) /\ k # 0
  <2>1. l.aborting \ {k} \in SUBSET Ks
    BY AdapterFacts
  <2>2. [l EXCEPT !.aborting = @ \ {k}] \in Adapters
    BY <2>1, SetFields
  <2>3. ForgetClosedChild(m, k) \in Machines
    BY <1>3, ForgetFacts DEF ForgetClosedChild
  <2>4. CASE k \in DOMAIN m.campaign.units
    BY <1>3, <2>2, <2>3, <2>4, QuietTyped DEF ClosedOutside, Answerable, HasUnit
  <2>5. CASE k \notin DOMAIN m.campaign.units
    BY <1>3, <2>5, RaisesTyped DEF ClosedOutside, Answerable, HasUnit
  <2> QED
    BY <2>4, <2>5
<1> QED
  BY <1>1, <1>2, <1>3

LEMMA ToldExists ==
  ASSUME NEW m \in Machines, NEW l \in Adapters, NEW ks \in SUBSET Ks, NEW p \in SUBSET Ks
  PROVE  \E g : IsTold(g, m, l, ks, p)
<1> DEFINE q == ToldOrder(ks)
           n == Len(q)
           R == [x \in Verdicts \X (1 .. n) |-> ToldStep(x[1], q[x[2]], p)]
<1>1. n \in Nat /\ q \in [1 .. n -> Ks] /\ DOMAIN q = 1 .. n
  BY ToldOrderFacts
<1> HIDE DEF q, n
<1>2. ASSUME NEW v \in Verdicts, NEW i \in 1 .. n PROVE ToldStep(v, q[i], p) \in Verdicts
  <2>1. v.model \in Machines /\ v.live \in Adapters /\ q[i] \in Ks
    BY <1>1 DEF Verdicts
  <2>2. ClosedOutside(v.model, v.live, q[i], p) \in Verdicts
    BY <2>1, ClosedFacts
  <2> QED
    BY <2>2 DEF ToldStep
<1>3. R \in [Verdicts \X (1 .. n) -> Verdicts]
  BY <1>2
<1>4. Quiet(m, l) \in Verdicts
  BY QuietTyped
<1>5. \A v \in Verdicts, i \in 1 .. n : R[v, i] = ToldStep(v, q[i], p)
  OBVIOUS
<1> HIDE DEF R
<1>6. PICK h \in [SUBSET (1 .. n) -> Verdicts] : Folded(h, n, Quiet(m, l), R)
  BY <1>1, <1>3, <1>4, FoldExists
<1>7. ASSUME NEW T \in SUBSET (1 .. n), T # {}
      PROVE  R[h[T \ {Max(T)}], Max(T)] = ToldStep(h[T \ {Max(T)}], q[Max(T)], p)
  <2>1. Max(T) \in 1 .. n /\ T \ {Max(T)} \in SUBSET (1 .. n)
    BY <1>1, <1>7, SmallSets
  <2> QED
    BY <1>5, <1>6, <2>1
<1>8. \A T \in SUBSET (1 .. n) :
        h[T] = IF T = {} THEN Quiet(m, l) ELSE ToldStep(h[T \ {Max(T)}], q[Max(T)], p)
  BY <1>6, <1>7 DEF Folded
<1>9. h = [T \in SUBSET (1 .. n) |->
             IF T = {} THEN Quiet(m, l) ELSE ToldStep(h[T \ {Max(T)}], q[Max(T)], p)]
  BY <1>6, <1>8
<1>10. IsTold(h, m, l, ks, p)
  BY <1>1, <1>9 DEF IsTold, q, n
<1> QED
  BY <1>10

\* What has been heard when the closes of the slots ks have been told: children, or slots
\* without a campaign.
HeardModel(m, ks) == IF Occupied(m) THEN [m EXCEPT !.campaign = WithoutUnits(@, ks)] ELSE m
HeardLive(m, l, ks) ==
  IF Occupied(m) THEN [l EXCEPT !.aborting = @ \ ks] ELSE [l EXCEPT !.closing = @ \ ks]

LEMMA WithoutNothing ==
  ASSUME NEW c \in Campaigns
  PROVE  WithoutUnits(c, {}) = c
<1> DEFINE us == [j \in DOMAIN c.units \ {} |-> c.units[j]]
<1>1. us = c.units
  BY CampaignFacts
<1>2. WithoutUnits(c, {}) = [c EXCEPT !.units = us]
  BY DEF WithoutUnits
<1> HIDE DEF us
<1> QED
  BY <1>1, <1>2 DEF Campaigns

LEMMA WithoutTwice ==
  ASSUME NEW c \in Campaigns, NEW a, NEW b
  PROVE  WithoutUnits(WithoutUnits(c, a), b) = WithoutUnits(c, a \cup b)
<1> DEFINE d == WithoutUnits(c, a)
           e == WithoutUnits(d, b)
           f == WithoutUnits(c, a \cup b)
<1>1. /\ d \in Campaigns
      /\ d.id = c.id /\ d.side = c.side /\ d.age = c.age /\ d.origin = c.origin
      /\ d.lifetime = c.lifetime
      /\ DOMAIN d.units = DOMAIN c.units \ a
      /\ \A k \in DOMAIN d.units : d.units[k] = c.units[k]
  BY WithoutFacts
<1>2. /\ f \in Campaigns
      /\ f.id = c.id /\ f.side = c.side /\ f.age = c.age /\ f.origin = c.origin
      /\ f.lifetime = c.lifetime
      /\ DOMAIN f.units = DOMAIN c.units \ (a \cup b)
      /\ \A k \in DOMAIN f.units : f.units[k] = c.units[k]
  BY WithoutFacts
<1> HIDE DEF d, f
<1>3. /\ e \in Campaigns
      /\ e.id = d.id /\ e.side = d.side /\ e.age = d.age /\ e.origin = d.origin
      /\ e.lifetime = d.lifetime
      /\ DOMAIN e.units = DOMAIN d.units \ b
      /\ \A k \in DOMAIN e.units : e.units[k] = d.units[k]
  BY <1>1, WithoutFacts
<1> HIDE DEF e
<1>4. e.units = f.units
  <2>1. DOMAIN e.units = DOMAIN f.units
    BY <1>1, <1>2, <1>3
  <2>2. \A k \in DOMAIN e.units : e.units[k] = f.units[k]
    BY <1>1, <1>2, <1>3
  <2>3. e.units \in [DOMAIN e.units -> Units] /\ f.units \in [DOMAIN f.units -> Units]
    BY <1>2, <1>3, CampaignFacts
  <2> QED
    BY <2>1, <2>2, <2>3
<1>5. e = f
  BY <1>1, <1>2, <1>3, <1>4, CampaignFacts
<1> QED
  BY <1>5 DEF d, e, f

LEMMA HeardFacts ==
  ASSUME NEW m \in Machines, NEW l \in Adapters, NEW ks \in SUBSET Ks
  PROVE  /\ HeardModel(m, ks) \in Machines /\ HeardLive(m, l, ks) \in Adapters
         /\ Occupied(HeardModel(m, ks)) <=> Occupied(m)
         /\ Answerable(HeardModel(m, ks), HeardLive(m, l, ks)) = Answerable(m, l) \ ks
<1>1. l.aborting \ ks \in SUBSET Ks /\ l.closing \ ks \in SUBSET Ks
  BY AdapterFacts
<1>2. HeardLive(m, l, ks) \in Adapters
  BY <1>1, SetFields DEF HeardLive
<1>3. CASE Occupied(m)
  BY <1>2, <1>3, ForgetFacts DEF HeardModel, Answerable
<1>4. CASE ~Occupied(m)
  <2>1. HeardLive(m, l, ks).closing = l.closing \ ks
    BY <1>1, <1>4, SetFields DEF HeardLive
  <2> QED
    BY <1>2, <1>4, <2>1 DEF HeardModel, Answerable
<1> QED
  BY <1>3, <1>4

LEMMA HeardOneMore ==
  ASSUME NEW m \in Machines, NEW l \in Adapters, NEW ks \in SUBSET Ks, NEW k \in Ks,
         NEW p \in SUBSET Ks, Occupied(m) => k # 0,
         k \in Answerable(m, l) \ ks
  PROVE  ClosedOutside(HeardModel(m, ks), HeardLive(m, l, ks), k, p)
           = Quiet(HeardModel(m, ks \cup {k}), HeardLive(m, l, ks \cup {k}))
<1> DEFINE n == HeardModel(m, ks)
           f == HeardLive(m, l, ks)
<1>1. n \in Machines /\ f \in Adapters /\ (Occupied(n) <=> Occupied(m)) /\ k \in Answerable(n, f)
  BY HeardFacts
<1>2. CASE Occupied(m)
  <2>1. n = [m EXCEPT !.campaign = WithoutUnits(m.campaign, ks)]
        /\ f = [l EXCEPT !.aborting = l.aborting \ ks]
    BY <1>2 DEF HeardModel, HeardLive
  <2>2. n.campaign = WithoutUnits(m.campaign, ks)
    BY <1>2, ForgetFacts DEF HeardModel
  <2>3. m.campaign \in Campaigns
    BY <1>2, MachineFacts
  <2>4. ForgetClosedChild(n, k) = [n EXCEPT !.campaign = WithoutUnits(m.campaign, ks \cup {k})]
    <3>1. ForgetClosedChild(n, k) = [n EXCEPT !.campaign = WithoutUnits(n.campaign, {k})]
      BY DEF ForgetClosedChild
    <3>2. WithoutUnits(n.campaign, {k}) = WithoutUnits(m.campaign, ks \cup {k})
      BY <2>2, <2>3, WithoutTwice
    <3> QED
      BY <3>1, <3>2
  <2> HIDE DEF n, f
  <2>5. ForgetClosedChild(n, k) = HeardModel(m, ks \cup {k})
    <3> DEFINE c == WithoutUnits(m.campaign, ks)
               d == WithoutUnits(m.campaign, ks \cup {k})
    <3>1. [n EXCEPT !.campaign = d] = [m EXCEPT !.campaign = d]
      <4> HIDE DEF c, d
      <4>1. n = [m EXCEPT !.campaign = c]
        BY <2>1 DEF c
      <4> QED
        BY <4>1 DEF Machines
    <3> QED
      BY <1>2, <2>4, <3>1 DEF HeardModel
  <2>6. [f EXCEPT !.aborting = f.aborting \ {k}] = HeardLive(m, l, ks \cup {k})
    <3>1. f.aborting = l.aborting \ ks
      BY <2>1 DEF Adapters
    <3>2. (l.aborting \ ks) \ {k} = l.aborting \ (ks \cup {k})
      OBVIOUS
    <3> QED
      BY <1>2, <2>1, <3>1, <3>2 DEF HeardLive, Adapters
  <2>7. HasUnit(n, k) /\ k # 0 /\ Occupied(n)
    BY <1>1, <1>2 DEF HasUnit, Answerable
  <2>8. ClosedOutside(n, f, k, p) = Quiet(ForgetClosedChild(n, k), [f EXCEPT !.aborting = f.aborting \ {k}])
    BY <2>7 DEF ClosedOutside
  <2> QED
    BY <2>5, <2>6, <2>8 DEF n, f
<1>3. CASE ~Occupied(m)
  <2>1. n = m /\ f = [l EXCEPT !.closing = l.closing \ ks] /\ HeardModel(m, ks \cup {k}) = m
    BY <1>3 DEF HeardModel, HeardLive
  <2> HIDE DEF n, f
  <2>2. k \in f.closing /\ ~Occupied(n)
    BY <1>1, <1>3 DEF Answerable
  <2>3. [f EXCEPT !.closing = f.closing \ {k}] = HeardLive(m, l, ks \cup {k})
    <3>1. f.closing = l.closing \ ks
      BY <2>1 DEF Adapters
    <3>2. (l.closing \ ks) \ {k} = l.closing \ (ks \cup {k})
      OBVIOUS
    <3> QED
      BY <1>3, <2>1, <3>1, <3>2 DEF HeardLive, Adapters
  <2>4. ClosedOutside(n, f, k, p) = Quiet(n, [f EXCEPT !.closing = f.closing \ {k}])
    BY <2>2 DEF ClosedOutside
  <2> QED
    BY <2>1, <2>3, <2>4 DEF n, f
<1> QED
  BY <1>2, <1>3

LEMMA QuietFields ==
  ASSUME NEW m, NEW l
  PROVE  /\ Quiet(m, l).model = m /\ Quiet(m, l).live = l /\ Quiet(m, l).ok
         /\ Quiet(m, l).out = <<>>
BY DEF Quiet, Verdict

\* The first slots of the order.
ToldUpTo(ks, i) == {ToldOrder(ks)[j] : j \in 1 .. i}

LEMMA UpToFacts ==
  ASSUME NEW ks \in SUBSET Ks, NEW i \in Nat, i <= Len(ToldOrder(ks))
  PROVE  /\ ToldUpTo(ks, i) \in SUBSET Ks /\ ToldUpTo(ks, i) \subseteq ks
         /\ ToldUpTo(ks, 0) = {}
         /\ i # 0 => /\ ToldUpTo(ks, i) = ToldUpTo(ks, i - 1) \cup {ToldOrder(ks)[i]}
                     /\ ToldOrder(ks)[i] \in ks \ ToldUpTo(ks, i - 1)
         /\ i = Len(ToldOrder(ks)) => ToldUpTo(ks, i) = ks
         /\ i < Len(ToldOrder(ks)) /\ 0 \in ks => 0 \notin ToldUpTo(ks, i)
<1> DEFINE q == ToldOrder(ks)
           n == Len(q)
<1>1. /\ n \in Nat /\ q \in [1 .. n -> Ks] /\ DOMAIN q = 1 .. n
      /\ \A j, k \in 1 .. n : q[j] = q[k] => j = k
      /\ \A j \in 1 .. n : q[j] \in ks
      /\ \A k \in ks : \E j \in 1 .. n : q[j] = k
      /\ 0 \in ks => n # 0 /\ q[n] = 0
  BY ToldOrderFacts
<1>2. i <= n
  OBVIOUS
<1> HIDE DEF q, n
<1>3. ToldUpTo(ks, i) = {q[j] : j \in 1 .. i} /\ ToldUpTo(ks, i - 1) = {q[j] : j \in 1 .. (i - 1)}
      /\ ToldUpTo(ks, 0) = {q[j] : j \in 1 .. 0}
  BY DEF ToldUpTo, q
<1>4. {q[j] : j \in 1 .. i} \in SUBSET Ks /\ {q[j] : j \in 1 .. i} \subseteq ks
  BY <1>1, <1>2
<1>5. {q[j] : j \in 1 .. 0} = {}
  OBVIOUS
<1>6. ASSUME i # 0
      PROVE  /\ {q[j] : j \in 1 .. i} = {q[j] : j \in 1 .. (i - 1)} \cup {q[i]}
             /\ q[i] \in ks /\ q[i] \notin {q[j] : j \in 1 .. (i - 1)}
  <2>1. 1 .. i = (1 .. (i - 1)) \cup {i} /\ i \in 1 .. n
    BY <1>1, <1>2, <1>6
  <2>2. q[i] \notin {q[j] : j \in 1 .. (i - 1)}
    BY <1>1, <1>2, <2>1
  <2> QED
    BY <1>1, <2>1, <2>2
<1>7. i = n => {q[j] : j \in 1 .. i} = ks
  BY <1>1
<1>8. i < n /\ 0 \in ks => 0 \notin {q[j] : j \in 1 .. i}
  <2> SUFFICES ASSUME i < n, 0 \in ks, NEW j \in 1 .. i PROVE q[j] # 0
    OBVIOUS
  <2>1. j \in 1 .. n /\ n \in 1 .. n /\ j # n
    BY <1>1
  <2> QED
    BY <1>1, <2>1
<1> QED
  BY <1>3, <1>4, <1>5, <1>6, <1>7, <1>8 DEF q, n

LEMMA ToldUpToFacts ==
  ASSUME NEW m \in Machines, NEW l \in Adapters, NEW ks \in SUBSET Ks, NEW p \in SUBSET Ks,
         Occupied(m) => 0 \in DOMAIN m.campaign.units,
         NEW g, IsTold(g, m, l, ks, p),
         NEW n \in Nat, n <= Len(ToldOrder(ks)),
         Occupied(m) => 0 \notin ToldUpTo(ks, n)
  PROVE  LET v == g[1 .. n]
             ds == ToldUpTo(ks, n)
         IN  /\ v \in Verdicts
             /\ v.ok <=> ds \subseteq Answerable(m, l)
             /\ v.ok => v = Quiet(HeardModel(m, ds), HeardLive(m, l, ds))
<1> DEFINE q == ToldOrder(ks)
           N == Len(q)
           D(i) == ToldUpTo(ks, i)
           Good(i) == /\ g[1 .. i] \in Verdicts
                      /\ g[1 .. i].ok <=> D(i) \subseteq Answerable(m, l)
                      /\ g[1 .. i].ok => g[1 .. i] = Quiet(HeardModel(m, D(i)), HeardLive(m, l, D(i)))
           G == {i \in Nat : i <= n => Good(i)}
<1>1. N \in Nat /\ q \in [1 .. N -> Ks] /\ DOMAIN q = 1 .. N
  BY ToldOrderFacts
<1>2. g = [T \in SUBSET (1 .. N) |->
             IF T = {} THEN Quiet(m, l) ELSE ToldStep(g[T \ {Max(T)}], q[Max(T)], p)]
  BY <1>1 DEF IsTold
<1>3. n <= N
  OBVIOUS
<1>4. Good(0)
  <2>1. 1 .. 0 = {} /\ 1 .. 0 \in SUBSET (1 .. N)
    OBVIOUS
  <2>2. g[1 .. 0] = Quiet(m, l)
    <3> HIDE DEF q, N
    <3> QED
      BY <1>2, <2>1
  <2>3. D(0) = {}
    BY UpToFacts, <1>1
  <2>4. HeardModel(m, {}) = m
    <3>1. CASE Occupied(m)
      <4>1. WithoutUnits(m.campaign, {}) = m.campaign
        BY <3>1, MachineFacts, WithoutNothing
      <4>2. [m EXCEPT !.campaign = m.campaign] = m
        BY DEF Machines
      <4> QED
        BY <3>1, <4>1, <4>2 DEF HeardModel
    <3>2. CASE ~Occupied(m)
      BY <3>2 DEF HeardModel
    <3> QED
      BY <3>1, <3>2
  <2>5. HeardLive(m, l, {}) = l
    BY DEF HeardLive, Adapters
  <2> QED
    BY <2>2, <2>3, <2>4, <2>5, QuietTyped
<1>5. ASSUME NEW i \in 1 .. n, Good(i - 1) PROVE Good(i)
  <2> DEFINE v == g[1 .. (i - 1)]
             a == Answerable(m, l)
             m1 == HeardModel(m, D(i - 1))
             l1 == HeardLive(m, l, D(i - 1))
             w == ClosedOutside(v.model, v.live, q[i], p)
  <2>1. i \in 1 .. N /\ i \in Nat /\ i # 0 /\ 1 .. i \in SUBSET (1 .. N) /\ i <= N /\ i - 1 \in Nat /\ i - 1 <= N
    BY <1>1, <1>3
  <2>2. g[1 .. i] = ToldStep(v, q[i], p)
    <3>1. Max(1 .. i) = i /\ (1 .. i) \ {i} = 1 .. (i - 1) /\ 1 .. i # {}
      BY <2>1, PrefixMax
    <3>2. g[1 .. i] = ToldStep(g[(1 .. i) \ {Max(1 .. i)}], q[Max(1 .. i)], p)
      <4> HIDE DEF q, N
      <4> QED
        BY <1>2, <2>1, <3>1
    <3> QED
      BY <3>1, <3>2
  <2>3. D(i) = D(i - 1) \cup {q[i]} /\ q[i] \notin D(i - 1) /\ D(i - 1) \in SUBSET Ks /\ q[i] \in Ks
    BY <2>1, <1>1, UpToFacts
  <2>4. v \in Verdicts /\ v.model \in Machines /\ v.live \in Adapters
        /\ (v.ok <=> D(i - 1) \subseteq a) /\ (v.ok => v = Quiet(m1, l1))
    BY <1>5 DEF Verdicts
  <2>5. Occupied(m) => 0 \notin D(i)
    <3>1. CASE i = n
      BY <3>1
    <3>2. CASE i < n
      <4>1. D(i) \subseteq D(n)
        BY <1>1, <2>1 DEF ToldUpTo
      <4> QED
        BY <4>1
    <3> QED
      BY <3>1, <3>2
  <2>6. w \in Verdicts
    BY <2>3, <2>4, ClosedFacts
  <2>7. ToldStep(v, q[i], p) = IF v.ok THEN w ELSE v
    BY DEF ToldStep
  <2> HIDE DEF D, q, N, v, w, a
  <2>8. CASE ~v.ok
    BY <2>2, <2>3, <2>4, <2>7, <2>8 DEF v, a
  <2>9. CASE v.ok
    <3>1. v.model = m1 /\ v.live = l1 /\ D(i - 1) \subseteq a
      <4> HIDE DEF m1, l1
      <4>1. v = Quiet(m1, l1) /\ D(i - 1) \subseteq a
        BY <2>4, <2>9
      <4> QED
        BY <4>1, QuietFields
    <3>2. /\ m1 \in Machines /\ l1 \in Adapters /\ (Occupied(m1) <=> Occupied(m))
          /\ Answerable(m1, l1) = a \ D(i - 1)
      BY <2>3, HeardFacts DEF a
    <3>3. Occupied(m1) => 0 \in DOMAIN m1.campaign.units
      <4> SUFFICES ASSUME Occupied(m) PROVE 0 \in DOMAIN m1.campaign.units
        BY <3>2
      <4>1. 0 \notin D(i - 1)
        BY <2>3, <2>5
      <4>2. m1 = [m EXCEPT !.campaign = WithoutUnits(@, D(i - 1))]
        BY DEF HeardModel
      <4>3. DOMAIN m1.campaign.units = DOMAIN m.campaign.units \ D(i - 1)
        <5> DEFINE ds == D(i - 1)
        <5> HIDE DEF m1, ds
        <5>1. m1 = [m EXCEPT !.campaign = WithoutUnits(@, ds)]
          BY <4>2 DEF ds
        <5>2. DOMAIN m1.campaign.units = DOMAIN m.campaign.units \ ds
          BY <5>1, ForgetFacts
        <5> QED
          BY <5>2 DEF ds
      <4> QED
        BY <4>1, <4>3
    <3>4. w.ok <=> q[i] \in a \ D(i - 1)
      <4>1. w = ClosedOutside(m1, l1, q[i], p)
        BY <3>1 DEF w
      <4> HIDE DEF m1, l1
      <4> QED
        BY <4>1, <2>3, <3>2, <3>3, ClosedFacts
    <3>5. w.ok => w = Quiet(HeardModel(m, D(i)), HeardLive(m, l, D(i)))
      <4> SUFFICES ASSUME w.ok PROVE w = Quiet(HeardModel(m, D(i)), HeardLive(m, l, D(i)))
        OBVIOUS
      <4>1. q[i] \in Answerable(m, l) \ D(i - 1)
        BY <3>4 DEF a
      <4>2. Occupied(m) => q[i] # 0
        BY <2>3, <2>5
      <4>3. w = ClosedOutside(m1, l1, q[i], p)
        BY <3>1 DEF w
      <4> QED
        BY <2>3, <4>1, <4>2, <4>3, HeardOneMore
    <3> QED
      BY <2>2, <2>3, <2>6, <2>7, <2>9, <3>1, <3>4, <3>5 DEF a
  <2> QED
    BY <2>8, <2>9
<1> HIDE DEF Good, N, q
<1>6. 0 \in G
  BY <1>4
<1>7. \A i \in 1 .. n : i - 1 \in G => i \in G
  BY <1>5
<1>8. n \in G
  <2> HIDE DEF G
  <2> QED
    BY <1>6, <1>7, Stepwise
<1>9. Good(n)
  BY <1>8
<1> QED
  BY <1>9 DEF Good

\* The parent's close, which comes last, ends the campaign.
HeardParent(m, l, ks, p) ==
  Quiet(Vacated(HeardModel(m, ks \ {0})), Survivors(HeardLive(m, l, ks \ {0}), p))

\* What is left when every close of ks has been told: all were answerable.
LEMMA ToldFacts ==
  ASSUME NEW m \in Machines, NEW l \in Adapters, NEW ks \in SUBSET Ks, NEW p \in SUBSET Ks,
         Occupied(m) => 0 \in DOMAIN m.campaign.units,
         NEW v, v = Told(m, l, ks, p)
  PROVE  /\ v \in Verdicts
         /\ v.ok <=> ks \subseteq Answerable(m, l)
         /\ v.ok /\ ~(Occupied(m) /\ 0 \in ks) => v = Quiet(HeardModel(m, ks), HeardLive(m, l, ks))
         /\ v.ok /\ Occupied(m) /\ 0 \in ks => v = HeardParent(m, l, ks, p)
<1> DEFINE q == ToldOrder(ks)
           n == Len(q)
           g == CHOOSE h : IsTold(h, m, l, ks, p)
<1>1. /\ n \in Nat /\ q \in [1 .. n -> Ks] /\ DOMAIN q = 1 .. n
      /\ 0 \in ks => n # 0 /\ q[n] = 0
  BY ToldOrderFacts
<1>2. IsTold(g, m, l, ks, p)
  BY ToldExists
<1>3. v = g[1 .. n]
  BY <1>1, ToldUnfolds
<1>4. g = [T \in SUBSET (1 .. n) |->
             IF T = {} THEN Quiet(m, l) ELSE ToldStep(g[T \ {Max(T)}], q[Max(T)], p)]
  BY <1>1, <1>2 DEF IsTold
<1> HIDE DEF g
<1>5. ToldUpTo(ks, n) = ks
  BY <1>1, UpToFacts
<1>6. CASE ~(Occupied(m) /\ 0 \in ks)
  <2>1. Occupied(m) => 0 \notin ToldUpTo(ks, n)
    BY <1>5, <1>6
  <2> HIDE DEF n
  <2>2. /\ g[1 .. n] \in Verdicts /\ (g[1 .. n].ok <=> ks \subseteq Answerable(m, l))
        /\ g[1 .. n].ok => g[1 .. n] = Quiet(HeardModel(m, ks), HeardLive(m, l, ks))
    <3>1. n <= Len(ToldOrder(ks))
      BY <1>1 DEF n
    <3> QED
      BY <1>1, <1>2, <1>5, <2>1, <3>1, ToldUpToFacts
  <2> QED
    BY <1>3, <1>6, <2>2 DEF HeardParent
<1>7. CASE Occupied(m) /\ 0 \in ks
  <2> DEFINE w == g[1 .. (n - 1)]
             cs == ks \ {0}
             x == ClosedOutside(w.model, w.live, 0, p)
  <2>1. n # 0 /\ q[n] = 0 /\ n - 1 \in Nat /\ n - 1 <= n /\ n - 1 < n /\ n \in 1 .. n
    BY <1>1, <1>7
  <2>2. ToldUpTo(ks, n - 1) = cs
    <3>1. 0 \notin ToldUpTo(ks, n - 1)
      BY <1>7, <2>1, UpToFacts
    <3>2. ToldUpTo(ks, n) = ToldUpTo(ks, n - 1) \cup {0}
      BY <1>1, <2>1, UpToFacts
    <3> QED
      BY <1>5, <3>1, <3>2
  <2>3. /\ w \in Verdicts /\ (w.ok <=> cs \subseteq Answerable(m, l))
        /\ w.ok => w = Quiet(HeardModel(m, cs), HeardLive(m, l, cs))
    <3> DEFINE k == n - 1
    <3>1. k \in Nat /\ k <= Len(ToldOrder(ks)) /\ ToldUpTo(ks, k) = cs /\ 0 \notin ToldUpTo(ks, k)
      BY <2>1, <2>2
    <3> HIDE DEF k
    <3>2. /\ g[1 .. k] \in Verdicts /\ (g[1 .. k].ok <=> cs \subseteq Answerable(m, l))
          /\ g[1 .. k].ok => g[1 .. k] = Quiet(HeardModel(m, cs), HeardLive(m, l, cs))
      <4> HIDE DEF cs, q, n, w, x
      <4> QED
        BY <1>2, <3>1, ToldUpToFacts
    <3> QED
      BY <3>2 DEF k
  <2>4. v = IF w.ok THEN x ELSE w
    <3>1. Max(1 .. n) = n /\ (1 .. n) \ {n} = 1 .. (n - 1) /\ 1 .. n # {}
      BY <1>1, <2>1, PrefixMax
    <3>2. g[1 .. n] = ToldStep(g[(1 .. n) \ {Max(1 .. n)}], q[Max(1 .. n)], p)
      <4> HIDE DEF q, n
      <4> QED
        BY <1>4, <3>1
    <3> QED
      BY <1>3, <2>1, <3>1, <3>2 DEF ToldStep
  <2>5. 0 \in Answerable(m, l)
    BY <1>7 DEF Answerable
  <2>6. CASE w.ok
    <3> DEFINE m1 == HeardModel(m, cs)
               l1 == HeardLive(m, l, cs)
    <3>1. m1 \in Machines /\ l1 \in Adapters /\ Occupied(m1)
      BY <1>7, HeardFacts
    <3>2. w.model = m1 /\ w.live = l1
      <4> HIDE DEF m1, l1, w
      <4>1. w = Quiet(m1, l1)
        BY <2>3, <2>6 DEF m1, l1
      <4> QED
        BY <4>1, QuietFields
    <3>3. x = Quiet(Vacated(m1), Survivors(l1, p))
      BY <3>1, <3>2 DEF ClosedOutside, ParentClosed
    <3>4. x \in Verdicts /\ x.ok
      <4>1. x \in Verdicts
        BY <3>1, <3>2, SlotSets, ClosedFacts
      <4> QED
        BY <3>3, <4>1 DEF Quiet, Verdict
    <3> QED
      BY <1>7, <2>3, <2>4, <2>5, <2>6, <3>3, <3>4 DEF HeardParent
  <2>7. CASE ~w.ok
    BY <1>7, <2>3, <2>4, <2>7 DEF HeardParent
  <2> QED
    BY <2>6, <2>7
<1> QED
  BY <1>6, <1>7

-----------------------------------------------------------------------------
(* What is sound.                                                          *)

\* A machine between two calls: no exit is pending, the units of a campaign are numbered
\* below its lifetime count, and their origins follow from the campaign's.
Rested(m) ==
  /\ m \in Machines /\ m.exit = "none"
  /\ Occupied(m) =>
       LET c == m.campaign
       IN  /\ c.id <= m.day /\ 0 \in DOMAIN c.units
           /\ \A k \in DOMAIN c.units : k < c.lifetime
           /\ c.origin # "live" => \A k \in DOMAIN c.units : c.units[k].origin = c.origin
           /\ c.origin = "live" => /\ c.units[0].origin = "live"
                                   /\ \A k \in DOMAIN c.units : c.units[k].origin # "historical"
           /\ c.origin = "paper" => DOMAIN c.units = {0}

\* A pending reversal has no campaign, or its own paper campaign.
Waits(m, l) ==
  l.reversal # NoReversal =>
    /\ l.reversal.id <= m.day /\ l.reversal.at = Minute(l.reversal.id, 0)
    /\ Occupied(m) => IsOf(m, "paper") /\ m.campaign.id = l.reversal.id

Matches(t, c) == t.id = c.id /\ t.side = c.side

\* The trade of slot k is one that the campaign does not count on.
Leaving(m, l, s, k) ==
  \/ ~Occupied(m)
  \/ IsOf(m, "live") /\ k \in l.aborting
  \/ IsOf(m, "live") /\ m.campaign.units[k].origin = "paper" /\ s[k].far

\* Machine m and fields l account for the trades s, the closes u still to be told and the
\* closes b begun: what is held matches the campaign, or is queued for closure.
Sound(m, l, s, u, b) ==
  /\ Rested(m) /\ l \in Adapters /\ 0 \notin l.aborting /\ Waits(m, l)
  /\ ~Occupied(m) => Held(s) \subseteq l.closing
  /\ Occupied(m) => l.closing = {} /\ \A k \in Held(s) : Matches(s[k], m.campaign)
  /\ IsOf(m, "historical") => Held(s) = {} /\ u = {} /\ l.aborting = {}
  /\ IsOf(m, "paper") => Held(s) \cup u \subseteq {0}
  /\ IsOf(m, "live") =>
       /\ 0 \in Held(s) \cup u /\ Held(s) \cup u \subseteq DOMAIN m.campaign.units
       /\ \A k \in DOMAIN m.campaign.units \ {0} :
            IF m.campaign.units[k].origin = "paper" THEN k + 1 = m.campaign.lifetime
            ELSE k \in Held(s) \cup u \cup l.aborting
  /\ \A k \in b : Leaving(m, l, s, k)

\* Between bars nothing is half-done: h is held or still to be told, p is the mirror.
Between(m, l, h, p) ==
  /\ ~IsOf(m, "paper") /\ h \subseteq p
  /\ ~Occupied(m) => l.closing = p
  /\ Occupied(m) => l.urgent = {}
  /\ IsOf(m, "historical") => p = {}
  /\ IsOf(m, "live") =>
       /\ DOMAIN m.campaign.units = p /\ l.aborting \subseteq p
       /\ \A k \in p : m.campaign.units[k].origin = "live"

\* No slot that the campaign may still open is among the first n trades of T.
Fresh(m, l, T, n) ==
  /\ Occupied(m) =>
       \A i \in 1 .. n : T[i][1] = m.campaign.id =>
         /\ T[i][2] < m.campaign.lifetime
         /\ T[i][2] \in DOMAIN m.campaign.units => m.campaign.units[T[i][2]].origin = "live"
  /\ l.reversal # NoReversal => \A i \in 1 .. n : T[i][1] # l.reversal.id

-----------------------------------------------------------------------------

LEMMA TradeFacts ==
  ASSUME NEW s \in [Ks -> Trades]
  PROVE  /\ Held(s) \in SUBSET Ks /\ \A k \in Ks : k \in Held(s) <=> s[k] # NoTrade
         /\ \A k \in Held(s) : s[k] \in [id : Nat, side : Sides, far : BOOLEAN]
BY DEF Held, Trades

\* n is m without the units ds.
Trims(m, n, ds) ==
  /\ n \in Machines /\ Occupied(n) /\ n.exit = m.exit /\ n.day = m.day
  /\ n.verified = m.verified /\ n.funded = m.funded
  /\ n.campaign.id = m.campaign.id /\ n.campaign.side = m.campaign.side
  /\ n.campaign.origin = m.campaign.origin /\ n.campaign.lifetime = m.campaign.lifetime
  /\ DOMAIN n.campaign.units = DOMAIN m.campaign.units \ ds
  /\ \A k \in DOMAIN n.campaign.units : n.campaign.units[k] = m.campaign.units[k]

LEMMA TrimsFacts ==
  ASSUME NEW m \in Machines, Occupied(m), NEW ds
  PROVE  Trims(m, [m EXCEPT !.campaign = WithoutUnits(@, ds)], ds)
<1> DEFINE n == [m EXCEPT !.campaign = WithoutUnits(@, ds)]
<1>1. /\ n \in Machines /\ Occupied(n) /\ n.exit = m.exit /\ n.day = m.day
      /\ n.verified = m.verified /\ n.funded = m.funded
      /\ n.campaign.id = m.campaign.id /\ n.campaign.side = m.campaign.side
      /\ n.campaign.origin = m.campaign.origin
      /\ n.campaign.lifetime = m.campaign.lifetime
      /\ DOMAIN n.campaign.units = DOMAIN m.campaign.units \ ds
      /\ \A k \in DOMAIN n.campaign.units : n.campaign.units[k] = m.campaign.units[k]
  BY ForgetFacts
<1> HIDE DEF n
<1>2. Trims(m, n, ds)
  BY <1>1 DEF Trims
<1> QED
  BY <1>2 DEF n

\* (n, f) offers no slot for opening that (m, l) does not.
Shrinks(m, l, n, f) ==
  /\ n.day = m.day
  /\ f.reversal \in {l.reversal, NoReversal}
  /\ Occupied(n) =>
       /\ Occupied(m) /\ n.campaign.id = m.campaign.id
       /\ DOMAIN n.campaign.units \subseteq DOMAIN m.campaign.units
       /\ \A k \in DOMAIN n.campaign.units :
            n.campaign.units[k].origin \in {m.campaign.units[k].origin, "live"}
       /\ \A k \in Ks :
            k < m.campaign.lifetime =>
              \/ k < n.campaign.lifetime
              \/ k \in DOMAIN m.campaign.units /\ m.campaign.units[k].origin # "live"

LEMMA ShrinkFresh ==
  ASSUME NEW m, NEW l, NEW n, NEW f, NEW T, NEW N \in Nat,
         \A i \in 1 .. N : T[i][2] \in Ks,
         Shrinks(m, l, n, f), Fresh(m, l, T, N)
  PROVE  Fresh(n, f, T, N)
<1>1. f.reversal # NoReversal => \A i \in 1 .. N : T[i][1] # f.reversal.id
  BY DEF Fresh, Shrinks
<1>2. ASSUME Occupied(n), NEW i \in 1 .. N, T[i][1] = n.campaign.id
      PROVE  /\ T[i][2] < n.campaign.lifetime
             /\ T[i][2] \in DOMAIN n.campaign.units => n.campaign.units[T[i][2]].origin = "live"
  <2>1. /\ Occupied(m) /\ T[i][1] = m.campaign.id /\ T[i][2] \in Ks
        /\ T[i][2] < m.campaign.lifetime
        /\ T[i][2] \in DOMAIN m.campaign.units => m.campaign.units[T[i][2]].origin = "live"
    BY <1>2 DEF Fresh, Shrinks
  <2> QED
    BY <1>2, <2>1 DEF Shrinks
<1> QED
  BY <1>1, <1>2 DEF Fresh

LEMMA ShrinkTwice ==
  ASSUME NEW m, NEW l, NEW n, NEW f, NEW o, NEW g,
         Shrinks(m, l, n, f), Shrinks(n, f, o, g)
  PROVE  Shrinks(m, l, o, g)
<1>1. o.day = m.day /\ g.reversal \in {l.reversal, NoReversal}
  BY DEF Shrinks
<1>2. ASSUME Occupied(o)
      PROVE  /\ Occupied(m) /\ o.campaign.id = m.campaign.id
             /\ DOMAIN o.campaign.units \subseteq DOMAIN m.campaign.units
             /\ \A k \in DOMAIN o.campaign.units :
                  o.campaign.units[k].origin \in {m.campaign.units[k].origin, "live"}
             /\ \A k \in Ks :
                  k < m.campaign.lifetime =>
                    \/ k < o.campaign.lifetime
                    \/ k \in DOMAIN m.campaign.units /\ m.campaign.units[k].origin # "live"
  <2>1. Occupied(n) /\ Occupied(m)
    BY <1>2 DEF Shrinks
  <2>2. ASSUME NEW k \in Ks, k < m.campaign.lifetime
        PROVE  \/ k < o.campaign.lifetime
               \/ k \in DOMAIN m.campaign.units /\ m.campaign.units[k].origin # "live"
    <3>1. CASE k < n.campaign.lifetime
      BY <1>2, <2>1, <2>2, <3>1 DEF Shrinks
    <3>2. CASE ~(k < n.campaign.lifetime)
      BY <2>1, <2>2, <3>2 DEF Shrinks
    <3> QED
      BY <3>1, <3>2
  <2> QED
    BY <1>2, <2>1, <2>2 DEF Shrinks
<1> QED
  BY <1>1, <1>2 DEF Shrinks

\* The units whose abort is done: their slot is flat.
Flat(m, l, p) == (l.aborting \ p) \cap DOMAIN m.campaign.units

LEMMA SettledFacts ==
  ASSUME NEW m \in Machines, NEW l \in Adapters, NEW p \in SUBSET Ks,
         NEW v, v = Settled(m, l, p)
  PROVE  /\ v.ok /\ v.out = <<>> /\ v.model \in Machines /\ v.live \in Adapters
         /\ v.live.urgent = l.urgent /\ v.live.closing = l.closing \cap p
         /\ v.live.aborting = l.aborting \cap p /\ v.live.reversal = l.reversal
         /\ ~Occupied(m) => v.model = m
         /\ Occupied(m) => Trims(m, v.model, Flat(m, l, p))
<1> DEFINE flat == l.aborting \ p
           ds == flat \cap DOMAIN m.campaign.units
           n == IF Occupied(m)
                THEN [m EXCEPT !.campaign = WithoutUnits(@, flat \cap DOMAIN @.units)] ELSE m
           f == [l EXCEPT !.aborting = @ \cap p, !.closing = @ \cap p]
<1>1. Settled(m, l, p) = Quiet(n, f)
  BY DEF Settled
<1>2. f \in Adapters /\ f.urgent = l.urgent /\ f.closing = l.closing \cap p
      /\ f.aborting = l.aborting \cap p /\ f.reversal = l.reversal
  BY DEF Adapters
<1>3. Occupied(m) => Trims(m, n, ds)
  <2> SUFFICES ASSUME Occupied(m) PROVE Trims(m, n, ds)
    OBVIOUS
  <2>1. n = [m EXCEPT !.campaign = WithoutUnits(@, ds)]
    OBVIOUS
  <2> HIDE DEF n
  <2> QED
    BY <2>1, TrimsFacts
<1>4. n \in Machines
  <2>1. CASE Occupied(m)
    BY <1>3, <2>1 DEF Trims
  <2>2. CASE ~Occupied(m)
    BY <2>2
  <2> QED
    BY <2>1, <2>2
<1>5. ~Occupied(m) => n = m
  OBVIOUS
<1> HIDE DEF n, f
<1>6. v.model = n /\ v.live = f /\ v.ok /\ v.out = <<>>
  <2>1. Quiet(n, f).model = n /\ Quiet(n, f).live = f /\ Quiet(n, f).ok /\ Quiet(n, f).out = <<>>
    BY QuietFields
  <2>2. v = Quiet(n, f)
    BY <1>1
  <2> QED
    BY <2>1, <2>2
<1> QED
  BY <1>2, <1>3, <1>4, <1>5, <1>6 DEF Flat

\* Without a campaign, everything held has to be queued for closure.
LEMMA IdleSound ==
  ASSUME NEW n \in Machines, ~Occupied(n), n.exit = "none", NEW f \in Adapters,
         0 \notin f.aborting,
         f.reversal # NoReversal =>
           f.reversal.id <= n.day /\ f.reversal.at = Minute(f.reversal.id, 0),
         NEW s, Held(s) \subseteq f.closing, NEW u, NEW b
  PROVE  Sound(n, f, s, u, b)
BY DEF Sound, Rested, Waits, IsOf, Leaving

\* Units and trades leave the campaign together: the units ds, and the trades that s2 lacks.
Departs(m, l, s, u, b, ds, f, s2, u2, b2) ==
  /\ 0 \notin ds /\ f.closing = l.closing /\ f.reversal = l.reversal
  /\ f.aborting \subseteq l.aborting /\ l.aborting \cap Held(s2) \subseteq f.aborting
  /\ Held(s2) \subseteq Held(s) \ ds /\ \A k \in Held(s2) : s2[k] = s[k]
  /\ u2 \subseteq u /\ b2 \subseteq b \cap Held(s2)
  /\ IsOf(m, "live") =>
       /\ 0 \in Held(s2) \cup u2 /\ u2 \cap ds = {}
       /\ \A k \in DOMAIN m.campaign.units \ {0} :
            m.campaign.units[k].origin # "paper" => k \in Held(s2) \cup u2 \cup f.aborting \cup ds

LEMMA TrimSound ==
  ASSUME NEW m, NEW l, NEW s \in [Ks -> Trades], NEW u \in SUBSET Ks, NEW b \in SUBSET Held(s),
         Sound(m, l, s, u, b), Occupied(m),
         NEW n, NEW ds, Trims(m, n, ds),
         NEW f \in Adapters, NEW s2 \in [Ks -> Trades], NEW u2, NEW b2,
         Departs(m, l, s, u, b, ds, f, s2, u2, b2)
  PROVE  Sound(n, f, s2, u2, b2) /\ Shrinks(m, l, n, f)
<1>0. /\ 0 \notin ds /\ f.closing = l.closing /\ f.reversal = l.reversal
      /\ f.aborting \subseteq l.aborting /\ l.aborting \cap Held(s2) \subseteq f.aborting
      /\ Held(s2) \subseteq Held(s) \ ds /\ \A k \in Held(s2) : s2[k] = s[k]
      /\ u2 \subseteq u /\ b2 \subseteq b \cap Held(s2)
      /\ IsOf(m, "live") =>
           /\ 0 \in Held(s2) \cup u2 /\ u2 \cap ds = {}
           /\ \A k \in DOMAIN m.campaign.units \ {0} :
                m.campaign.units[k].origin # "paper" => k \in Held(s2) \cup u2 \cup f.aborting \cup ds
  BY DEF Departs
<1>1. Rested(n)
  <2>1. DOMAIN n.campaign.units \subseteq DOMAIN m.campaign.units
    BY <1>0 DEF Trims
  <2>2. n \in Machines /\ n.exit = "none" /\ n.campaign.id <= n.day /\ 0 \in DOMAIN n.campaign.units
        /\ \A k \in DOMAIN n.campaign.units : k < n.campaign.lifetime
    BY <1>0 DEF Sound, Rested, Trims
  <2>3. n.campaign.origin # "live" =>
          \A k \in DOMAIN n.campaign.units : n.campaign.units[k].origin = n.campaign.origin
    BY <1>0 DEF Sound, Rested, Trims
  <2>4. n.campaign.origin = "live" =>
          /\ n.campaign.units[0].origin = "live"
          /\ \A k \in DOMAIN n.campaign.units : n.campaign.units[k].origin # "historical"
    BY <1>0 DEF Sound, Rested, Trims
  <2>5. n.campaign.origin = "paper" => DOMAIN n.campaign.units = {0}
    BY <1>0 DEF Sound, Rested, Trims
  <2> QED
    BY <1>0, <2>2, <2>3, <2>4, <2>5 DEF Rested
<1>2. \A o \in Origins : IsOf(n, o) <=> IsOf(m, o)
  BY <1>0 DEF Trims, IsOf
<1>3. Waits(n, f)
  BY <1>0 DEF Sound, Waits, IsOf, Trims
<1>4. \A k \in b2 : Leaving(n, f, s2, k)
  <2> SUFFICES ASSUME NEW k \in b2 PROVE Leaving(n, f, s2, k)
    OBVIOUS
  <2>1. Leaving(m, l, s, k) /\ k \in Held(s) /\ k \in Held(s2) /\ k \notin ds /\ s2[k] = s[k]
    BY <1>0 DEF Sound
  <2>2. CASE IsOf(m, "live") /\ k \in l.aborting
    BY <1>0, <2>1, <2>2 DEF Leaving, IsOf, Trims
  <2>3. CASE IsOf(m, "live") /\ k \notin l.aborting
    <3>1. m.campaign.units[k].origin = "paper" /\ s[k].far
      BY <1>0, <2>1, <2>3 DEF Leaving
    <3>2. k \in DOMAIN m.campaign.units
      BY <1>0, <2>1, <2>3 DEF Sound
    <3> QED
      BY <1>0, <2>1, <2>3, <3>1, <3>2 DEF Leaving, IsOf, Trims
  <2> QED
    BY <1>0, <2>1, <2>2, <2>3 DEF Leaving
<1>5. f.closing = {} /\ \A k \in Held(s2) : Matches(s2[k], n.campaign)
  BY <1>0 DEF Sound, Trims, Matches
<1>6. IsOf(n, "live") =>
        /\ 0 \in Held(s2) \cup u2 /\ Held(s2) \cup u2 \subseteq DOMAIN n.campaign.units
        /\ \A k \in DOMAIN n.campaign.units \ {0} :
             IF n.campaign.units[k].origin = "paper" THEN k + 1 = n.campaign.lifetime
             ELSE k \in Held(s2) \cup u2 \cup f.aborting
  <2> SUFFICES ASSUME IsOf(m, "live")
               PROVE  /\ Held(s2) \cup u2 \subseteq DOMAIN n.campaign.units
                      /\ \A k \in DOMAIN n.campaign.units \ {0} :
                           IF n.campaign.units[k].origin = "paper" THEN k + 1 = n.campaign.lifetime
                           ELSE k \in Held(s2) \cup u2 \cup f.aborting
    BY <1>0, <1>2 DEF Origins
  <2>1. /\ Held(s) \cup u \subseteq DOMAIN m.campaign.units
        /\ \A k \in DOMAIN m.campaign.units \ {0} :
             m.campaign.units[k].origin = "paper" => k + 1 = m.campaign.lifetime
    BY <1>0 DEF Sound
  <2>2. Held(s2) \cup u2 \subseteq DOMAIN n.campaign.units
    BY <1>0, <2>1 DEF Trims
  <2>3. ASSUME NEW k \in DOMAIN n.campaign.units \ {0}
        PROVE  IF n.campaign.units[k].origin = "paper" THEN k + 1 = n.campaign.lifetime
               ELSE k \in Held(s2) \cup u2 \cup f.aborting
    <3>1. k \in DOMAIN m.campaign.units \ {0} /\ n.campaign.units[k] = m.campaign.units[k]
          /\ n.campaign.lifetime = m.campaign.lifetime /\ k \notin ds
      BY <1>0 DEF Trims
    <3> QED
      BY <1>0, <2>1, <3>1
  <2> QED
    BY <2>2, <2>3
<1>7. Sound(n, f, s2, u2, b2)
  <2>1. /\ 0 \notin f.aborting
        /\ IsOf(n, "historical") => Held(s2) = {} /\ u2 = {} /\ f.aborting = {}
        /\ IsOf(n, "paper") => Held(s2) \cup u2 \subseteq {0}
    BY <1>0, <1>2 DEF Sound, Origins
  <2>2. Occupied(n)
    BY <1>0 DEF Trims
  <2> QED
    BY <1>0, <1>1, <1>3, <1>4, <1>5, <1>6, <2>1, <2>2 DEF Sound
<1>8. Shrinks(m, l, n, f)
  BY <1>0 DEF Shrinks, Trims
<1> QED
  BY <1>7, <1>8

LEMMA SettledSound ==
  ASSUME NEW m, NEW l, NEW s \in [Ks -> Trades], NEW u \in SUBSET Ks, NEW b \in SUBSET Held(s),
         Sound(m, l, s, u, b), u \cap Held(s) = {}, Occupied(m) => u \cap l.aborting = {},
         NEW v, v = Settled(m, l, Held(s))
  PROVE  /\ Sound(v.model, v.live, s, u, b) /\ Shrinks(m, l, v.model, v.live)
         /\ v.live.closing = l.closing \cap Held(s) /\ v.live.aborting = l.aborting \cap Held(s)
         /\ v.live.urgent = l.urgent
         /\ ~Occupied(m) => v.model = m
         /\ Occupied(m) => Trims(m, v.model, Flat(m, l, Held(s)))
<1> DEFINE n == v.model
           f == v.live
           ds == Flat(m, l, Held(s))
<1>1. m \in Machines /\ l \in Adapters /\ Held(s) \in SUBSET Ks
  BY TradeFacts DEF Sound, Rested
<1>2. /\ n \in Machines /\ f \in Adapters
      /\ f.urgent = l.urgent /\ f.closing = l.closing \cap Held(s)
      /\ f.aborting = l.aborting \cap Held(s) /\ f.reversal = l.reversal
      /\ ~Occupied(m) => n = m
      /\ Occupied(m) => Trims(m, n, ds)
  <2> DEFINE p == Held(s)
  <2>1. p \in SUBSET Ks /\ v = Settled(m, l, p)
    BY <1>1
  <2> HIDE DEF p
  <2>2. /\ v.model \in Machines /\ v.live \in Adapters
        /\ v.live.urgent = l.urgent /\ v.live.closing = l.closing \cap p
        /\ v.live.aborting = l.aborting \cap p /\ v.live.reversal = l.reversal
        /\ ~Occupied(m) => v.model = m
        /\ Occupied(m) => Trims(m, v.model, Flat(m, l, p))
    BY <1>1, <2>1, SettledFacts
  <2> QED
    BY <2>2 DEF p, ds
<1> HIDE DEF n, f, ds
<1>3. CASE ~Occupied(m)
  <2>1. n = m
    BY <1>2, <1>3
  <2>2. Sound(n, f, s, u, b)
    BY <1>1, <1>2, <1>3, <2>1 DEF Sound, Waits, IsOf, Leaving
  <2>3. Shrinks(m, l, n, f)
    BY <1>2, <1>3, <2>1 DEF Shrinks
  <2> QED
    BY <1>2, <1>3, <2>1, <2>2, <2>3 DEF n, f
<1>4. CASE Occupied(m)
  <2>1. Trims(m, n, ds)
    BY <1>2, <1>4
  <2>2. f.closing = l.closing /\ Held(s) \cap ds = {} /\ 0 \notin ds
        /\ l.aborting \cap Held(s) \subseteq f.aborting
    BY <1>2, <1>4 DEF Sound, ds, Flat
  <2>3. IsOf(m, "live") =>
          /\ 0 \in Held(s) \cup u /\ u \cap ds = {}
          /\ \A k \in DOMAIN m.campaign.units \ {0} :
               m.campaign.units[k].origin # "paper" => k \in Held(s) \cup u \cup f.aborting \cup ds
    <3> SUFFICES ASSUME IsOf(m, "live"), NEW k \in DOMAIN m.campaign.units \ {0},
                        m.campaign.units[k].origin # "paper"
                 PROVE  0 \in Held(s) \cup u /\ u \cap ds = {}
                        /\ k \in Held(s) \cup u \cup f.aborting \cup ds
      BY <1>4 DEF Sound, ds, Flat
    <3> QED
      BY <1>2, <1>4 DEF Sound, ds, Flat
  <2>4. Departs(m, l, s, u, b, ds, f, s, u, b)
    BY <1>2, <2>2, <2>3 DEF Departs
  <2>5. Sound(n, f, s, u, b) /\ Shrinks(m, l, n, f)
    BY <1>1, <1>2, <1>4, <2>1, <2>4, TrimSound
  <2> QED
    BY <1>2, <1>4, <2>1, <2>5 DEF n, f, ds
<1> QED
  BY <1>3, <1>4

\* Telling every close that the strategy can be told of leaves a sound ladder.
LEMMA ToldSound ==
  ASSUME NEW m, NEW l, NEW s \in [Ks -> Trades], NEW u \in SUBSET Ks, NEW b \in SUBSET Held(s),
         Sound(m, l, s, u, b), u \cap Held(s) = {}, u \subseteq Answerable(m, l),
         NEW v, v = Told(m, l, u, Held(s))
  PROVE  /\ v.ok /\ Sound(v.model, v.live, s, {}, b) /\ Shrinks(m, l, v.model, v.live)
         /\ ~Occupied(m) => /\ v.model = m /\ v.live.closing = l.closing \ u
                            /\ v.live.aborting = l.aborting /\ v.live.urgent = l.urgent
         /\ Occupied(m) /\ 0 \notin u =>
              /\ Trims(m, v.model, u) /\ v.live.closing = l.closing
              /\ v.live.aborting = l.aborting \ u /\ v.live.urgent = l.urgent
         /\ Occupied(m) /\ 0 \in u =>
              /\ ~Occupied(v.model) /\ v.live.closing = Held(s)
              /\ v.live.aborting = l.aborting \ (u \ {0})
<1> DEFINE p == Held(s)
<1>1. m \in Machines /\ l \in Adapters /\ p \in SUBSET Ks
  BY TradeFacts DEF Sound, Rested
<1>2. Occupied(m) => 0 \in DOMAIN m.campaign.units
  BY DEF Sound, Rested
<1> HIDE DEF p
<1>3. /\ v.ok
      /\ ~(Occupied(m) /\ 0 \in u) => v = Quiet(HeardModel(m, u), HeardLive(m, l, u))
      /\ Occupied(m) /\ 0 \in u =>
           v = Quiet(Vacated(HeardModel(m, u \ {0})), Survivors(HeardLive(m, l, u \ {0}), p))
  <2>1. v = Told(m, l, u, p)
    BY DEF p
  <2>2. /\ v.ok <=> u \subseteq Answerable(m, l)
        /\ v.ok /\ ~(Occupied(m) /\ 0 \in u) => v = Quiet(HeardModel(m, u), HeardLive(m, l, u))
        /\ v.ok /\ Occupied(m) /\ 0 \in u => v = HeardParent(m, l, u, p)
    BY <1>1, <1>2, <2>1, ToldFacts
  <2> QED
    BY <2>2 DEF HeardParent
<1>4. CASE ~Occupied(m)
  <2>1. v = Quiet(m, [l EXCEPT !.closing = @ \ u])
    BY <1>3, <1>4 DEF HeardModel, HeardLive
  <2>2. v.model = m /\ v.live = [l EXCEPT !.closing = @ \ u]
    BY <2>1, QuietFields
  <2>3. /\ v.live \in Adapters /\ v.live.closing = l.closing \ u /\ v.live.aborting = l.aborting
        /\ v.live.urgent = l.urgent /\ v.live.reversal = l.reversal
    BY <1>1, <2>2 DEF Adapters
  <2>4. Held(s) \subseteq v.live.closing
    BY <1>4, <2>3 DEF Sound
  <2>5. Sound(v.model, v.live, s, {}, b)
    BY <1>1, <1>4, <2>2, <2>3, <2>4 DEF Sound, Waits, IsOf, Leaving
  <2>6. Shrinks(m, l, v.model, v.live)
    BY <1>4, <2>2, <2>3 DEF Shrinks
  <2> QED
    BY <1>3, <1>4, <2>2, <2>3, <2>5, <2>6
<1>5. CASE Occupied(m) /\ 0 \notin u
  <2> DEFINE n == [m EXCEPT !.campaign = WithoutUnits(@, u)]
             f == [l EXCEPT !.aborting = @ \ u]
  <2>1. v.model = n /\ v.live = f
    <3>1. v = Quiet(n, f)
      BY <1>3, <1>5 DEF HeardModel, HeardLive
    <3> HIDE DEF n, f
    <3> QED
      BY <3>1, QuietFields
  <2>2. /\ f \in Adapters /\ f.closing = l.closing /\ f.aborting = l.aborting \ u
        /\ f.urgent = l.urgent /\ f.reversal = l.reversal
    BY <1>1 DEF Adapters
  <2>3. Trims(m, n, u)
    BY <1>1, <1>5, TrimsFacts
  <2> HIDE DEF n, f
  <2>4. IsOf(m, "live") =>
          /\ 0 \in Held(s) \cup {}
          /\ \A k \in DOMAIN m.campaign.units \ {0} :
               m.campaign.units[k].origin # "paper" => k \in Held(s) \cup {} \cup f.aborting \cup u
    BY <1>5, <2>2 DEF Sound
  <2>5. /\ l.aborting \cap Held(s) \subseteq f.aborting /\ f.aborting \subseteq l.aborting
        /\ {} \in SUBSET u /\ Held(s) \cap u = {} /\ {} \cap u = {} /\ b \in SUBSET (b \cap Held(s))
    BY <2>2
  <2>6. Sound(n, f, s, {}, b) /\ Shrinks(m, l, n, f)
    <3>1. Departs(m, l, s, u, b, u, f, s, {}, b)
      BY <1>5, <2>2, <2>4, <2>5 DEF Departs
    <3> QED
      BY <1>1, <1>5, <2>2, <2>3, <3>1, TrimSound
  <2> QED
    BY <1>3, <1>5, <2>1, <2>2, <2>3, <2>6
<1>6. CASE Occupied(m) /\ 0 \in u
  <2> DEFINE cs == u \ {0}
             n == HeardModel(m, cs)
             f == HeardLive(m, l, cs)
  <2>1. v.model = Vacated(n) /\ v.live = Survivors(f, p)
    BY <1>3, <1>6, QuietFields
  <2>2. n = [m EXCEPT !.campaign = WithoutUnits(@, cs)] /\ f = [l EXCEPT !.aborting = l.aborting \ cs]
    BY <1>6 DEF HeardModel, HeardLive
  <2> HIDE DEF n, f, cs
  <2>3. Trims(m, n, cs)
    BY <1>1, <1>6, <2>2, TrimsFacts
  <2>4. /\ v.model \in Machines /\ ~Occupied(v.model) /\ v.model.exit = "none"
        /\ v.model.day = m.day
    BY <2>1, <2>3, VacatedFacts DEF Trims
  <2>5. /\ f \in Adapters /\ f.closing = l.closing /\ f.aborting = l.aborting \ cs
        /\ f.reversal = l.reversal
    BY <1>1, <2>2 DEF Adapters
  <2>6. p \ {0} = p /\ l.closing = {}
    BY <1>6 DEF p, Sound
  <2>7. /\ v.live \in Adapters /\ v.live.closing = p /\ v.live.aborting = l.aborting \ cs
        /\ v.live.reversal = l.reversal
    <3>1. f.closing \cup p = p /\ f.closing \cup p \in SUBSET Ks /\ f.urgent \cup p \in SUBSET Ks
      BY <1>1, <2>5, <2>6, AdapterFacts
    <3>2. v.live = [f EXCEPT !.closing = p, !.urgent = f.urgent \cup p]
      BY <2>1, <2>6, <3>1 DEF Survivors
    <3> QED
      BY <1>1, <2>5, <3>1, <3>2 DEF Adapters
  <2>8. 0 \notin v.live.aborting /\
        (v.live.reversal # NoReversal =>
          v.live.reversal.id <= v.model.day /\ v.live.reversal.at = Minute(v.live.reversal.id, 0))
    BY <2>4, <2>7 DEF Sound, Waits
  <2>9. Sound(v.model, v.live, s, {}, b)
    BY <2>4, <2>7, <2>8, IdleSound DEF p
  <2>10. Shrinks(m, l, v.model, v.live)
    BY <2>4, <2>7 DEF Shrinks
  <2> QED
    BY <1>3, <1>6, <2>4, <2>7, <2>9, <2>10 DEF p, cs
<1> QED
  BY <1>4, <1>5, <1>6

LEMMA ConfirmFacts ==
  ASSUME NEW m \in Machines, NEW k \in Ks, HasUnit(m, k), NEW far \in BOOLEAN,
         NEW n, n = ConfirmOwnedFill(m, k, far)
  PROVE  /\ n \in Machines /\ Occupied(n) /\ n.exit = m.exit /\ n.day = m.day
         /\ n.verified = m.verified /\ n.funded = m.funded
         /\ n.campaign.id = m.campaign.id /\ n.campaign.side = m.campaign.side
         /\ n.campaign.lifetime = m.campaign.lifetime
         /\ n.campaign.origin = IF k = 0 THEN "live" ELSE m.campaign.origin
         /\ DOMAIN n.campaign.units = DOMAIN m.campaign.units
         /\ n.campaign.units[k].origin = "live" /\ n.campaign.units[k].far = far
         /\ \A j \in DOMAIN m.campaign.units : j # k => n.campaign.units[j] = m.campaign.units[j]
<1> DEFINE c == WithUnit(m.campaign, k, Unit("live", far))
           d == IF k = 0 THEN [c EXCEPT !.origin = "live"] ELSE c
<1>1. m.campaign \in Campaigns /\ k \in DOMAIN m.campaign.units
  BY MachineFacts DEF HasUnit
<1>2. /\ Unit("live", far) \in Units /\ Unit("live", far).origin = "live" /\ Unit("live", far).far = far
  BY DEF Unit, Units, Origins
<1>3. /\ c \in Campaigns
      /\ c.id = m.campaign.id /\ c.side = m.campaign.side /\ c.age = m.campaign.age
      /\ c.origin = m.campaign.origin /\ c.lifetime = m.campaign.lifetime
      /\ DOMAIN c.units = DOMAIN m.campaign.units
      /\ c.units[k] = Unit("live", far)
      /\ \A j \in DOMAIN m.campaign.units : j # k => c.units[j] = m.campaign.units[j]
  <2> DEFINE u == Unit("live", far)
  <2>1. u \in Units
    BY <1>2
  <2>2. DOMAIN m.campaign.units \cup {k} = DOMAIN m.campaign.units
    BY <1>1
  <2> HIDE DEF u
  <2>3. /\ WithUnit(m.campaign, k, u) \in Campaigns
        /\ WithUnit(m.campaign, k, u).id = m.campaign.id
        /\ WithUnit(m.campaign, k, u).side = m.campaign.side
        /\ WithUnit(m.campaign, k, u).age = m.campaign.age
        /\ WithUnit(m.campaign, k, u).origin = m.campaign.origin
        /\ WithUnit(m.campaign, k, u).lifetime = m.campaign.lifetime
        /\ DOMAIN WithUnit(m.campaign, k, u).units = DOMAIN m.campaign.units \cup {k}
        /\ WithUnit(m.campaign, k, u).units[k] = u
        /\ \A j \in DOMAIN m.campaign.units :
             j # k => WithUnit(m.campaign, k, u).units[j] = m.campaign.units[j]
    BY <1>1, <2>1, WithFacts
  <2> QED
    BY <2>2, <2>3 DEF u
<1> HIDE DEF c
<1>4. /\ d \in Campaigns /\ d.id = c.id /\ d.side = c.side /\ d.lifetime = c.lifetime
      /\ d.origin = (IF k = 0 THEN "live" ELSE c.origin) /\ d.units = c.units
  BY <1>3 DEF Campaigns, Origins
<1>5. n = [m EXCEPT !.campaign = d]
  BY DEF ConfirmOwnedFill, c
<1> HIDE DEF d
<1>6. /\ n \in Machines /\ n.campaign = d /\ n.exit = m.exit /\ n.day = m.day
      /\ n.verified = m.verified /\ n.funded = m.funded
  BY <1>4, <1>5, SetCampaign
<1>7. Occupied(n)
  BY <1>4, <1>6, MachineFacts
<1> QED
  BY <1>2, <1>3, <1>4, <1>6, <1>7

LEMMA DiscardFacts ==
  ASSUME NEW m \in Machines, NEW k \in Ks, IsLatestUnfilled(m, k),
         NEW n, n = DiscardUnfilledAddon(m, k)
  PROVE  /\ n \in Machines /\ Occupied(n) /\ n.exit = m.exit /\ n.day = m.day
         /\ n.verified = m.verified /\ n.funded = m.funded
         /\ n.campaign.id = m.campaign.id /\ n.campaign.side = m.campaign.side
         /\ n.campaign.lifetime = k /\ m.campaign.lifetime = k + 1
         /\ n.campaign.origin = m.campaign.origin
         /\ DOMAIN n.campaign.units = DOMAIN m.campaign.units \ {k}
         /\ \A j \in DOMAIN n.campaign.units : n.campaign.units[j] = m.campaign.units[j]
<1> DEFINE c == WithoutUnits(m.campaign, {k})
           d == [c EXCEPT !.lifetime = c.lifetime - 1]
<1>1. m.campaign \in Campaigns /\ k > 0 /\ m.campaign.lifetime = k + 1
  BY MachineFacts DEF IsLatestUnfilled, HasUnit
<1>2. /\ c \in Campaigns
      /\ c.id = m.campaign.id /\ c.side = m.campaign.side /\ c.age = m.campaign.age
      /\ c.origin = m.campaign.origin /\ c.lifetime = m.campaign.lifetime
      /\ DOMAIN c.units = DOMAIN m.campaign.units \ {k}
      /\ \A j \in DOMAIN c.units : c.units[j] = m.campaign.units[j]
  <2> DEFINE ks == {k}
  <2> HIDE DEF ks
  <2>1. /\ WithoutUnits(m.campaign, ks) \in Campaigns
        /\ WithoutUnits(m.campaign, ks).id = m.campaign.id
        /\ WithoutUnits(m.campaign, ks).side = m.campaign.side
        /\ WithoutUnits(m.campaign, ks).age = m.campaign.age
        /\ WithoutUnits(m.campaign, ks).origin = m.campaign.origin
        /\ WithoutUnits(m.campaign, ks).lifetime = m.campaign.lifetime
        /\ DOMAIN WithoutUnits(m.campaign, ks).units = DOMAIN m.campaign.units \ ks
        /\ \A j \in DOMAIN WithoutUnits(m.campaign, ks).units :
             WithoutUnits(m.campaign, ks).units[j] = m.campaign.units[j]
    BY <1>1, WithoutFacts
  <2> QED
    BY <2>1 DEF ks
<1> HIDE DEF c
<1>3. c.lifetime - 1 = k /\ k \in 1 .. MaxUnits
  BY <1>1, <1>2, MaxUnitsType DEF Ks
<1>4. /\ d \in Campaigns /\ d.id = c.id /\ d.side = c.side /\ d.lifetime = k
      /\ d.origin = c.origin /\ d.units = c.units
  BY <1>2, <1>3 DEF Campaigns
<1>5. n = [m EXCEPT !.campaign = d]
  BY DEF DiscardUnfilledAddon, c
<1> HIDE DEF d
<1>6. /\ n \in Machines /\ n.campaign = d /\ n.exit = m.exit /\ n.day = m.day
      /\ n.verified = m.verified /\ n.funded = m.funded
  BY <1>4, <1>5, SetCampaign
<1>7. Occupied(n)
  BY <1>4, <1>6, MachineFacts
<1> QED
  BY <1>1, <1>2, <1>4, <1>6, <1>7

LEMMA LatestFacts ==
  ASSUME NEW m, Rested(m), NEW k \in Ks, HasUnit(m, k), k # 0,
         m.campaign.units[k].origin = "paper", k + 1 = m.campaign.lifetime
  PROVE  IsLatestUnfilled(m, k)
<1>1. m.campaign \in Campaigns /\ k \in DOMAIN m.campaign.units
  BY MachineFacts DEF HasUnit, Rested
<1>2. /\ DOMAIN m.campaign.units \in SUBSET (0 .. MaxUnits)
      /\ \A j \in DOMAIN m.campaign.units : j \in Nat /\ j <= k
  BY <1>1, CampaignFacts, MaxUnitsType DEF Rested, Ks, HasUnit
<1>3. /\ Max(DOMAIN m.campaign.units) \in DOMAIN m.campaign.units
      /\ \A j \in DOMAIN m.campaign.units : j <= Max(DOMAIN m.campaign.units)
  <2> DEFINE T == DOMAIN m.campaign.units
  <2>1. T \in SUBSET (0 .. MaxUnits) /\ T # {} /\ MaxUnits \in Nat
    BY <1>1, <1>2, MaxUnitsType
  <2> HIDE DEF T
  <2>2. Max(T) \in T /\ \A j \in T : j <= Max(T)
    BY <2>1, MaxOf
  <2> QED
    BY <2>2 DEF T
<1>4. Max(DOMAIN m.campaign.units) = k
  BY <1>1, <1>2, <1>3
<1>5. k > 0
  BY MaxUnitsType DEF Ks
<1> QED
  BY <1>4, <1>5 DEF IsLatestUnfilled, LatestUnit

LEMMA RestedRestores ==
  ASSUME NEW m, Rested(m)
  PROVE  Restorable(m)
<1> SUFFICES ASSUME Occupied(m)
             PROVE  LET ks == DOMAIN m.campaign.units
                    IN  0 \in ks /\ Max(ks) < m.campaign.lifetime /\ m.campaign.lifetime <= MaxUnits
  BY DEF Restorable
<1>1. m.campaign \in Campaigns
  BY MachineFacts DEF Rested
<1> DEFINE T == DOMAIN m.campaign.units
<1>2. T \in SUBSET (0 .. MaxUnits) /\ 0 \in T /\ T # {} /\ MaxUnits \in Nat
      /\ \A j \in T : j < m.campaign.lifetime
  BY <1>1, CampaignFacts, MaxUnitsType DEF Rested, Ks
<1>3. m.campaign.lifetime \in 1 .. MaxUnits
  BY <1>1, CampaignFacts
<1> HIDE DEF T
<1>4. Max(T) \in T
  BY <1>2, MaxOf
<1> QED
  BY <1>2, <1>3, <1>4, MaxUnitsType DEF T

\* _mark_out_of_range_fills
LEMMA MarkedFacts ==
  ASSUME NEW m \in Machines, NEW l \in Adapters, NEW f, f = Marked(m, l)
  PROVE  /\ f \in Adapters /\ f.urgent = l.urgent /\ f.closing = l.closing /\ f.reversal = l.reversal
         /\ l.aborting \subseteq f.aborting
         /\ f.aborting \subseteq l.aborting \cup OutOfRange(m)
         /\ \A k \in Ks : k \in f.aborting <=> k \in l.aborting \/ k \in OutOfRange(m)
<1>1. OutOfRange(m) \in SUBSET Ks
  <2>1. Occupied(m) => DOMAIN m.campaign.units \subseteq Ks
    BY MachineFacts, CampaignFacts
  <2> QED
    BY <2>1 DEF OutOfRange, IsOf
<1>2. l.aborting \cup OutOfRange(m) \in SUBSET Ks
  BY <1>1, AdapterFacts
<1> HIDE DEF OutOfRange
<1>3. f = [l EXCEPT !.aborting = l.aborting \cup OutOfRange(m)]
  BY DEF Marked
<1> QED
  BY <1>2, <1>3 DEF Adapters

\* A fold in which only the indices of E, at most one, change anything.
OnceOnly(F, n, E, A, R) ==
  /\ \A i, j \in E : i = j
  /\ \A i \in 1 .. n : IF i \in E THEN F[A, i] = R ELSE F[A, i] = A /\ F[R, i] = R

LEMMA OnceFolded ==
  ASSUME NEW n \in Nat, NEW A, NEW R, NEW E, NEW F, OnceOnly(F, n, E, A, R)
  PROVE  /\ \E h : Folded(h, n, A, F) /\ \A T \in SUBSET (1 .. n) : h[T] \in {A, R}
         /\ \A h : Folded(h, n, A, F) => h[1 .. n] = IF E \cap (1 .. n) = {} THEN A ELSE R
<1> DEFINE H(T) == IF E \cap T = {} THEN A ELSE R
<1>1. ASSUME NEW T \in SUBSET (1 .. n), T # {}
      PROVE  F[H(T \ {Max(T)}), Max(T)] = H(T)
  <2>1. Max(T) \in 1 .. n /\ Max(T) \in T
    BY <1>1, SmallSets
  <2> DEFINE x == Max(T)
  <2> HIDE DEF x
  <2>2. CASE x \in E
    <3>1. E \cap (T \ {x}) = {} /\ E \cap T # {}
      BY <2>1, <2>2 DEF x, OnceOnly
    <3>2. F[A, x] = R
      BY <2>1, <2>2 DEF x, OnceOnly
    <3> QED
      BY <3>1, <3>2 DEF x
  <2>3. CASE x \notin E
    <3>1. E \cap (T \ {x}) = E \cap T
      BY <2>3
    <3>2. F[A, x] = A /\ F[R, x] = R
      BY <2>1, <2>3 DEF x, OnceOnly
    <3> QED
      BY <3>1, <3>2 DEF x
  <2> QED
    BY <2>2, <2>3
<1>2. \E h : Folded(h, n, A, F) /\ \A T \in SUBSET (1 .. n) : h[T] \in {A, R}
  <2> DEFINE h == [T \in SUBSET (1 .. n) |-> H(T)]
  <2>1. ASSUME NEW T \in SUBSET (1 .. n)
        PROVE  H(T) = IF T = {} THEN A ELSE F[h[T \ {Max(T)}], Max(T)]
    <3>1. CASE T = {}
      BY <3>1
    <3>2. CASE T # {}
      <4>1. T \ {Max(T)} \in SUBSET (1 .. n)
        OBVIOUS
      <4>2. h[T \ {Max(T)}] = H(T \ {Max(T)})
        BY <4>1
      <4> HIDE DEF h
      <4> QED
        BY <1>1, <3>2, <4>2
    <3> QED
      BY <3>1, <3>2
  <2>2. h = [T \in SUBSET (1 .. n) |-> IF T = {} THEN A ELSE F[h[T \ {Max(T)}], Max(T)]]
    <3> DEFINE e == [T \in SUBSET (1 .. n) |-> IF T = {} THEN A ELSE F[h[T \ {Max(T)}], Max(T)]]
    <3> HIDE DEF H
    <3>1. DOMAIN h = SUBSET (1 .. n) /\ DOMAIN e = SUBSET (1 .. n)
      OBVIOUS
    <3>2. \A T \in SUBSET (1 .. n) : h[T] = e[T]
      BY <2>1
    <3> QED
      BY <2>1
  <2>3. \A T \in SUBSET (1 .. n) : h[T] \in {A, R}
    OBVIOUS
  <2> HIDE DEF h
  <2>4. Folded(h, n, A, F)
    BY <2>2 DEF Folded
  <2> QED
    BY <2>3, <2>4
<1>3. ASSUME NEW h, Folded(h, n, A, F)
      PROVE  h[1 .. n] = H(1 .. n)
  <2> DEFINE G == {i \in Nat : i <= n => h[1 .. i] = H(1 .. i)}
  <2>1. 0 \in G
    <3>1. 1 .. 0 = {} /\ 1 .. 0 \in SUBSET (1 .. n) /\ E \cap (1 .. 0) = {}
      OBVIOUS
    <3>2. h[1 .. 0] = A
      BY <1>3, <3>1 DEF Folded
    <3> QED
      BY <3>1, <3>2
  <2>2. ASSUME NEW i \in 1 .. n, i - 1 \in G PROVE i \in G
    <3>2. 1 .. i \in SUBSET (1 .. n) /\ i \in Nat /\ i # 0 /\ i <= n /\ i - 1 \in Nat /\ i - 1 <= n
      OBVIOUS
    <3>1. Max(1 .. i) = i /\ (1 .. i) \ {i} = 1 .. (i - 1) /\ 1 .. i # {}
      BY <3>2, PrefixMax
    <3>3. h[1 .. i] = F[h[(1 .. i) \ {Max(1 .. i)}], Max(1 .. i)]
      BY <1>3, <3>1, <3>2 DEF Folded
    <3>4. h[1 .. (i - 1)] = H(1 .. (i - 1))
      BY <2>2, <3>2
    <3>5. F[H((1 .. i) \ {Max(1 .. i)}), Max(1 .. i)] = H(1 .. i)
      BY <1>1, <3>1, <3>2
    <3> HIDE DEF H
    <3> QED
      BY <3>1, <3>2, <3>3, <3>4, <3>5
  <2> HIDE DEF G
  <2>3. n \in G
    BY <2>1, <2>2, Stepwise
  <2> QED
    BY <2>3 DEF G
<1> QED
  BY <1>2, <1>3

-----------------------------------------------------------------------------
(* Add-ons at startup: at most the last unit is undecided.                 *)

AddonsOrder(m) == Reverse(InOrder(DOMAIN m.campaign.units \ {0}))
AddonStep(v, k, s) ==
  IF ~v.ok \/ v.model.campaign.units[k].origin # "paper" THEN v
  ELSE IF s[k] # NoTrade
       THEN IF s[k].side = v.model.campaign.side
            THEN Quiet(ConfirmOwnedFill(v.model, k, s[k].far), v.live)
            ELSE Raises(v.model, v.live)
       ELSE Undone(v.model, v.live, k, v.model.campaign.id)
IsResumed(g, m, l, s) ==
  g = [T \in SUBSET DOMAIN AddonsOrder(m) |->
         IF T = {} THEN Quiet(m, l)
         ELSE AddonStep(g[T \ {Max(T)}], AddonsOrder(m)[Max(T)], s)]

SomeResumed(m, l, s) == CHOOSE g : IsResumed(g, m, l, s)

LEMMA AddonsUnfold ==
  ASSUME NEW m, NEW l, NEW s
  PROVE  \E w : /\ w = SomeResumed(m, l, s)[DOMAIN AddonsOrder(m)]
              /\ AddonsResumed(m, l, s) = [w EXCEPT !.live = Marked(w.model, w.live)]
BY DEF AddonsResumed, FoldLeft, MapThenFoldSet, IsResumed, SomeResumed, AddonStep, AddonsOrder

LEMMA AddonsOrderFacts ==
  ASSUME NEW m \in Machines, Occupied(m)
  PROVE  LET q == AddonsOrder(m)
             n == Len(q)
             ks == DOMAIN m.campaign.units \ {0}
         IN  /\ n \in Nat /\ DOMAIN q = 1 .. n
             /\ \A i \in 1 .. n : q[i] \in ks
             /\ \A i, j \in 1 .. n : q[i] = q[j] => i = j
             /\ \A k \in ks : \E i \in 1 .. n : q[i] = k
<1> DEFINE ks == DOMAIN m.campaign.units \ {0}
           p == InOrder(ks)
           n == Cardinality(ks)
           q == AddonsOrder(m)
<1>1. ks \in SUBSET Ks
  BY MachineFacts, CampaignFacts
<1> HIDE DEF ks
<1>2. /\ n \in Nat /\ p \in [1 .. n -> ks] /\ Len(p) = n
      /\ \A i, j \in 1 .. n : p[i] = p[j] => i = j
      /\ \A k \in ks : \E i \in 1 .. n : p[i] = k
  BY <1>1, InOrderFacts
<1> HIDE DEF p, n
<1>3. q = [i \in 1 .. n |-> p[(n - i) + 1]]
  BY <1>2 DEF AddonsOrder, Reverse, p, ks
<1> HIDE DEF q
<1>4. \A i \in 1 .. n : (n - i) + 1 \in 1 .. n /\ (n - ((n - i) + 1)) + 1 = i
  BY <1>2
<1>5. Len(q) = n /\ DOMAIN q = 1 .. n
  BY <1>2, <1>3
<1>6. \A i \in 1 .. n : q[i] \in ks
  BY <1>2, <1>3, <1>4
<1>7. \A i, j \in 1 .. n : q[i] = q[j] => i = j
  <2> SUFFICES ASSUME NEW i \in 1 .. n, NEW j \in 1 .. n, q[i] = q[j] PROVE i = j
    OBVIOUS
  <2>1. p[(n - i) + 1] = p[(n - j) + 1]
    BY <1>3
  <2>2. (n - i) + 1 = (n - j) + 1
    BY <1>2, <1>4, <2>1
  <2> QED
    BY <1>2, <2>2
<1>8. \A k \in ks : \E i \in 1 .. n : q[i] = k
  <2> SUFFICES ASSUME NEW k \in ks PROVE \E i \in 1 .. n : q[i] = k
    OBVIOUS
  <2>1. PICK i \in 1 .. n : p[i] = k
    BY <1>2
  <2>2. (n - i) + 1 \in 1 .. n /\ q[(n - i) + 1] = p[i]
    BY <1>3, <1>4
  <2> QED
    BY <2>1, <2>2
<1> QED
  BY <1>2, <1>5, <1>6, <1>7, <1>8 DEF q, ks

Papers(m) == {k \in DOMAIN m.campaign.units \ {0} : m.campaign.units[k].origin = "paper"}

\* What becomes of an undecided unit k: it is confirmed when its slot holds the trade.
Resumed(m, k, s) ==
  IF s[k] # NoTrade THEN ConfirmOwnedFill(m, k, s[k].far) ELSE DiscardUnfilledAddon(m, k)

LEMMA ResumedFacts ==
  ASSUME NEW m, Rested(m), IsOf(m, "live"), NEW l, NEW s \in [Ks -> Trades],
         \A k \in Papers(m) : k + 1 = m.campaign.lifetime,
         \A k \in Held(s) : Matches(s[k], m.campaign),
         NEW v, v = AddonsResumed(m, l, s)
  PROVE  /\ v.ok /\ v.live = Marked(v.model, l) /\ v = Quiet(v.model, v.live)
         /\ Papers(m) = {} => v.model = m
         /\ \A k \in Papers(m) : v.model = Resumed(m, k, s)
<1> DEFINE q == AddonsOrder(m)
           n == Len(q)
           A == Quiet(m, l)
<1>1. m \in Machines /\ Occupied(m) /\ m.campaign \in Campaigns /\ DOMAIN m.campaign.units \subseteq Ks
  BY MachineFacts, CampaignFacts DEF Rested, IsOf
<1>2. /\ n \in Nat /\ DOMAIN q = 1 .. n
      /\ \A i \in 1 .. n : q[i] \in DOMAIN m.campaign.units \ {0}
      /\ \A i, j \in 1 .. n : q[i] = q[j] => i = j
      /\ \A k \in DOMAIN m.campaign.units \ {0} : \E i \in 1 .. n : q[i] = k
  BY <1>1, AddonsOrderFacts
<1>3. \A j, k \in Papers(m) : j = k
  <2>1. m.campaign.lifetime \in Nat /\ \A k \in Papers(m) : k \in Nat
    BY <1>1, CampaignFacts, MaxUnitsType DEF Papers, Ks
  <2> QED
    BY <2>1
<1>4. PICK N : \A k \in Papers(m) : N = Resumed(m, k, s)
  <2>1. CASE Papers(m) = {}
    BY <2>1
  <2>2. ASSUME NEW k \in Papers(m)
        PROVE  \E N : \A j \in Papers(m) : N = Resumed(m, j, s)
    BY <1>3
  <2> QED
    BY <2>1, <2>2
<1> DEFINE R == Quiet(N, l)
           E == {i \in 1 .. n : q[i] \in Papers(m)}
<1>5. \A i, j \in E : i = j
  BY <1>2, <1>3
<1>6. A.ok /\ A.model = m /\ A.live = l /\ R.ok /\ R.model = N /\ R.live = l
  BY QuietFields
<1>7. ASSUME NEW k \in Papers(m)
      PROVE  /\ AddonStep(A, k, s) = R
             /\ \A j \in DOMAIN m.campaign.units \ {0} : j # k =>
                  N.campaign.units[j] = m.campaign.units[j]
  <2>1. /\ k \in Ks /\ k \in DOMAIN m.campaign.units /\ k # 0 /\ m.campaign.units[k].origin = "paper"
        /\ HasUnit(m, k) /\ k + 1 = m.campaign.lifetime /\ N = Resumed(m, k, s)
    BY <1>1, <1>4 DEF Papers, HasUnit
  <2>2. CASE s[k] # NoTrade
    <3>1. k \in Held(s) /\ s[k].far \in BOOLEAN
      BY <2>1, <2>2, TradeFacts
    <3>2. s[k].side = m.campaign.side
      BY <3>1 DEF Matches
    <3>3. N = ConfirmOwnedFill(m, k, s[k].far)
      BY <2>1, <2>2 DEF Resumed
    <3>4. \A j \in DOMAIN m.campaign.units : j # k => N.campaign.units[j] = m.campaign.units[j]
      BY <1>1, <2>1, <3>1, <3>3, ConfirmFacts
    <3>5. AddonStep(A, k, s) = Quiet(ConfirmOwnedFill(m, k, s[k].far), l)
      <4> HIDE DEF A
      <4> QED
        BY <1>6, <2>1, <2>2, <3>2 DEF AddonStep
    <3> QED
      BY <3>3, <3>4, <3>5
  <2>3. CASE s[k] = NoTrade
    <3>1. IsLatestUnfilled(m, k)
      BY <2>1, LatestFacts
    <3>2. N = DiscardUnfilledAddon(m, k)
      BY <2>1, <2>3 DEF Resumed
    <3>3. /\ DOMAIN N.campaign.units = DOMAIN m.campaign.units \ {k}
          /\ \A j \in DOMAIN N.campaign.units : N.campaign.units[j] = m.campaign.units[j]
      BY <1>1, <2>1, <3>1, <3>2, DiscardFacts
    <3>4. AddonStep(A, k, s) = Quiet(DiscardUnfilledAddon(m, k), l)
      <4> HIDE DEF A
      <4>1. AddonStep(A, k, s) = Undone(m, l, k, m.campaign.id)
        BY <1>6, <2>1, <2>3 DEF AddonStep
      <4> QED
        BY <2>1, <3>1, <4>1 DEF Undone
    <3> QED
      BY <3>2, <3>3, <3>4
  <2> QED
    BY <2>2, <2>3
<1>8. ASSUME NEW i \in 1 .. n, i \notin E
      PROVE  AddonStep(A, q[i], s) = A /\ (E # {} => AddonStep(R, q[i], s) = R)
  <2>1. q[i] \in DOMAIN m.campaign.units \ {0} /\ q[i] \notin Papers(m)
        /\ m.campaign.units[q[i]].origin # "paper"
    BY <1>2, <1>8 DEF Papers
  <2>2. AddonStep(A, q[i], s) = A
    <3> HIDE DEF A, q, n, R
    <3> QED
      BY <1>6, <2>1 DEF AddonStep
  <2>3. ASSUME E # {} PROVE AddonStep(R, q[i], s) = R
    <3>1. PICK k \in Papers(m) : TRUE
      BY <2>3
    <3>2. N.campaign.units[q[i]] = m.campaign.units[q[i]]
      BY <1>7, <2>1, <3>1
    <3> HIDE DEF A, q, n, R
    <3> QED
      BY <1>6, <2>1, <3>2 DEF AddonStep
  <2> QED
    BY <2>2, <2>3
<1> DEFINE RR == IF E = {} THEN A ELSE R
<1>9. ASSUME NEW V, A \in V, RR \in V
      PROVE  OnceOnly([x \in V \X (1 .. n) |-> AddonStep(x[1], q[x[2]], s)], n, E, A, RR)
  <2> DEFINE F == [x \in V \X (1 .. n) |-> AddonStep(x[1], q[x[2]], s)]
  <2> HIDE DEF A, R, q, n, E
  <2>1. \A x \in V, i \in 1 .. n : F[x, i] = AddonStep(x, q[i], s)
    OBVIOUS
  <2> HIDE DEF F
  <2>2. ASSUME NEW i \in 1 .. n
        PROVE  IF i \in E THEN F[A, i] = RR ELSE F[A, i] = A /\ F[RR, i] = RR
    <3>1. CASE i \in E
      <4>1. q[i] \in Papers(m) /\ RR = R
        BY <3>1 DEF E
      <4> QED
        BY <1>7, <1>9, <2>1, <3>1, <4>1
    <3>2. CASE i \notin E
      <4>1. AddonStep(A, q[i], s) = A /\ AddonStep(RR, q[i], s) = RR
        BY <1>8, <3>2
      <4> QED
        BY <1>9, <2>1, <3>2, <4>1
    <3> QED
      BY <3>1, <3>2
  <2>3. OnceOnly(F, n, E, A, RR)
    BY <1>5, <2>2 DEF OnceOnly
  <2> QED
    BY <2>3 DEF F
<1> HIDE DEF RR
<1>10. \E g : IsResumed(g, m, l, s)
  <2> DEFINE F == [x \in {A, RR} \X (1 .. n) |-> AddonStep(x[1], q[x[2]], s)]
  <2> HIDE DEF A, E, n, q
  <2>1. OnceOnly(F, n, E, A, RR)
    BY <1>9
  <2>2. \A x \in {A, RR}, i \in 1 .. n : F[x, i] = AddonStep(x, q[i], s)
    OBVIOUS
  <2> HIDE DEF F
  <2>3. PICK h : Folded(h, n, A, F) /\ \A T \in SUBSET (1 .. n) : h[T] \in {A, RR}
    BY <1>2, <2>1, OnceFolded
  <2>4. ASSUME NEW T \in SUBSET (1 .. n), T # {}
        PROVE  F[h[T \ {Max(T)}], Max(T)] = AddonStep(h[T \ {Max(T)}], q[Max(T)], s)
    <3>1. Max(T) \in 1 .. n /\ T \ {Max(T)} \in SUBSET (1 .. n)
      BY <1>2, <2>4, SmallSets
    <3> QED
      BY <2>2, <2>3, <3>1
  <2>5. h = [T \in SUBSET (1 .. n) |->
               IF T = {} THEN A ELSE AddonStep(h[T \ {Max(T)}], q[Max(T)], s)]
    BY <2>3, <2>4 DEF Folded
  <2>6. IsResumed(h, m, l, s)
    BY <1>2, <2>5 DEF IsResumed, A, q
  <2> QED
    BY <2>6
<1> DEFINE g == SomeResumed(m, l, s)
<1>11. IsResumed(g, m, l, s)
  BY <1>10 DEF SomeResumed
<1>12. PICK w : w = g[1 .. n] /\ v = [w EXCEPT !.live = Marked(w.model, w.live)]
  <2>1. PICK w : /\ w = SomeResumed(m, l, s)[DOMAIN AddonsOrder(m)]
                 /\ AddonsResumed(m, l, s) = [w EXCEPT !.live = Marked(w.model, w.live)]
    BY AddonsUnfold
  <2> QED
    BY <1>2, <2>1
<1> HIDE DEF g
<1>13. w = IF E = {} THEN A ELSE RR
  <2> DEFINE V == {g[T] : T \in SUBSET (1 .. n)} \cup {A, RR}
             F == [x \in V \X (1 .. n) |-> AddonStep(x[1], q[x[2]], s)]
  <2> HIDE DEF A, E, n, q
  <2>1. OnceOnly(F, n, E, A, RR)
    <3> HIDE DEF V
    <3>1. A \in V /\ RR \in V
      BY DEF V
    <3> QED
      BY <1>9, <3>1
  <2>2. \A T \in SUBSET (1 .. n), i \in 1 .. n : F[g[T], i] = AddonStep(g[T], q[i], s)
    OBVIOUS
  <2>3. g = [T \in SUBSET (1 .. n) |->
               IF T = {} THEN A ELSE AddonStep(g[T \ {Max(T)}], q[Max(T)], s)]
    BY <1>2, <1>11 DEF IsResumed, A, q
  <2> HIDE DEF F, V
  <2>4. ASSUME NEW T \in SUBSET (1 .. n), T # {}
        PROVE  F[g[T \ {Max(T)}], Max(T)] = AddonStep(g[T \ {Max(T)}], q[Max(T)], s)
    <3>1. Max(T) \in 1 .. n /\ T \ {Max(T)} \in SUBSET (1 .. n)
      BY <1>2, <2>4, SmallSets
    <3> QED
      BY <2>2, <3>1
  <2>5. Folded(g, n, A, F)
    BY <2>3, <2>4 DEF Folded
  <2>6. g[1 .. n] = IF E \cap (1 .. n) = {} THEN A ELSE RR
    BY <1>2, <2>1, <2>5, OnceFolded
  <2>7. E \cap (1 .. n) = E
    BY DEF E
  <2> QED
    BY <1>12, <2>6, <2>7
<1>14. w = IF E = {} THEN A ELSE R
  BY <1>13 DEF RR
<1>15. E = {} <=> Papers(m) = {}
  <2>1. Papers(m) \subseteq DOMAIN m.campaign.units \ {0}
    BY DEF Papers
  <2> QED
    BY <1>2, <2>1
<1>16. w = Quiet(w.model, l) /\ (Papers(m) = {} => w.model = m) /\ (Papers(m) # {} => w.model = N)
  <2>1. CASE E = {}
    BY <1>6, <1>14, <1>15, <2>1
  <2>2. CASE E # {}
    BY <1>6, <1>14, <1>15, <2>2
  <2> QED
    BY <2>1, <2>2
<1>17. v.model = w.model /\ v.ok /\ v.live = Marked(w.model, l) /\ v = Quiet(v.model, v.live)
  <2> DEFINE o == w.model
  <2>1. w = [model |-> o, live |-> l, out |-> <<>>, ok |-> TRUE]
    BY <1>16 DEF Quiet, Verdict
  <2>2. w.live = l
    BY <2>1
  <2> HIDE DEF o
  <2>3. v = [[model |-> o, live |-> l, out |-> <<>>, ok |-> TRUE] EXCEPT !.live = Marked(o, l)]
    BY <1>12, <2>1, <2>2 DEF o
  <2>4. v = [model |-> o, live |-> Marked(o, l), out |-> <<>>, ok |-> TRUE]
    BY <2>3
  <2> QED
    BY <2>4 DEF Quiet, Verdict, o
<1> QED
  BY <1>4, <1>16, <1>17

-----------------------------------------------------------------------------
(* An undecided unit: confirmed, discarded, or abandoned with its campaign *)

\* In a sound ladder only the last add-on of a live campaign is undecided.
LEMMA PaperFacts ==
  ASSUME NEW m, NEW l, NEW s, NEW u, NEW b, Sound(m, l, s, u, b),
         NEW k \in Ks, HasUnit(m, k), m.campaign.units[k].origin = "paper"
  PROVE  /\ k = 0 => IsOf(m, "paper") /\ DOMAIN m.campaign.units = {0} /\ b = {}
         /\ k # 0 => /\ IsOf(m, "live") /\ IsLatestUnfilled(m, k) /\ k + 1 = m.campaign.lifetime
                     /\ \A j \in DOMAIN m.campaign.units :
                          j # k => m.campaign.units[j].origin = "live"
<1>1. /\ Rested(m) /\ Occupied(m) /\ k \in DOMAIN m.campaign.units /\ m.campaign \in Campaigns
      /\ m.campaign.origin \in Origins
      /\ \A j \in DOMAIN m.campaign.units : j \in Ks /\ m.campaign.units[j].origin \in Origins
  <2>1. Rested(m) /\ Occupied(m) /\ k \in DOMAIN m.campaign.units /\ m.campaign \in Campaigns
    BY MachineFacts DEF Sound, Rested, HasUnit
  <2>2. \A j \in DOMAIN m.campaign.units : j \in Ks /\ m.campaign.units[j] \in Units
    BY <2>1, CampaignFacts
  <2> QED
    BY <2>1, <2>2, CampaignFacts DEF Units
<1>2. m.campaign.origin # "historical"
  BY <1>1 DEF Rested
<1>3. ASSUME k = 0
      PROVE  IsOf(m, "paper") /\ DOMAIN m.campaign.units = {0} /\ b = {}
  <2>1. m.campaign.origin = "paper"
    BY <1>1, <1>2, <1>3 DEF Rested, Origins
  <2> QED
    BY <1>1, <2>1 DEF Rested, IsOf, Sound, Leaving
<1>4. ASSUME k # 0
      PROVE  /\ IsOf(m, "live") /\ IsLatestUnfilled(m, k) /\ k + 1 = m.campaign.lifetime
             /\ \A j \in DOMAIN m.campaign.units :
                  j # k => m.campaign.units[j].origin = "live"
  <2>1. IsOf(m, "live")
    BY <1>1, <1>2, <1>4 DEF Rested, IsOf, Origins
  <2>2. \A j \in DOMAIN m.campaign.units \ {0} :
          m.campaign.units[j].origin = "paper" => j + 1 = m.campaign.lifetime
    BY <2>1 DEF Sound
  <2>3. k + 1 = m.campaign.lifetime
    BY <1>1, <1>4, <2>2
  <2>4. \A j \in DOMAIN m.campaign.units : j # k => m.campaign.units[j].origin = "live"
    <3> SUFFICES ASSUME NEW j \in DOMAIN m.campaign.units, j # k
                 PROVE  m.campaign.units[j].origin = "live"
      OBVIOUS
    <3>1. j \in Nat /\ k \in Nat /\ m.campaign.lifetime \in Nat
      BY <1>1, CampaignFacts, MaxUnitsType DEF Ks
    <3>2. j # 0 => m.campaign.units[j].origin # "paper"
      BY <2>2, <2>3, <3>1
    <3>3. m.campaign.units[0].origin = "live" /\ m.campaign.units[j].origin # "historical"
      BY <1>1, <2>1 DEF Rested, IsOf
    <3> QED
      BY <1>1, <3>2, <3>3 DEF Origins
  <2>5. IsLatestUnfilled(m, k)
    BY <1>1, <1>4, <2>3, LatestFacts
  <2> QED
    BY <2>1, <2>3, <2>4, <2>5
<1> QED
  BY <1>3, <1>4

\* A live campaign of the units ks, all of them funded.
AllLive(n, ks) ==
  /\ IsOf(n, "live") /\ DOMAIN n.campaign.units = ks
  /\ \A j \in ks : n.campaign.units[j].origin = "live"

\* What the fields f say after the fill of slot k has been reported.
Confirms(l, s, k, far, f) ==
  /\ far \in BOOLEAN /\ (k # 0 => far = s[k].far)
  /\ f \in Adapters /\ f.closing = l.closing /\ 0 \notin f.aborting
  /\ l.aborting \subseteq f.aborting /\ (k # 0 /\ far => k \in f.aborting)
  /\ k = 0 => f.reversal = NoReversal
  /\ k # 0 => f.reversal = l.reversal

LEMMA ConfirmSound ==
  ASSUME NEW m, NEW l, NEW s \in [Ks -> Trades], NEW b \in SUBSET Held(s), Sound(m, l, s, {}, b),
         NEW k \in Ks, HasUnit(m, k), m.campaign.units[k].origin = "paper", k \in Held(s),
         NEW far, NEW f, Confirms(l, s, k, far, f),
         NEW n, n = ConfirmOwnedFill(m, k, far)
  PROVE  /\ Sound(n, f, s, {}, b) /\ Shrinks(m, l, n, f)
         /\ AllLive(n, DOMAIN m.campaign.units)
<1>1. /\ Rested(m) /\ m \in Machines /\ Occupied(m) /\ k \in DOMAIN m.campaign.units
      /\ far \in BOOLEAN /\ (k # 0 => far = s[k].far)
      /\ f \in Adapters /\ f.closing = l.closing /\ 0 \notin f.aborting
      /\ l.aborting \subseteq f.aborting /\ (k # 0 /\ far => k \in f.aborting)
      /\ k = 0 => f.reversal = NoReversal
      /\ k # 0 => f.reversal = l.reversal
  BY DEF Sound, Rested, HasUnit, Confirms
<1>2. /\ n \in Machines /\ Occupied(n) /\ n.exit = m.exit /\ n.day = m.day
      /\ n.campaign.id = m.campaign.id /\ n.campaign.side = m.campaign.side
      /\ n.campaign.lifetime = m.campaign.lifetime
      /\ n.campaign.origin = IF k = 0 THEN "live" ELSE m.campaign.origin
      /\ DOMAIN n.campaign.units = DOMAIN m.campaign.units
      /\ n.campaign.units[k].origin = "live" /\ n.campaign.units[k].far = far
      /\ \A j \in DOMAIN m.campaign.units : j # k => n.campaign.units[j] = m.campaign.units[j]
  BY <1>1, ConfirmFacts
<1>3. /\ k = 0 => IsOf(m, "paper") /\ DOMAIN m.campaign.units = {0} /\ b = {}
      /\ k # 0 => /\ IsOf(m, "live") /\ k + 1 = m.campaign.lifetime
                  /\ \A j \in DOMAIN m.campaign.units :
                       j # k => m.campaign.units[j].origin = "live"
  BY PaperFacts
<1>4. IsOf(n, "live") /\ ~IsOf(n, "paper") /\ ~IsOf(n, "historical")
  BY <1>2, <1>3 DEF IsOf
<1>5. \A j \in DOMAIN n.campaign.units : n.campaign.units[j].origin = "live"
  BY <1>2, <1>3
<1>6. Rested(n)
  BY <1>1, <1>2, <1>4, <1>5 DEF Rested, IsOf
<1>7. Waits(n, f)
  BY <1>1, <1>3 DEF Sound, Waits, IsOf
<1>8. f.closing = {} /\ \A j \in Held(s) : Matches(s[j], n.campaign)
  BY <1>1, <1>2 DEF Sound, Matches
<1>9. /\ 0 \in Held(s) /\ Held(s) \subseteq DOMAIN n.campaign.units
      /\ \A j \in DOMAIN n.campaign.units \ {0} : j \in Held(s) \cup f.aborting
  <2>1. CASE k = 0
    BY <1>2, <1>3, <2>1 DEF Sound
  <2>2. CASE k # 0
    BY <1>1, <1>2, <1>3, <2>2 DEF Sound
  <2> QED
    BY <2>1, <2>2
<1>10. \A j \in b : Leaving(n, f, s, j)
  <2> SUFFICES ASSUME NEW j \in b PROVE Leaving(n, f, s, j)
    OBVIOUS
  <2>1. k # 0
    BY <1>3
  <2>2. Leaving(m, l, s, j) /\ IsOf(m, "live") /\ j \in DOMAIN m.campaign.units
    BY <1>3, <2>1 DEF Sound
  <2>3. CASE j \in l.aborting
    BY <1>1, <1>4, <2>3 DEF Leaving
  <2>4. CASE j \notin l.aborting
    <3>1. m.campaign.units[j].origin = "paper" /\ s[j].far
      BY <1>1, <2>2, <2>4 DEF Leaving
    <3>2. j = k
      BY <1>3, <2>1, <2>2, <3>1
    <3> QED
      BY <1>1, <1>4, <2>1, <3>1, <3>2 DEF Leaving
  <2> QED
    BY <2>3, <2>4
<1>11. Sound(n, f, s, {}, b)
  BY <1>1, <1>2, <1>4, <1>5, <1>6, <1>7, <1>8, <1>9, <1>10 DEF Sound
<1>12. Shrinks(m, l, n, f)
  BY <1>1, <1>2, <1>5 DEF Shrinks
<1> QED
  BY <1>2, <1>4, <1>5, <1>11, <1>12 DEF AllLive

LEMMA DiscardSound ==
  ASSUME NEW m, NEW l, NEW s \in [Ks -> Trades], NEW u \in SUBSET Ks, NEW b \in SUBSET Held(s),
         Sound(m, l, s, u, b),
         NEW k \in Ks, HasUnit(m, k), k # 0, m.campaign.units[k].origin = "paper",
         k \notin Held(s) \cup u,
         NEW n, n = DiscardUnfilledAddon(m, k)
  PROVE  /\ Sound(n, l, s, u, b) /\ Shrinks(m, l, n, l)
         /\ AllLive(n, DOMAIN m.campaign.units \ {k})
<1>1. /\ Rested(m) /\ m \in Machines /\ Occupied(m) /\ k \in DOMAIN m.campaign.units
  BY DEF Sound, Rested, HasUnit
<1>2. /\ IsOf(m, "live") /\ IsLatestUnfilled(m, k) /\ k + 1 = m.campaign.lifetime
      /\ \A j \in DOMAIN m.campaign.units : j # k => m.campaign.units[j].origin = "live"
  BY PaperFacts
<1>3. /\ n \in Machines /\ Occupied(n) /\ n.exit = m.exit /\ n.day = m.day
      /\ n.campaign.id = m.campaign.id /\ n.campaign.side = m.campaign.side
      /\ n.campaign.lifetime = k /\ n.campaign.origin = m.campaign.origin
      /\ DOMAIN n.campaign.units = DOMAIN m.campaign.units \ {k}
      /\ \A j \in DOMAIN n.campaign.units : n.campaign.units[j] = m.campaign.units[j]
  BY <1>1, <1>2, DiscardFacts
<1>4. IsOf(n, "live") /\ ~IsOf(n, "paper") /\ ~IsOf(n, "historical")
  BY <1>2, <1>3 DEF IsOf
<1>5. \A j \in DOMAIN n.campaign.units : n.campaign.units[j].origin = "live"
  BY <1>2, <1>3
<1>6. \A j \in Ks : j < m.campaign.lifetime => j < k \/ j = k
  BY <1>2, MaxUnitsType DEF Ks
<1>7. Rested(n)
  <2>1. DOMAIN m.campaign.units \subseteq Ks
    BY <1>1, MachineFacts, CampaignFacts
  <2>2. \A j \in DOMAIN n.campaign.units : j < n.campaign.lifetime
    BY <1>1, <1>3, <1>6, <2>1 DEF Rested
  <2>3. n.campaign.id <= n.day /\ 0 \in DOMAIN n.campaign.units /\ n.exit = "none"
    BY <1>1, <1>3 DEF Rested
  <2> QED
    BY <1>3, <1>4, <1>5, <2>2, <2>3 DEF Rested, IsOf
<1>8. Waits(n, l)
  BY <1>1, <1>2 DEF Sound, Waits, IsOf
<1>9. l.closing = {} /\ \A j \in Held(s) : Matches(s[j], n.campaign)
  BY <1>1, <1>3 DEF Sound, Matches
<1>10. /\ 0 \in Held(s) \cup u /\ Held(s) \cup u \subseteq DOMAIN n.campaign.units
       /\ \A j \in DOMAIN n.campaign.units \ {0} : j \in Held(s) \cup u \cup l.aborting
  BY <1>2, <1>3 DEF Sound
<1>11. \A j \in b : Leaving(n, l, s, j)
  <2> SUFFICES ASSUME NEW j \in b PROVE Leaving(n, l, s, j)
    OBVIOUS
  <2>1. Leaving(m, l, s, j) /\ j \in DOMAIN m.campaign.units /\ j # k
    BY <1>2 DEF Sound
  <2> QED
    BY <1>1, <1>2, <1>4, <2>1 DEF Leaving
<1>12. Sound(n, l, s, u, b)
  BY <1>3, <1>4, <1>5, <1>7, <1>8, <1>9, <1>10, <1>11 DEF Sound
<1>13. Shrinks(m, l, n, l)
  BY <1>1, <1>2, <1>3, <1>6 DEF Shrinks
<1> QED
  BY <1>3, <1>4, <1>5, <1>12, <1>13 DEF AllLive

\* _abandon_unfunded_parent, where id is the campaign's
LEMMA AbandonSound ==
  ASSUME NEW m, NEW l, NEW s \in [Ks -> Trades], NEW u, NEW b, Sound(m, l, s, u, b),
         IsOf(m, "paper"), 0 \notin Held(s),
         NEW v, v = AbandonParent(m, l, m.campaign.id)
  PROVE  /\ v.ok /\ Sound(v.model, v.live, s, u, b) /\ Shrinks(m, l, v.model, v.live)
         /\ v.out = <<>> /\ ~Occupied(v.model) /\ v.live.reversal = NoReversal
         /\ v.live.closing = l.closing /\ v.live.aborting = l.aborting /\ v.live.urgent = l.urgent
<1> DEFINE n == [m EXCEPT !.campaign = NoCampaign]
           f == IF l.reversal.id = m.campaign.id THEN [l EXCEPT !.reversal = NoReversal] ELSE l
<1>1. m \in Machines /\ l \in Adapters /\ Occupied(m) /\ Held(s) = {} /\ m.exit = "none"
      /\ m.campaign \in Campaigns
  BY MachineFacts DEF Sound, Rested, IsOf
<1>2. v = Quiet(n, f)
  BY DEF AbandonParent
<1>3. n \in Machines /\ ~Occupied(n) /\ n.exit = "none" /\ n.day = m.day
  BY <1>1, SetCampaign
<1>4. /\ f \in Adapters /\ f.closing = l.closing /\ f.aborting = l.aborting /\ f.urgent = l.urgent
      /\ f.reversal = NoReversal
  <2>1. l.reversal # NoReversal => l.reversal.id = m.campaign.id
    BY <1>1 DEF Sound, Waits
  <2>2. CASE l.reversal = NoReversal
    <3>1. f = l
      <4>1. m.campaign.id \in Nat
        BY <1>1, CampaignFacts
      <4>2. l.reversal.id = -1
        BY <2>2 DEF NoReversal
      <4> QED
        BY <4>1, <4>2
    <3> QED
      BY <1>1, <2>2, <3>1
  <2>3. CASE l.reversal # NoReversal
    <3>1. f = [l EXCEPT !.reversal = NoReversal]
      BY <2>1, <2>3
    <3> QED
      BY <1>1, <3>1, SetFields DEF Adapters
  <2> QED
    BY <2>2, <2>3
<1> HIDE DEF n, f
<1>5. Sound(n, f, s, u, b)
  <2>1. 0 \notin f.aborting
    BY <1>4 DEF Sound
  <2> QED
    BY <1>1, <1>3, <1>4, <2>1, IdleSound
<1>6. Shrinks(m, l, n, f)
  BY <1>3, <1>4 DEF Shrinks
<1>7. v.model = n /\ v.live = f /\ v.ok /\ v.out = <<>>
  BY <1>2, QuietFields
<1> QED
  BY <1>3, <1>4, <1>5, <1>6, <1>7

-----------------------------------------------------------------------------
(* on_startup raises on no sound ladder, and leaves it between bars.       *)

StartedParts(m, l, s) ==
  LET parent == ParentResumed(m, l, s)
  IN  IF parent.ok /\ IsOf(parent.model, "live")
      THEN AddonsResumed(parent.model, parent.live, s) ELSE parent

LEMMA StartedUnfolds ==
  ASSUME NEW m, NEW l, NEW s
  PROVE  LET w == StartedParts(m, l, s)
         IN  Started(m, l, s) =
               IF l.reversal # NoReversal /\ Held(s) = {0} /\ l.closing = {}
               THEN IF Occupied(m) /\ m.campaign.id = l.reversal.id
                    THEN Quiet(ConfirmOwnedFill(m, 0, FALSE), [l EXCEPT !.reversal = NoReversal])
                    ELSE Raises(m, l)
               ELSE IF ~w.ok THEN w
               ELSE IF Held(s) # {} /\ ~Occupied(w.model) /\ Held(s) \subseteq w.live.closing
                    THEN Quiet(w.model, [w.live EXCEPT !.urgent = @ \cup Held(s)])
               ELSE [w EXCEPT !.ok = Agreed(w.model, w.live, s)]
BY DEF Started, StartedParts

StartedWell(m, l, s, b, v) ==
  /\ v.ok /\ Sound(v.model, v.live, s, {}, b) /\ Shrinks(m, l, v.model, v.live)
  /\ Between(v.model, v.live, Held(s), Held(s))

\* Nothing is occupied: what is held is queued for closure.
LEMMA StartedIdle ==
  ASSUME NEW m, NEW l, NEW s \in [Ks -> Trades], NEW b \in SUBSET Held(s), Sound(m, l, s, {}, b),
         l.closing \subseteq Held(s), ~Occupied(m),
         NEW v, v = Started(m, l, s)
  PROVE  StartedWell(m, l, s, b, v)
<1> DEFINE w == StartedParts(m, l, s)
           p == Held(s)
<1>1. m \in Machines /\ l \in Adapters /\ p \in SUBSET Ks /\ l.closing = p
  BY TradeFacts DEF Sound, Rested
<1>2. w = Quiet(m, l)
  <2>1. ParentResumed(m, l, s) = Quiet(m, l)
    BY DEF ParentResumed, IsOf
  <2>2. ~IsOf(Quiet(m, l).model, "live")
    BY QuietFields DEF IsOf
  <2> QED
    BY <2>1, <2>2 DEF StartedParts
<1> HIDE DEF p, w
<1>3. w.model = m /\ w.live = l /\ w.ok
  BY <1>2, QuietFields
<1>4. v = IF p # {} THEN Quiet(m, [l EXCEPT !.urgent = @ \cup p]) ELSE [w EXCEPT !.ok = Agreed(m, l, s)]
  <2>1. ~(p = {0} /\ l.closing = {})
    BY <1>1
  <2>2. v = IF l.reversal # NoReversal /\ p = {0} /\ l.closing = {}
            THEN IF Occupied(m) /\ m.campaign.id = l.reversal.id
                 THEN Quiet(ConfirmOwnedFill(m, 0, FALSE), [l EXCEPT !.reversal = NoReversal])
                 ELSE Raises(m, l)
            ELSE IF ~w.ok THEN w
            ELSE IF p # {} /\ ~Occupied(w.model) /\ p \subseteq w.live.closing
                 THEN Quiet(w.model, [w.live EXCEPT !.urgent = @ \cup p])
            ELSE [w EXCEPT !.ok = Agreed(w.model, w.live, s)]
    BY StartedUnfolds DEF w, p
  <2> QED
    BY <1>1, <1>3, <2>1, <2>2
<1>5. v.ok /\ v.model = m /\ v.live \in Adapters /\ v.live.closing = p /\ v.live.reversal = l.reversal
      /\ v.live.aborting = l.aborting
  <2>1. CASE p # {}
    <3> DEFINE f == [l EXCEPT !.urgent = @ \cup p]
    <3>1. l.urgent \cup p \in SUBSET Ks
      BY <1>1, AdapterFacts
    <3>2. f \in Adapters /\ f.closing = p /\ f.reversal = l.reversal /\ f.aborting = l.aborting
      BY <1>1, <3>1 DEF Adapters
    <3>3. v = Quiet(m, f)
      BY <1>4, <2>1
    <3> HIDE DEF f
    <3> QED
      BY <3>2, <3>3, QuietFields
  <2>2. CASE p = {}
    <3>1. Agreed(m, l, s)
      BY <2>2 DEF Agreed, IsOf, p
    <3>2. v = [w EXCEPT !.ok = TRUE]
      BY <1>4, <2>2, <3>1
    <3>3. v.ok /\ v.model = w.model /\ v.live = w.live
      BY <1>2, <3>2 DEF Quiet, Verdict
    <3> QED
      BY <1>1, <1>3, <3>3
  <2> QED
    BY <2>1, <2>2
<1>6. Sound(v.model, v.live, s, {}, b)
  <2>1. m.exit = "none" /\ 0 \notin l.aborting
        /\ (l.reversal # NoReversal =>
              l.reversal.id <= m.day /\ l.reversal.at = Minute(l.reversal.id, 0))
    BY DEF Sound, Rested, Waits
  <2> QED
    BY <1>1, <1>5, <2>1, IdleSound DEF p
<1> QED
  BY <1>5, <1>6 DEF StartedWell, Shrinks, Between, IsOf, p

\* The campaign is hypothetical: nothing is held.
LEMMA StartedHistorical ==
  ASSUME NEW m, NEW l, NEW s \in [Ks -> Trades], NEW b \in SUBSET Held(s), Sound(m, l, s, {}, b),
         l.urgent = {}, IsOf(m, "historical"),
         NEW v, v = Started(m, l, s)
  PROVE  StartedWell(m, l, s, b, v)
<1> DEFINE w == StartedParts(m, l, s)
<1>1. m \in Machines /\ l \in Adapters /\ Held(s) = {} /\ Occupied(m) /\ ~IsOf(m, "paper")
      /\ ~IsOf(m, "live")
  BY DEF Sound, Rested, IsOf
<1>2. w = Quiet(m, l)
  <2>1. ParentResumed(m, l, s) = Quiet(m, l)
    BY <1>1 DEF ParentResumed
  <2>2. ~IsOf(Quiet(m, l).model, "live")
    BY <1>1, QuietFields
  <2> QED
    BY <2>1, <2>2 DEF StartedParts
<1> HIDE DEF w
<1>3. w.model = m /\ w.live = l /\ w.ok
  BY <1>2, QuietFields
<1>4. v = [w EXCEPT !.ok = Agreed(m, l, s)]
  <2>1. v = IF l.reversal # NoReversal /\ Held(s) = {0} /\ l.closing = {}
            THEN IF Occupied(m) /\ m.campaign.id = l.reversal.id
                 THEN Quiet(ConfirmOwnedFill(m, 0, FALSE), [l EXCEPT !.reversal = NoReversal])
                 ELSE Raises(m, l)
            ELSE IF ~w.ok THEN w
            ELSE IF Held(s) # {} /\ ~Occupied(w.model) /\ Held(s) \subseteq w.live.closing
                 THEN Quiet(w.model, [w.live EXCEPT !.urgent = @ \cup Held(s)])
            ELSE [w EXCEPT !.ok = Agreed(w.model, w.live, s)]
    BY StartedUnfolds DEF w
  <2> QED
    BY <1>1, <1>3, <2>1
<1>5. Agreed(m, l, s)
  BY <1>1 DEF Agreed
<1>6. v.ok /\ v.model = m /\ v.live = l
  BY <1>2, <1>3, <1>4, <1>5 DEF Quiet, Verdict
<1>7. l.aborting = {} /\ l.closing = {}
  BY <1>1 DEF Sound
<1> QED
  BY <1>1, <1>6, <1>7 DEF StartedWell, Shrinks, Between

\* The parent is undecided: its slot tells.
LEMMA StartedPaper ==
  ASSUME NEW m, NEW l, NEW s \in [Ks -> Trades], NEW b \in SUBSET Held(s), Sound(m, l, s, {}, b),
         l.urgent = {}, l.aborting \subseteq Held(s), IsOf(m, "paper"),
         NEW v, v = Started(m, l, s)
  PROVE  StartedWell(m, l, s, b, v)
<1> DEFINE w == StartedParts(m, l, s)
           n == ConfirmOwnedFill(m, 0, FALSE)
           f == [l EXCEPT !.reversal = NoReversal]
<1>1. /\ m \in Machines /\ l \in Adapters /\ Held(s) \subseteq {0} /\ Occupied(m) /\ 0 \in Ks
      /\ l.closing = {} /\ l.aborting = {} /\ m.exit = "none"
      /\ HasUnit(m, 0) /\ m.campaign.units[0].origin = "paper"
  <2>1. /\ Rested(m) /\ l \in Adapters /\ Held(s) \subseteq {0} /\ 0 \notin l.aborting /\ Occupied(m)
        /\ l.closing = {}
    BY DEF Sound, IsOf
  <2>2. m.campaign.origin = "paper"
    BY DEF IsOf
  <2> QED
    BY <2>1, <2>2, SlotSets DEF Rested, HasUnit
<1>2. v = IF l.reversal # NoReversal /\ Held(s) = {0} /\ l.closing = {}
          THEN IF Occupied(m) /\ m.campaign.id = l.reversal.id
               THEN Quiet(n, f)
               ELSE Raises(m, l)
          ELSE IF ~w.ok THEN w
          ELSE IF Held(s) # {} /\ ~Occupied(w.model) /\ Held(s) \subseteq w.live.closing
               THEN Quiet(w.model, [w.live EXCEPT !.urgent = @ \cup Held(s)])
          ELSE [w EXCEPT !.ok = Agreed(w.model, w.live, s)]
  BY StartedUnfolds
<1>3. /\ f \in Adapters /\ f.closing = l.closing /\ f.aborting = l.aborting /\ f.urgent = l.urgent
      /\ f.reversal = NoReversal
  BY <1>1, SetFields DEF Adapters
<1> HIDE DEF w, n, f
<1>4. ASSUME Held(s) = {0}
      PROVE  /\ Sound(n, f, s, {}, b) /\ Shrinks(m, l, n, f) /\ IsOf(n, "live")
             /\ DOMAIN n.campaign.units = {0}
             /\ \A j \in DOMAIN n.campaign.units : n.campaign.units[j].origin = "live"
  <2>1. 0 \in Held(s)
    BY <1>4
  <2>2. DOMAIN m.campaign.units = {0}
    BY <1>1, PaperFacts
  <2>3. Confirms(l, s, 0, FALSE, f)
    BY <1>1, <1>3 DEF Confirms
  <2> DEFINE k == 0
             far == FALSE
  <2>4. /\ k \in Ks /\ HasUnit(m, k) /\ m.campaign.units[k].origin = "paper" /\ k \in Held(s)
        /\ Confirms(l, s, k, far, f) /\ n = ConfirmOwnedFill(m, k, far)
    BY <1>1, <2>1, <2>3 DEF n
  <2> HIDE DEF k, far
  <2>5. Sound(n, f, s, {}, b) /\ Shrinks(m, l, n, f) /\ AllLive(n, DOMAIN m.campaign.units)
    BY <2>4, ConfirmSound
  <2> QED
    BY <2>2, <2>5 DEF AllLive
<1>5. ASSUME Held(s) = {0}
      PROVE  Between(n, f, Held(s), Held(s))
  <2>1. IsOf(n, "live") /\ ~IsOf(n, "paper") /\ ~IsOf(n, "historical") /\ Occupied(n)
    BY <1>4, <1>5 DEF IsOf
  <2> QED
    BY <1>1, <1>3, <1>4, <1>5, <2>1 DEF Between
<1>6. CASE Held(s) = {0} /\ l.reversal # NoReversal
  <2>1. m.campaign.id = l.reversal.id
    BY <1>1, <1>6 DEF Sound, Waits
  <2>2. v = Quiet(n, f)
    BY <1>1, <1>2, <1>6, <2>1
  <2>3. v.model = n /\ v.live = f /\ v.ok
    BY <2>2, QuietFields
  <2> QED
    BY <1>4, <1>5, <1>6, <2>3 DEF StartedWell
<1>7. CASE Held(s) = {0} /\ l.reversal = NoReversal
  <2>1. f = l
    BY <1>1, <1>7 DEF f, Adapters
  <2>2. s[0] # NoTrade /\ s[0].side = m.campaign.side
    <3>1. 0 \in Held(s)
      BY <1>7
    <3>2. Matches(s[0], m.campaign)
      BY <1>1, <3>1 DEF Sound
    <3> QED
      BY <1>1, <3>1, <3>2, TradeFacts DEF Matches
  <2>3. ParentResumed(m, l, s) = Quiet(n, l)
    BY <2>2 DEF ParentResumed, n
  <2>4. w = AddonsResumed(n, l, s)
    <3>1. Quiet(n, l).ok /\ Quiet(n, l).model = n /\ Quiet(n, l).live = l
      BY QuietFields
    <3> QED
      BY <1>4, <1>7, <2>3, <3>1 DEF StartedParts, w
  <2>5. Sound(n, l, s, {}, b) /\ IsOf(n, "live") /\ DOMAIN n.campaign.units = {0}
    BY <1>4, <1>7, <2>1
  <2>6. Rested(n) /\ Papers(n) = {} /\ \A k \in Held(s) : Matches(s[k], n.campaign)
    BY <2>5 DEF Sound, Papers, IsOf
  <2>7. w.ok /\ w.model = n /\ w.live = Marked(n, l) /\ w = Quiet(w.model, w.live)
    <3>1. w.ok /\ w.live = Marked(w.model, l) /\ w = Quiet(w.model, w.live) /\ (Papers(n) = {} => w.model = n)
      BY <2>4, <2>5, <2>6, ResumedFacts
    <3> QED
      BY <2>6, <3>1
  <2>8. Marked(n, l) = l
    <3>1. OutOfRange(n) = {}
      BY <2>5 DEF OutOfRange
    <3>2. Marked(n, l) = [l EXCEPT !.aborting = l.aborting \cup {}]
      BY <3>1 DEF Marked
    <3>3. l.aborting \cup {} = l.aborting
      OBVIOUS
    <3> QED
      BY <1>1, <3>2, <3>3 DEF Adapters
  <2>9. Agreed(n, l, s)
    BY <1>7, <2>2, <2>5 DEF Agreed
  <2>10. v = [w EXCEPT !.ok = TRUE]
    <3>1. Occupied(n)
      BY <2>5 DEF IsOf
    <3> QED
      BY <1>2, <1>7, <2>7, <2>8, <2>9, <3>1
  <2>11. v.model = n /\ v.live = l /\ v.ok
    BY <2>7, <2>8, <2>10 DEF Quiet, Verdict
  <2> QED
    BY <1>4, <1>5, <1>7, <2>1, <2>11 DEF StartedWell
<1>8. CASE Held(s) = {}
  <2> DEFINE o == Vacated(m)
  <2>1. s[0] = NoTrade
    BY <1>1, <1>8, TradeFacts
  <2>2. ParentResumed(m, l, s) = Quiet(o, l)
    BY <1>8, <2>1 DEF ParentResumed
  <2>3. o \in Machines /\ ~Occupied(o) /\ o.exit = "none" /\ o.day = m.day
    BY <1>1, VacatedFacts
  <2> HIDE DEF o
  <2>4. w = Quiet(o, l)
    <3>1. Quiet(o, l).ok /\ Quiet(o, l).model = o /\ Quiet(o, l).live = l
      BY QuietFields
    <3> QED
      BY <2>2, <2>3, <3>1 DEF StartedParts, w, IsOf
  <2>5. w.model = o /\ w.live = l /\ w.ok
    BY <2>4, QuietFields
  <2>6. Agreed(o, l, s)
    BY <1>8, <2>3 DEF Agreed, IsOf
  <2>7. v = [w EXCEPT !.ok = TRUE]
    BY <1>2, <1>8, <2>5, <2>6
  <2>8. v.model = o /\ v.live = l /\ v.ok
    BY <2>4, <2>5, <2>7 DEF Quiet, Verdict
  <2>9. Sound(o, l, s, {}, b)
    <3>1. 0 \notin l.aborting
          /\ (l.reversal # NoReversal =>
                l.reversal.id <= o.day /\ l.reversal.at = Minute(l.reversal.id, 0))
      BY <2>3 DEF Sound, Waits
    <3> QED
      BY <1>1, <1>8, <2>3, <3>1, IdleSound
  <2> QED
    BY <1>1, <1>8, <2>3, <2>8, <2>9 DEF StartedWell, Shrinks, Between, IsOf
<1> QED
  BY <1>1, <1>6, <1>7, <1>8

\* Marking more fills as out of range disturbs nothing.
LEMMA MoreAborts ==
  ASSUME NEW m, NEW l, NEW s, NEW u, NEW b, Sound(m, l, s, u, b), IsOf(m, "live"),
         NEW f \in Adapters, f.closing = l.closing, f.reversal = l.reversal,
         l.aborting \subseteq f.aborting, 0 \notin f.aborting
  PROVE  Sound(m, f, s, u, b) /\ Shrinks(m, l, m, f)
<1>1. Occupied(m) /\ ~IsOf(m, "paper") /\ ~IsOf(m, "historical") /\ Rested(m)
  BY DEF Sound, IsOf
<1>2. \A k \in b : Leaving(m, f, s, k)
  BY <1>1 DEF Sound, Leaving
<1>3. Waits(m, f)
  BY DEF Sound, Waits
<1>4. Sound(m, f, s, u, b)
  BY <1>1, <1>2, <1>3 DEF Sound
<1>5. Shrinks(m, l, m, f)
  BY <1>1 DEF Shrinks
<1> QED
  BY <1>4, <1>5

\* The units of a sound live campaign that nobody has decided on, or else all are held.
LEMMA HeldUnits ==
  ASSUME NEW m, NEW l, NEW s \in [Ks -> Trades], NEW b, Sound(m, l, s, {}, b), IsOf(m, "live"),
         l.aborting \subseteq Held(s)
  PROVE  /\ Held(s) \subseteq DOMAIN m.campaign.units /\ 0 \in Held(s)
         /\ DOMAIN m.campaign.units \ Papers(m) \subseteq Held(s)
         /\ \A k \in DOMAIN m.campaign.units \ Papers(m) : m.campaign.units[k].origin = "live"
<1>1. m \in Machines /\ Occupied(m) /\ m.campaign \in Campaigns /\ m.campaign.origin = "live"
  BY MachineFacts DEF Sound, Rested, IsOf
<1>2. \A k \in DOMAIN m.campaign.units : m.campaign.units[k].origin \in Origins
  BY <1>1, CampaignFacts DEF Units
<1>3. /\ m.campaign.units[0].origin = "live"
      /\ \A k \in DOMAIN m.campaign.units : m.campaign.units[k].origin # "historical"
  BY <1>1 DEF Sound, Rested
<1>4. \A k \in DOMAIN m.campaign.units \ Papers(m) : m.campaign.units[k].origin = "live"
  BY <1>2, <1>3 DEF Papers, Origins
<1>5. 0 \in Held(s) /\ Held(s) \subseteq DOMAIN m.campaign.units
  BY DEF Sound
<1>6. DOMAIN m.campaign.units \ Papers(m) \subseteq Held(s)
  <2> SUFFICES ASSUME NEW k \in DOMAIN m.campaign.units \ Papers(m), k # 0 PROVE k \in Held(s)
    BY <1>5
  <2>1. m.campaign.units[k].origin # "paper"
    BY DEF Papers
  <2>2. k \in Held(s) \cup l.aborting
    BY <2>1 DEF Sound
  <2> QED
    BY <2>2
<1> QED
  BY <1>4, <1>5, <1>6

StartedFunded(m, l, s, b, n, f) ==
  /\ Sound(n, f, s, {}, b) /\ Shrinks(m, l, n, f) /\ AllLive(n, Held(s))
  /\ f.aborting \subseteq Held(s) /\ f.urgent = {}

\* What _resume_addons leaves of a funded campaign.
LEMMA AddonsSound ==
  ASSUME NEW m, NEW l, NEW s \in [Ks -> Trades], NEW b \in SUBSET Held(s), Sound(m, l, s, {}, b),
         l.urgent = {}, l.aborting \subseteq Held(s), IsOf(m, "live"),
         NEW n, NEW f, f = Marked(n, l),
         Papers(m) = {} => n = m,
         \A k \in Papers(m) : n = Resumed(m, k, s)
  PROVE  StartedFunded(m, l, s, b, n, f)
<1>1. /\ Rested(m) /\ m \in Machines /\ Occupied(m) /\ l \in Adapters /\ 0 \notin l.aborting
      /\ l.closing = {} /\ DOMAIN m.campaign.units \subseteq Ks
  BY MachineFacts, CampaignFacts DEF Sound, Rested, IsOf
<1>2. /\ Held(s) \subseteq DOMAIN m.campaign.units /\ 0 \in Held(s)
      /\ DOMAIN m.campaign.units \ Papers(m) \subseteq Held(s)
      /\ \A k \in DOMAIN m.campaign.units \ Papers(m) : m.campaign.units[k].origin = "live"
  BY HeldUnits
<1>3. ASSUME n \in Machines
      PROVE  /\ f \in Adapters /\ f.urgent = {} /\ f.closing = l.closing /\ f.reversal = l.reversal
             /\ l.aborting \subseteq f.aborting /\ f.aborting \subseteq l.aborting \cup OutOfRange(n)
             /\ \A k \in Ks : k \in OutOfRange(n) => k \in f.aborting
             /\ 0 \notin f.aborting
  <2>1. 0 \notin OutOfRange(n)
    BY DEF OutOfRange
  <2> QED
    BY <1>1, <1>3, <2>1, MarkedFacts
<1>4. OutOfRange(n) \subseteq DOMAIN n.campaign.units
  BY DEF OutOfRange
<1>5. CASE Papers(m) = {}
  <2>1. n = m
    BY <1>5
  <2>2. Sound(m, f, s, {}, b) /\ Shrinks(m, l, m, f)
    BY <1>1, <1>3, <2>1, MoreAborts
  <2>3. DOMAIN m.campaign.units = Held(s)
    BY <1>2, <1>5
  <2>4. AllLive(n, Held(s))
    BY <1>2, <1>5, <2>1, <2>3 DEF AllLive
  <2> QED
    BY <1>1, <1>3, <1>4, <2>1, <2>2, <2>3, <2>4 DEF StartedFunded
<1>6. CASE Papers(m) # {}
  <2>1. PICK k \in Papers(m) : TRUE
    BY <1>6
  <2>2. /\ k \in Ks /\ k # 0 /\ HasUnit(m, k) /\ m.campaign.units[k].origin = "paper"
        /\ n = Resumed(m, k, s) /\ k \in DOMAIN m.campaign.units
    BY <1>1, <2>1 DEF Papers, HasUnit
  <2>3. \A j \in DOMAIN m.campaign.units : j # k => m.campaign.units[j].origin = "live"
    BY <2>2, PaperFacts
  <2>4. Papers(m) = {k}
    BY <2>1, <2>3 DEF Papers
  <2>5. CASE k \in Held(s)
    <3>1. s[k] # NoTrade /\ s[k].far \in BOOLEAN
      BY <2>2, <2>5, TradeFacts
    <3> DEFINE far == s[k].far
    <3>2. n = ConfirmOwnedFill(m, k, far) /\ far \in BOOLEAN
      BY <2>2, <3>1 DEF Resumed
    <3> HIDE DEF far
    <3>3. n \in Machines /\ n.campaign.units[k].origin = "live" /\ n.campaign.units[k].far = far
          /\ DOMAIN n.campaign.units = DOMAIN m.campaign.units /\ n.campaign.origin = m.campaign.origin
          /\ Occupied(n)
      BY <1>1, <2>2, <3>2, ConfirmFacts
    <3>4. far => k \in f.aborting
      <4>1. IsOf(n, "live")
        BY <3>3 DEF IsOf
      <4> QED
        BY <1>3, <2>2, <3>3, <4>1 DEF OutOfRange
    <3>5. Confirms(l, s, k, far, f)
      BY <1>3, <2>2, <3>2, <3>3, <3>4 DEF far, Confirms
    <3>7. /\ Sound(n, f, s, {}, b) /\ Shrinks(m, l, n, f)
          /\ AllLive(n, DOMAIN m.campaign.units)
      BY <2>2, <2>5, <3>2, <3>5, ConfirmSound
    <3>8. DOMAIN m.campaign.units = Held(s)
      BY <1>2, <2>4, <2>5
    <3>9. AllLive(n, Held(s)) /\ f.aborting \subseteq Held(s)
      BY <1>3, <1>4, <3>3, <3>7, <3>8
    <3> QED
      BY <1>3, <3>3, <3>7, <3>9 DEF StartedFunded
  <2>6. CASE k \notin Held(s)
    <3>1. s[k] = NoTrade
      BY <2>2, <2>6, TradeFacts
    <3>2. n = DiscardUnfilledAddon(m, k) /\ k \notin Held(s) \cup {}
      BY <2>2, <2>6, <3>1 DEF Resumed
    <3>3. Sound(n, l, s, {}, b) /\ Shrinks(m, l, n, l) /\ AllLive(n, DOMAIN m.campaign.units \ {k})
      <4> DEFINE u == {}
      <4>1. u \in SUBSET Ks /\ Sound(m, l, s, u, b) /\ k \notin Held(s) \cup u
        BY <3>2
      <4> HIDE DEF u
      <4>2. Sound(n, l, s, u, b) /\ Shrinks(m, l, n, l) /\ AllLive(n, DOMAIN m.campaign.units \ {k})
        BY <2>2, <3>2, <4>1, DiscardSound
      <4> QED
        BY <4>2 DEF u
    <3>4. n \in Machines
      BY <3>3 DEF Sound, Rested
    <3>5. Sound(n, f, s, {}, b) /\ Shrinks(n, l, n, f)
      <4>1. IsOf(n, "live")
        BY <3>3 DEF AllLive
      <4> QED
        BY <1>3, <3>3, <3>4, <4>1, MoreAborts
    <3>6. Shrinks(m, l, n, f)
      BY <3>3, <3>5, ShrinkTwice
    <3>7. DOMAIN m.campaign.units \ {k} = Held(s)
      BY <1>2, <2>4, <2>6
    <3>8. AllLive(n, Held(s))
      BY <3>3, <3>7
    <3>9. f.aborting \subseteq Held(s)
      BY <1>3, <1>4, <3>4, <3>8 DEF AllLive
    <3> QED
      BY <1>3, <3>4, <3>5, <3>6, <3>8, <3>9 DEF StartedFunded
  <2> QED
    BY <2>5, <2>6
<1> QED
  BY <1>5, <1>6

\* The campaign is funded: its undecided add-on is confirmed or undone.
LEMMA StartedLive ==
  ASSUME NEW m, NEW l, NEW s \in [Ks -> Trades], NEW b \in SUBSET Held(s), Sound(m, l, s, {}, b),
         l.urgent = {}, l.aborting \subseteq Held(s), IsOf(m, "live"),
         NEW v, v = Started(m, l, s)
  PROVE  StartedWell(m, l, s, b, v)
<1> DEFINE w == StartedParts(m, l, s)
<1>1. /\ Rested(m) /\ m \in Machines /\ Occupied(m) /\ l \in Adapters /\ l.closing = {}
      /\ ~IsOf(m, "paper") /\ DOMAIN m.campaign.units \subseteq Ks
  BY MachineFacts, CampaignFacts DEF Sound, Rested, IsOf
<1>2. l.reversal = NoReversal
  BY <1>1 DEF Sound, Waits
<1>3. w = AddonsResumed(m, l, s)
  <2>1. ParentResumed(m, l, s) = Quiet(m, l)
    BY <1>1 DEF ParentResumed
  <2>2. Quiet(m, l).ok /\ Quiet(m, l).model = m /\ Quiet(m, l).live = l
    BY QuietFields
  <2> QED
    BY <2>1, <2>2 DEF StartedParts
<1>4. v = IF l.reversal # NoReversal /\ Held(s) = {0} /\ l.closing = {}
          THEN IF Occupied(m) /\ m.campaign.id = l.reversal.id
               THEN Quiet(ConfirmOwnedFill(m, 0, FALSE), [l EXCEPT !.reversal = NoReversal])
               ELSE Raises(m, l)
          ELSE IF ~w.ok THEN w
          ELSE IF Held(s) # {} /\ ~Occupied(w.model) /\ Held(s) \subseteq w.live.closing
               THEN Quiet(w.model, [w.live EXCEPT !.urgent = @ \cup Held(s)])
          ELSE [w EXCEPT !.ok = Agreed(w.model, w.live, s)]
  BY StartedUnfolds
<1> HIDE DEF w
<1>5. /\ \A k \in Papers(m) : k + 1 = m.campaign.lifetime
      /\ \A k \in Held(s) : Matches(s[k], m.campaign)
  BY <1>1 DEF Sound, Papers
<1>6. /\ w.ok /\ w.live = Marked(w.model, l) /\ w = Quiet(w.model, w.live)
      /\ Papers(m) = {} => w.model = m
      /\ \A k \in Papers(m) : w.model = Resumed(m, k, s)
  BY <1>1, <1>3, <1>5, ResumedFacts
<1> DEFINE n == w.model
           f == w.live
<1>7. StartedFunded(m, l, s, b, n, f)
  BY <1>6, AddonsSound
<1> HIDE DEF n, f
<1>8. /\ Sound(n, f, s, {}, b) /\ Shrinks(m, l, n, f) /\ IsOf(n, "live") /\ Occupied(n)
      /\ DOMAIN n.campaign.units = Held(s) /\ f.aborting \subseteq Held(s) /\ f.urgent = {}
      /\ \A k \in Held(s) : n.campaign.units[k].origin = "live"
  BY <1>7 DEF StartedFunded, AllLive, IsOf
<1>9. Agreed(n, f, s)
  <2>1. 0 \in Held(s)
    BY <1>8 DEF Sound
  <2>2. s[0] # NoTrade
    BY <2>1, SlotSets, TradeFacts
  <2> QED
    BY <1>8, <2>2 DEF Agreed
<1>10. v = [w EXCEPT !.ok = TRUE]
  BY <1>2, <1>4, <1>6, <1>8, <1>9 DEF n, f
<1>11. v.ok /\ v.model = n /\ v.live = f
  BY <1>6, <1>10 DEF Quiet, Verdict, n, f
<1>12. Between(n, f, Held(s), Held(s))
  BY <1>8 DEF Between, IsOf
<1> QED
  BY <1>8, <1>11, <1>12 DEF StartedWell

LEMMA StartedSound ==
  ASSUME NEW m, NEW l, NEW s \in [Ks -> Trades], NEW b \in SUBSET Held(s), Sound(m, l, s, {}, b),
         l.aborting \subseteq Held(s), l.closing \subseteq Held(s), Occupied(m) => l.urgent = {},
         NEW v, v = Started(m, l, s)
  PROVE  StartedWell(m, l, s, b, v)
<1>1. Occupied(m) => IsOf(m, "historical") \/ IsOf(m, "paper") \/ IsOf(m, "live")
  BY MachineFacts, CampaignFacts DEF Sound, Rested, IsOf, Origins
<1>2. CASE ~Occupied(m)
  BY <1>2, StartedIdle
<1>3. CASE Occupied(m)
  BY <1>1, <1>3, StartedHistorical, StartedPaper, StartedLive
<1> QED
  BY <1>2, <1>3

-----------------------------------------------------------------------------
(* The inductive invariant.                                                *)

\* An intent that is left to submit at (m, l), with trades s, when (n, f) is what the
\* snapshot knows.
EntryWell(i, m, l, n, f) ==
  /\ HasUnit(m, i.k) /\ m.campaign.units[i.k].origin = "paper"
  /\ i.id = m.campaign.id /\ i.side = m.campaign.side
  /\ IsOf(m, "live") => l.aborting = {}
  /\ n = m /\ f = l
ExitWell(i, m, l, n, f, s) ==
  /\ i.abort => i.k # 0
  /\ i.k \in Held(s) =>
       /\ Leaving(n, f, s, i.k)
       /\ Occupied(m) => IsOf(m, "live") /\ i.abort /\ i.k \in l.aborting

\* The intents q: an entry comes last, and it is the entry of the undecided unit.
Planned(q, m, l, n, f, s) ==
  /\ \A i \in DOMAIN q : q[i].kind = "exit" => ExitWell(q[i], m, l, n, f, s)
  /\ \A i \in DOMAIN q : q[i].kind = "entry" => i = Len(q) /\ EntryWell(q[i], m, l, n, f)
  /\ Occupied(m) =>
       \A k \in DOMAIN m.campaign.units :
         m.campaign.units[k].origin = "paper" =>
           q # <<>> /\ q[Len(q)].kind = "entry" /\ q[Len(q)].k = k

Ran == {"submit", "filled"}
Enters == intents # <<>> /\ intents[Len(intents)].kind = "entry"

\* A live bar has been decided on, and its intents are being submitted.
Acting ==
  /\ Occupied(model) => live.urgent = {}
  /\ Planned(intents, model, live, saved.model, saved.live, slots)
  /\ Enters => due
  /\ pc = "submit" /\ Enters => slots[intents[Len(intents)].k] = NoTrade
  /\ pc = "filled" =>
       intents # <<>> /\ Head(intents).kind = "entry" /\ slots[Head(intents).k] # NoTrade

\* What the strategy and its snapshot know of the trades that have been opened.
Counted ==
  /\ kept <= Len(traded)
  /\ \A i \in DOMAIN traded : traded[i][1] <= saved.model.day
  /\ saved.model.day <= model.day
  /\ ~torn =>
       /\ OpenedOnce
       /\ pc # "filled" /\ (pc = "submit" => ~due \/ Enters) => kept = Len(traded)
       /\ pc = "filled" =>
            Len(traded) = kept + 1 /\ traded[Len(traded)] = <<Head(intents).id, Head(intents).k>>
       /\ Fresh(saved.model, saved.live, traded, kept)
       /\ pc # "filled" => Fresh(model, live, traded, Len(traded))

\* The executor's books.
Books ==
  /\ untold \cap Held(slots) = {} /\ begun \subseteq Held(slots) /\ gone \subseteq Held(slots)
  /\ owed \subseteq begun
  /\ OneCampaignAtATime

\* Where the loop is decides what the mirror shows, and what may still be told.
Placed ==
  /\ pc = "down" => model = saved.model /\ live = saved.live /\ gap = saved.gap
  /\ pc \notin Ran \cup {"down"} => Between(model, live, Held(slots) \cup untold, mirror)
  /\ pc \in {"idle", "venue"} => mirror = Held(slots)
  /\ pc = "deliver" => mirror = Held(slots) \cup untold
  /\ pc \notin {"down", "deliver"} => untold = {}
  /\ pc \in Ran => Acting

IInv ==
  /\ TypeOK /\ Books /\ Placed /\ Counted
  /\ saved.live.urgent = {}
  /\ Sound(saved.model, saved.live, slots, untold, begun)
  /\ Sound(model, live, slots, untold, begun)
  /\ raised \in {"none", "redelivery"}

-----------------------------------------------------------------------------
(* Slots change.                                                           *)

\* s2 is s without the trades of the slots ks.
Frees(s, s2, ks) ==
  /\ s2 \in [Ks -> Trades] /\ Held(s2) = Held(s) \ ks
  /\ \A k \in Held(s2) : s2[k] = s[k]

LEMMA FreesOne ==
  ASSUME NEW s \in [Ks -> Trades], NEW k \in Ks, NEW s2, s2 = [s EXCEPT ![k] = NoTrade]
  PROVE  Frees(s, s2, {k})
<1>1. NoTrade \in Trades
  BY DEF Trades
<1>2. s2 \in [Ks -> Trades] /\ s2[k] = NoTrade /\ \A j \in Ks : j # k => s2[j] = s[j]
  BY <1>1
<1>3. Held(s2) = Held(s) \ {k}
  BY <1>2 DEF Held
<1>4. \A j \in Held(s2) : s2[j] = s[j]
  BY <1>2, <1>3, TradeFacts
<1> QED
  BY <1>2, <1>3, <1>4 DEF Frees

LEMMA FreesMany ==
  ASSUME NEW s \in [Ks -> Trades], NEW ks,
         NEW s2, s2 = [k \in Ks |-> IF k \in ks THEN NoTrade ELSE s[k]]
  PROVE  Frees(s, s2, ks)
<1>1. NoTrade \in Trades
  BY DEF Trades
<1>2. /\ s2 \in [Ks -> Trades]
      /\ \A j \in Ks : s2[j] = IF j \in ks THEN NoTrade ELSE s[j]
  BY <1>1
<1>3. Held(s2) = Held(s) \ ks
  BY <1>2 DEF Held
<1>4. \A j \in Held(s2) : s2[j] = s[j]
  BY <1>2, <1>3, TradeFacts
<1> QED
  BY <1>2, <1>3, <1>4 DEF Frees

\* Urgent intents say nothing about what is owned.
LEMMA UrgentSound ==
  ASSUME NEW m, NEW l, NEW s, NEW u, NEW b, Sound(m, l, s, u, b),
         NEW f \in Adapters, f.closing = l.closing, f.aborting = l.aborting, f.reversal = l.reversal
  PROVE  Sound(m, f, s, u, b)
<1>1. Waits(m, f)
  BY DEF Sound, Waits
<1>2. \A k \in b : Leaving(m, f, s, k)
  BY DEF Sound, Leaving
<1> QED
  BY <1>1, <1>2 DEF Sound

LEMMA IdleFields ==
  ASSUME NEW m, NEW l, NEW s, NEW u, NEW b, Sound(m, l, s, u, b)
  PROVE  /\ m \in Machines /\ l \in Adapters /\ m.exit = "none" /\ 0 \notin l.aborting
         /\ l.reversal # NoReversal =>
              l.reversal.id <= m.day /\ l.reversal.at = Minute(l.reversal.id, 0)
         /\ ~Occupied(m) => Held(s) \subseteq l.closing
         /\ Occupied(m) => l.closing = {}
BY DEF Sound, Rested, Waits

\* The close of a trade that was leaving.
LEMMA CloseSound ==
  ASSUME NEW m, NEW l, NEW s \in [Ks -> Trades], NEW u \in SUBSET Ks, NEW b \in SUBSET Held(s),
         Sound(m, l, s, u, b), NEW k \in Held(s), Leaving(m, l, s, k),
         NEW s2, Frees(s, s2, {k})
  PROVE  Sound(m, l, s2, u, b \ {k})
<1>1. /\ s2 \in [Ks -> Trades] /\ Held(s2) = Held(s) \ {k} /\ \A j \in Held(s2) : s2[j] = s[j]
  BY DEF Frees
<1>2. CASE ~Occupied(m)
  <2>1. Held(s2) \subseteq l.closing
    BY <1>1, <1>2 DEF Sound
  <2> DEFINE b2 == b \ {k}
  <2> HIDE DEF b2
  <2>2. Sound(m, l, s2, u, b2)
    BY <1>2, <2>1, IdleFields, IdleSound
  <2> QED
    BY <2>2 DEF b2
<1>3. CASE Occupied(m)
  <2>1. IsOf(m, "live") /\ (k \in l.aborting \/ m.campaign.units[k].origin = "paper")
    BY <1>3 DEF Leaving
  <2>2. /\ ~IsOf(m, "paper") /\ ~IsOf(m, "historical") /\ k # 0
        /\ m.campaign.units[0].origin = "live"
    BY <1>3, <2>1 DEF IsOf, Sound, Rested
  <2>3. 0 \in Held(s2) \cup u /\ Held(s2) \cup u \subseteq DOMAIN m.campaign.units
    BY <1>1, <2>1, <2>2 DEF Sound
  <2>4. \A j \in DOMAIN m.campaign.units \ {0} :
          IF m.campaign.units[j].origin = "paper" THEN j + 1 = m.campaign.lifetime
          ELSE j \in Held(s2) \cup u \cup l.aborting
    <3> SUFFICES ASSUME NEW j \in DOMAIN m.campaign.units \ {0}
                 PROVE  IF m.campaign.units[j].origin = "paper" THEN j + 1 = m.campaign.lifetime
                        ELSE j \in Held(s2) \cup u \cup l.aborting
      OBVIOUS
    <3>1. IF m.campaign.units[j].origin = "paper" THEN j + 1 = m.campaign.lifetime
          ELSE j \in Held(s) \cup u \cup l.aborting
      BY <2>1 DEF Sound
    <3> QED
      BY <1>1, <2>1, <3>1
  <2>5. \A j \in b \ {k} : Leaving(m, l, s2, j)
    BY <1>1 DEF Sound, Leaving
  <2>6. \A j \in Held(s2) : Matches(s2[j], m.campaign)
    BY <1>1, <1>3 DEF Sound
  <2> QED
    BY <1>3, <2>2, <2>3, <2>4, <2>5, <2>6 DEF Sound
<1> QED
  BY <1>2, <1>3

\* Trades that the venue closed are booked, and have still to be told.
LEMMA BookSound ==
  ASSUME NEW m, NEW l, NEW s \in [Ks -> Trades], NEW u \in SUBSET Ks, NEW b \in SUBSET Held(s),
         Sound(m, l, s, u, b), NEW ks \in SUBSET Held(s), NEW s2, Frees(s, s2, ks)
  PROVE  Sound(m, l, s2, u \cup ks, b \ ks)
<1>1. /\ s2 \in [Ks -> Trades] /\ Held(s2) = Held(s) \ ks /\ \A j \in Held(s2) : s2[j] = s[j]
      /\ Held(s2) \cup (u \cup ks) = Held(s) \cup u
  BY DEF Frees
<1>2. \A j \in b \ ks : Leaving(m, l, s2, j)
  <2>1. \A j \in b \ ks : s2[j] = s[j]
    BY <1>1
  <2> QED
    BY <2>1 DEF Sound, Leaving
<1>3. Occupied(m) => \A j \in Held(s2) : Matches(s2[j], m.campaign)
  BY <1>1 DEF Sound
<1> QED
  BY <1>1, <1>2, <1>3 DEF Sound

\* s2 is s with trade t in the slot k.
Fills(s, s2, k, t) ==
  s2 \in [Ks -> Trades] /\ s2[k] = t /\ \A j \in Ks : j # k => s2[j] = s[j]

Filled(m, l, s, u, b, k, s2) ==
  /\ s2 \in [Ks -> Trades] /\ Held(s2) = Held(s) \cup {k}
  /\ \A j \in Held(s2) : s2[j].id = m.campaign.id
  /\ s2[k] # NoTrade
  /\ Sound(m, l, s2, u, b)

\* The fill of an undecided unit.
LEMMA FillSound ==
  ASSUME NEW m, NEW l, NEW s \in [Ks -> Trades], NEW u \in SUBSET Ks, NEW b \in SUBSET Held(s),
         Sound(m, l, s, u, b), NEW k \in Ks, s[k] = NoTrade,
         HasUnit(m, k), m.campaign.units[k].origin = "paper",
         NEW t \in Trades, t # NoTrade, t.id = m.campaign.id, t.side = m.campaign.side,
         NEW s2, Fills(s, s2, k, t)
  PROVE  Filled(m, l, s, u, b, k, s2)
<1>1. m \in Machines /\ Occupied(m) /\ m.campaign \in Campaigns /\ k \in DOMAIN m.campaign.units
  BY MachineFacts DEF HasUnit, Sound, Rested
<1>4. s2 \in [Ks -> Trades] /\ s2[k] = t /\ \A j \in Ks : j # k => s2[j] = s[j]
  BY DEF Fills
<1>5. Held(s2) = Held(s) \cup {k} /\ k \notin Held(s) /\ \A j \in Held(s) : s2[j] = s[j]
  BY <1>4 DEF Held
<1>6. \A j \in Held(s2) : Matches(s2[j], m.campaign)
  BY <1>1, <1>4, <1>5 DEF Sound, Matches
<1>7. ~IsOf(m, "historical") /\ (IsOf(m, "paper") => k = 0)
  BY <1>1 DEF IsOf, Sound, Rested
<1>8. \A j \in b : Leaving(m, l, s2, j)
  BY <1>5 DEF Sound, Leaving
<1>9. Sound(m, l, s2, u, b)
  BY <1>1, <1>5, <1>6, <1>7, <1>8 DEF Sound
<1> QED
  BY <1>4, <1>5, <1>6, <1>9 DEF Matches, Filled

-----------------------------------------------------------------------------
(* What the handlers of a submitted bar do.                                *)

LEMMA PlannedTail ==
  ASSUME NEW q \in Seq(Intents), q # <<>>, Head(q).kind = "exit",
         NEW m, NEW l, NEW n, NEW f, NEW s, Planned(q, m, l, n, f, s)
  PROVE  /\ Tail(q) \in Seq(Intents) /\ Planned(Tail(q), m, l, n, f, s)
         /\ q[Len(q)].kind = "entry" <=> Tail(q) # <<>> /\ Tail(q)[Len(Tail(q))].kind = "entry"
         /\ Tail(q) # <<>> => Tail(q)[Len(Tail(q))] = q[Len(q)]
<1> DEFINE r == Tail(q)
<1>1. /\ r \in Seq(Intents) /\ Len(q) \in Nat \ {0} /\ Len(r) = Len(q) - 1
      /\ DOMAIN q = 1 .. Len(q) /\ DOMAIN r = 1 .. Len(r)
      /\ \A i \in 1 .. Len(r) : r[i] = q[i + 1]
      /\ q[1].kind = "exit" /\ (r = <<>> <=> Len(r) = 0)
  <2>1. r \in Seq(Intents) /\ Len(q) \in Nat /\ Len(q) # 0 /\ Len(r) = Len(q) - 1
    OBVIOUS
  <2>2. DOMAIN q = 1 .. Len(q) /\ DOMAIN r = 1 .. Len(r) /\ \A i \in 1 .. Len(r) : r[i] = q[i + 1]
    OBVIOUS
  <2>3. r = <<>> <=> Len(r) = 0
    <3> HIDE DEF r
    <3> QED
      BY <2>1
  <2>4. q[1].kind = "exit"
    OBVIOUS
  <2> QED
    BY <2>1, <2>2, <2>3, <2>4
<1> HIDE DEF r
<1>2. /\ Len(r) \in Nat /\ Len(r) # 0 => Len(q) \in DOMAIN q /\ r[Len(r)] = q[Len(q)]
      /\ Len(r) = 0 => q[Len(q)].kind = "exit"
  BY <1>1
<1>3. \A i \in DOMAIN r : i + 1 \in DOMAIN q /\ r[i] = q[i + 1] /\ (i + 1 = Len(q) => i = Len(r))
  BY <1>1
<1>4. \A i \in DOMAIN r : r[i].kind = "exit" => ExitWell(r[i], m, l, n, f, s)
  BY <1>3 DEF Planned
<1>5. \A i \in DOMAIN r : r[i].kind = "entry" => i = Len(r) /\ EntryWell(r[i], m, l, n, f)
  BY <1>3 DEF Planned
<1>6. q[Len(q)].kind = "entry" <=> r # <<>> /\ r[Len(r)].kind = "entry"
  BY <1>1, <1>2
<1>7. Planned(r, m, l, n, f, s)
  <2>1. ASSUME Occupied(m), NEW k \in DOMAIN m.campaign.units, m.campaign.units[k].origin = "paper"
        PROVE  r # <<>> /\ r[Len(r)].kind = "entry" /\ r[Len(r)].k = k
    <3>1. q[Len(q)].kind = "entry" /\ q[Len(q)].k = k
      BY <2>1 DEF Planned
    <3> QED
      BY <1>1, <1>2, <1>6, <3>1
  <2> QED
    BY <1>4, <1>5, <2>1 DEF Planned
<1> QED
  BY <1>1, <1>2, <1>6, <1>7 DEF r

\* An exit of what is still held leaves nothing to enter.
LEMMA NoEntries ==
  ASSUME NEW q \in Seq(Intents), q # <<>>, Head(q).kind = "exit",
         NEW m, NEW l, NEW n, NEW f, NEW s, Planned(q, m, l, n, f, s), Head(q).k \in Held(s)
  PROVE  /\ ExitWell(Head(q), m, l, n, f, s)
         /\ \A i \in DOMAIN q : q[i].kind # "entry"
<1>1. q[1] = Head(q) /\ 1 \in DOMAIN q
  OBVIOUS
<1>2. ExitWell(q[1], m, l, n, f, s)
  BY <1>1 DEF Planned
<1>3. ASSUME NEW i \in DOMAIN q, q[i].kind = "entry" PROVE FALSE
  <2>1. EntryWell(q[i], m, l, n, f)
    BY <1>3 DEF Planned
  <2>2. Occupied(m) /\ (IsOf(m, "live") => l.aborting = {})
    BY <2>1 DEF EntryWell, HasUnit
  <2> QED
    BY <1>1, <1>2, <2>2 DEF ExitWell
<1> QED
  BY <1>1, <1>2, <1>3

ExitDone(m, l, n, f, i) ==
  /\ Occupied(n) <=> Occupied(m)
  /\ Occupied(m) => Trims(m, n, {i.k})
  /\ ~Occupied(m) => n = m
  /\ f.urgent = l.urgent /\ f.reversal = l.reversal
  /\ \A k \in l.aborting : k # i.k => k \in f.aborting

LEMMA ExitReportedSound ==
  ASSUME NEW m, NEW l, NEW s \in [Ks -> Trades], NEW b \in SUBSET Held(s), Sound(m, l, s, {}, b),
         NEW i, i.k \in Held(s), i.abort \in BOOLEAN, NEW n, NEW f, ExitWell(i, m, l, n, f, s),
         NEW s2, Frees(s, s2, {i.k}),
         NEW v, v = ExitReported(m, l, i)
  PROVE  /\ v.ok /\ v.out = <<>> /\ Sound(v.model, v.live, s2, {}, b \ {i.k})
         /\ Shrinks(m, l, v.model, v.live) /\ ExitDone(m, l, v.model, v.live, i)
<1> DEFINE k == i.k
           c1 == l.closing \ {k}
           a1 == l.aborting \ {k}
           done == [l EXCEPT !.closing = c1]
           gone1 == [done EXCEPT !.aborting = a1]
           o == IF HasUnit(m, k) THEN ForgetClosedChild(m, k) ELSE m
<1>1. /\ m \in Machines /\ l \in Adapters /\ l.closing \subseteq Ks /\ l.aborting \subseteq Ks
      /\ k \in Ks /\ k \in Held(s)
  BY IdleFields, AdapterFacts, TradeFacts
<1>2. /\ s2 \in [Ks -> Trades] /\ Held(s2) = Held(s) \ {k} /\ \A j \in Held(s2) : s2[j] = s[j]
  BY DEF Frees
<1>3. /\ done \in Adapters /\ done.closing = l.closing \ {k} /\ done.aborting = l.aborting
      /\ done.urgent = l.urgent /\ done.reversal = l.reversal
  <2>1. c1 \in SUBSET Ks
    BY <1>1
  <2> HIDE DEF c1
  <2>2. done \in Adapters /\ done.closing = c1 /\ done.aborting = l.aborting
        /\ done.urgent = l.urgent /\ done.reversal = l.reversal
    BY <1>1, <2>1 DEF Adapters
  <2> QED
    BY <2>2 DEF c1
<1>4. /\ gone1 \in Adapters /\ gone1.closing = l.closing \ {k} /\ gone1.aborting = l.aborting \ {k}
      /\ gone1.urgent = l.urgent /\ gone1.reversal = l.reversal
  <2>1. a1 \in SUBSET Ks
    BY <1>1
  <2> HIDE DEF done, a1
  <2>2. gone1 \in Adapters /\ gone1.closing = done.closing /\ gone1.aborting = a1
        /\ gone1.urgent = done.urgent /\ gone1.reversal = done.reversal
    BY <1>3, <2>1 DEF Adapters
  <2> QED
    BY <1>3, <2>2 DEF a1
<1>5. v = IF i.abort THEN Quiet(o, gone1) ELSE Quiet(m, done)
  <2>1. done.aborting = l.aborting
    BY <1>3
  <2> QED
    BY <2>1 DEF ExitReported
<1>6. CASE ~Occupied(m)
  <2>1. v.ok /\ v.out = <<>> /\ v.model = m /\ v.live \in {done, gone1}
    <3>1. o = m
      BY <1>6 DEF HasUnit
    <3> HIDE DEF o, done, gone1
    <3> QED
      BY <1>5, <3>1, QuietFields
  <2> DEFINE g == v.live
             b2 == b \ {k}
             u == {}
  <2>2. /\ g \in Adapters /\ g.closing = l.closing \ {k} /\ l.aborting \ {k} \subseteq g.aborting
        /\ g.aborting \subseteq l.aborting /\ g.urgent = l.urgent /\ g.reversal = l.reversal
    <3> HIDE DEF done, gone1
    <3> QED
      BY <1>3, <1>4, <2>1
  <2> HIDE DEF g, b2, u
  <2>3. Held(s2) \subseteq g.closing /\ 0 \notin g.aborting
    BY <1>2, <1>6, <2>2 DEF Sound
  <2>4. Sound(m, g, s2, u, b2)
    <3>1. m.exit = "none" /\ (g.reversal # NoReversal =>
              g.reversal.id <= m.day /\ g.reversal.at = Minute(g.reversal.id, 0))
      BY <2>2, IdleFields
    <3> QED
      BY <1>1, <1>6, <2>2, <2>3, <3>1, IdleSound
  <2>5. Shrinks(m, l, m, g)
    BY <1>6, <2>2 DEF Shrinks
  <2>6. ExitDone(m, l, m, g, i)
    BY <1>6, <2>2 DEF ExitDone, k
  <2> QED
    BY <2>1, <2>4, <2>5, <2>6 DEF g, b2, u, k
<1>7. CASE Occupied(m)
  <2>1. IsOf(m, "live") /\ i.abort /\ k \in l.aborting /\ k # 0
    BY <1>1, <1>7 DEF ExitWell
  <2>2. k \in DOMAIN m.campaign.units /\ 0 \in Held(s) /\ l.closing = {}
    BY <1>1, <1>7, <2>1 DEF Sound
  <2>3. o = [m EXCEPT !.campaign = WithoutUnits(@, {k})]
    BY <1>7, <2>2 DEF HasUnit, ForgetClosedChild
  <2>4. v.ok /\ v.out = <<>> /\ v.model = o /\ v.live = gone1
    <3> HIDE DEF o, gone1
    <3> QED
      BY <1>5, <2>1, QuietFields
  <2> DEFINE ds == {k}
  <2>5. Trims(m, o, ds)
    BY <1>1, <1>7, <2>3, TrimsFacts
  <2> DEFINE b2 == b \ {k}
  <2>6. ds = {k}
    OBVIOUS
  <2> HIDE DEF ds, o, gone1
  <2>7. \A j \in DOMAIN m.campaign.units \ {0} :
          m.campaign.units[j].origin # "paper" => j \in Held(s) \cup l.aborting
    BY <2>1 DEF Sound
  <2>8. Departs(m, l, s, {}, b, ds, gone1, s2, {}, b2)
    BY <1>2, <1>4, <2>1, <2>2, <2>6, <2>7 DEF Departs
  <2> HIDE DEF b2, k
  <2>9. Sound(o, gone1, s2, {}, b2) /\ Shrinks(m, l, o, gone1)
    BY <1>2, <1>4, <1>7, <2>5, <2>8, TrimSound
  <2>10. ExitDone(m, l, o, gone1, i)
    <3>1. Occupied(o)
      BY <2>5 DEF Trims
    <3> QED
      BY <1>4, <1>7, <2>5, <2>6, <3>1 DEF ExitDone, k
  <2> QED
    BY <2>4, <2>9, <2>10 DEF b2, k
<1> QED
  BY <1>6, <1>7

\* What is left to submit after a close.
LEMMA PlannedClosed ==
  ASSUME NEW q, NEW m, NEW l, NEW n, NEW f, NEW s, Planned(q, m, l, n, f, s), q \in Seq(Intents),
         \A j \in DOMAIN q : q[j].kind # "entry",
         NEW i, NEW o, NEW g, ExitDone(m, l, o, g, i),
         NEW s2, Frees(s, s2, {i.k})
  PROVE  Planned(q, o, g, n, f, s2)
<1>1. Occupied(o) => /\ Occupied(m) /\ o.campaign.origin = m.campaign.origin
                     /\ \A k \in DOMAIN o.campaign.units :
                          k \in DOMAIN m.campaign.units /\ o.campaign.units[k] = m.campaign.units[k]
  BY DEF ExitDone, Trims
<1>2. ASSUME Occupied(o), NEW k \in DOMAIN o.campaign.units, o.campaign.units[k].origin = "paper"
      PROVE  FALSE
  <2>1. q # <<>> /\ q[Len(q)].kind = "entry"
    BY <1>1, <1>2 DEF Planned
  <2>2. Len(q) \in DOMAIN q
    BY <2>1
  <2> QED
    BY <2>1, <2>2
<1>3. ASSUME NEW j \in DOMAIN q, q[j].kind = "exit"
      PROVE  ExitWell(q[j], o, g, n, f, s2)
  <2>1. ExitWell(q[j], m, l, n, f, s)
    BY <1>3 DEF Planned
  <2>2. ASSUME q[j].k \in Held(s2)
        PROVE  /\ Leaving(n, f, s2, q[j].k)
               /\ Occupied(o) => IsOf(o, "live") /\ q[j].abort /\ q[j].k \in g.aborting
    <3>1. q[j].k \in Held(s) /\ q[j].k # i.k /\ s2[q[j].k] = s[q[j].k]
      BY <2>2 DEF Frees
    <3>2. Leaving(n, f, s, q[j].k)
      BY <2>1, <3>1 DEF ExitWell
    <3>3. Leaving(n, f, s2, q[j].k)
      BY <3>1, <3>2 DEF Leaving
    <3>4. Occupied(o) => IsOf(o, "live") /\ q[j].abort /\ q[j].k \in g.aborting
      BY <1>1, <2>1, <3>1 DEF ExitWell, IsOf, ExitDone
    <3> QED
      BY <3>3, <3>4
  <2> QED
    BY <2>1, <2>2 DEF ExitWell
<1> QED
  BY <1>2, <1>3 DEF Planned

LEMMA EntryFacts ==
  ASSUME NEW m, NEW l, NEW s, NEW u, NEW b, Sound(m, l, s, u, b),
         NEW i \in Intents, i.kind = "entry", NEW n, NEW f, EntryWell(i, m, l, n, f)
  PROVE  /\ i.k \in Ks /\ HasUnit(m, i.k) /\ m.campaign.units[i.k].origin = "paper"
         /\ i.id = m.campaign.id /\ i.side = m.campaign.side /\ n = m /\ f = l
         /\ i.k = 0 => IsOf(m, "paper")
         /\ i.k # 0 => IsOf(m, "live") /\ l.aborting = {} /\ IsLatestUnfilled(m, i.k)
<1>1. i.k \in Ks
  BY DEF Intents
<1>2. /\ HasUnit(m, i.k) /\ m.campaign.units[i.k].origin = "paper"
      /\ i.id = m.campaign.id /\ i.side = m.campaign.side /\ n = m /\ f = l
      /\ IsOf(m, "live") => l.aborting = {}
  BY DEF EntryWell
<1> DEFINE k == i.k
<1>3. k \in Ks /\ HasUnit(m, k) /\ m.campaign.units[k].origin = "paper"
  BY <1>1, <1>2
<1> HIDE DEF k
<1>4. /\ k = 0 => IsOf(m, "paper")
      /\ k # 0 => IsOf(m, "live") /\ IsLatestUnfilled(m, k)
  BY <1>3, PaperFacts
<1> QED
  BY <1>1, <1>2, <1>4 DEF k

NoPapers(m) ==
  Occupied(m) => \A k \in DOMAIN m.campaign.units : m.campaign.units[k].origin # "paper"

\* What on_order_result leaves of (m, l) for a fill.
Reports(m, l, s, b, v) ==
  /\ v.ok /\ Sound(v.model, v.live, s, {}, b) /\ Shrinks(m, l, v.model, v.live)
  /\ NoPapers(v.model) /\ v.live.urgent = l.urgent
  /\ v.out \in Seq(Intents) /\ \A j \in DOMAIN v.out : v.out[j].kind # "entry"
  /\ Planned(v.out, v.model, v.live, m, l, s)

\* on_order_result for a fill raises on no sound ladder.
LEMMA FillReportedSound ==
  ASSUME NEW m, NEW l, NEW s \in [Ks -> Trades], NEW b \in SUBSET Held(s), Sound(m, l, s, {}, b),
         NEW i \in Intents, i.kind = "entry", EntryWell(i, m, l, m, l), i.k \in Held(s),
         NEW v, v = EntryReported(m, l, i, s[i.k].far)
  PROVE  Reports(m, l, s, b, v)
<1> DEFINE k == i.k
           far == s[k].far
           n == ConfirmOwnedFill(m, k, far)
           f == IF k = 0 THEN [l EXCEPT !.reversal = NoReversal] ELSE Marked(n, l)
           out == IF k \in f.aborting THEN <<ExitOf(k, TRUE)>> ELSE <<>>
<1>1. /\ k \in Ks /\ HasUnit(m, k) /\ m.campaign.units[k].origin = "paper" /\ k \in Held(s)
      /\ k = 0 => IsOf(m, "paper")
      /\ k # 0 => IsOf(m, "live") /\ l.aborting = {} /\ IsLatestUnfilled(m, k)
  <2> HIDE DEF k
  <2> QED
    BY EntryFacts DEF k
<1>2. far \in BOOLEAN /\ m \in Machines /\ l \in Adapters /\ 0 \notin l.aborting
  BY <1>1, TradeFacts, IdleFields
<1>3. v = Verdict(n, f, out, TRUE)
  BY <1>1 DEF EntryReported
<1> HIDE DEF far, k
<1>4. /\ n \in Machines /\ Occupied(n) /\ n.campaign.origin = IF k = 0 THEN "live" ELSE m.campaign.origin
      /\ DOMAIN n.campaign.units = DOMAIN m.campaign.units
      /\ n.campaign.units[k].origin = "live" /\ n.campaign.units[k].far = far
  BY <1>1, <1>2, ConfirmFacts
<1> HIDE DEF n
<1>5. /\ Confirms(l, s, k, far, f) /\ f.urgent = l.urgent
      /\ k \in f.aborting => k # 0 /\ far
  <2>1. CASE k = 0
    <3>1. f = [l EXCEPT !.reversal = NoReversal]
      BY <2>1
    <3>2. /\ f \in Adapters /\ f.closing = l.closing /\ f.aborting = l.aborting /\ f.urgent = l.urgent
          /\ f.reversal = NoReversal
      BY <1>2, <3>1, SetFields DEF Adapters
    <3> HIDE DEF f
    <3> QED
      BY <1>2, <2>1, <3>2 DEF Confirms
  <2>2. CASE k # 0
    <3>1. f = Marked(n, l)
      BY <2>2
    <3> HIDE DEF f
    <3>2. /\ f \in Adapters /\ f.urgent = l.urgent /\ f.closing = l.closing /\ f.reversal = l.reversal
          /\ l.aborting \subseteq f.aborting
          /\ \A j \in Ks : j \in f.aborting <=> j \in l.aborting \/ j \in OutOfRange(n)
      BY <1>2, <1>4, <3>1, MarkedFacts
    <3>3. k \in OutOfRange(n) <=> far
      BY <1>1, <1>2, <1>4, <2>2 DEF OutOfRange, HasUnit, IsOf
    <3>4. 0 \notin f.aborting
      <4>1. 0 \notin OutOfRange(n)
        BY DEF OutOfRange
      <4> QED
        BY <1>2, <3>2, <4>1, SlotSets
    <3> QED
      BY <1>1, <1>2, <2>2, <3>2, <3>3, <3>4 DEF Confirms, far
  <2> QED
    BY <2>1, <2>2
<1> HIDE DEF f
<1>6. Sound(n, f, s, {}, b) /\ Shrinks(m, l, n, f) /\ AllLive(n, DOMAIN m.campaign.units)
  BY <1>1, <1>5, ConfirmSound DEF n
<1>7. NoPapers(n) /\ IsOf(n, "live")
  BY <1>6 DEF NoPapers, AllLive
<1>8. /\ out \in Seq(Intents) /\ \A j \in DOMAIN out : out[j] = ExitOf(k, TRUE) /\ k \in f.aborting
  <2>1. ExitOf(k, TRUE) \in Intents
    BY <1>1 DEF ExitOf, Intents
  <2> DEFINE x == ExitOf(k, TRUE)
  <2>0. x \in Intents
    BY <2>1
  <2> HIDE DEF x
  <2>2. CASE k \in f.aborting
    <3>1. out = <<x>>
      BY <2>2 DEF x
    <3>2. <<x>> \in Seq(Intents) /\ \A j \in DOMAIN <<x>> : <<x>>[j] = x
      BY <2>0
    <3> QED
      BY <2>2, <3>1, <3>2 DEF x
  <2>3. CASE k \notin f.aborting
    <3>1. out = <<>>
      BY <2>3
    <3> HIDE DEF out
    <3> QED
      BY <3>1
  <2> QED
    BY <2>2, <2>3
<1> HIDE DEF out
<1>9. /\ ExitOf(k, TRUE).kind = "exit" /\ ExitOf(k, TRUE).k = k /\ ExitOf(k, TRUE).abort = TRUE
  BY DEF ExitOf
<1>10. ASSUME k \in f.aborting PROVE ExitWell(ExitOf(k, TRUE), n, f, m, l, s)
  <2>1. k # 0 /\ far /\ IsOf(m, "live")
    BY <1>1, <1>5, <1>10
  <2>2. Leaving(m, l, s, k)
    BY <1>1, <2>1 DEF Leaving, far
  <2> QED
    BY <1>7, <1>9, <1>10, <2>1, <2>2 DEF ExitWell
<1>11. Planned(out, n, f, m, l, s)
  BY <1>7, <1>8, <1>9, <1>10 DEF Planned, NoPapers
<1>12. v.ok /\ v.model = n /\ v.live = f /\ v.out = out
  BY <1>3 DEF Verdict
<1> QED
  BY <1>5, <1>6, <1>7, <1>8, <1>9, <1>11, <1>12 DEF Reports

\* on_order_result for an entry that did not fill raises on no sound ladder.
LEMMA UndoneSound ==
  ASSUME NEW m, NEW l, NEW s \in [Ks -> Trades], NEW b \in SUBSET Held(s), Sound(m, l, s, {}, b),
         NEW i \in Intents, i.kind = "entry", EntryWell(i, m, l, m, l), i.k \notin Held(s),
         NEW v, v = Undone(m, l, i.k, i.id)
  PROVE  /\ v.ok /\ Sound(v.model, v.live, s, {}, b) /\ Shrinks(m, l, v.model, v.live)
         /\ NoPapers(v.model) /\ v.live.urgent = l.urgent /\ v.out = <<>>
<1> DEFINE k == i.k
<1>1. /\ k \in Ks /\ HasUnit(m, k) /\ m.campaign.units[k].origin = "paper" /\ k \notin Held(s)
      /\ i.id = m.campaign.id
      /\ k = 0 => IsOf(m, "paper")
      /\ k # 0 => IsOf(m, "live") /\ l.aborting = {} /\ IsLatestUnfilled(m, k)
  <2> HIDE DEF k
  <2> QED
    BY EntryFacts DEF k
<1>2. v = IF k = 0 THEN AbandonParent(m, l, m.campaign.id)
          ELSE IF IsLatestUnfilled(m, k) THEN Quiet(DiscardUnfilledAddon(m, k), l)
          ELSE Raises(m, l)
  BY <1>1 DEF Undone
<1> HIDE DEF k
<1>3. CASE k = 0
  <2>1. v = AbandonParent(m, l, m.campaign.id)
    BY <1>2, <1>3
  <2>2. 0 \notin Held(s) /\ IsOf(m, "paper")
    BY <1>1, <1>3
  <2> DEFINE u == {}
  <2>3. Sound(m, l, s, u, b)
    OBVIOUS
  <2> HIDE DEF u
  <2>4. /\ v.ok /\ Sound(v.model, v.live, s, u, b) /\ Shrinks(m, l, v.model, v.live)
        /\ v.out = <<>> /\ ~Occupied(v.model) /\ v.live.urgent = l.urgent
    BY <2>1, <2>2, <2>3, AbandonSound
  <2> QED
    BY <2>4 DEF NoPapers, u
<1>4. CASE k # 0
  <2> DEFINE n == DiscardUnfilledAddon(m, k)
             u == {}
  <2>1. v = Quiet(n, l)
    BY <1>1, <1>2, <1>4
  <2>2. u \in SUBSET Ks /\ Sound(m, l, s, u, b) /\ k \notin Held(s) \cup u
    BY <1>1
  <2> HIDE DEF u
  <2>3. Sound(n, l, s, u, b) /\ Shrinks(m, l, n, l) /\ AllLive(n, DOMAIN m.campaign.units \ {k})
    BY <1>1, <1>4, <2>2, DiscardSound
  <2>4. v.ok /\ v.model = n /\ v.live = l /\ v.out = <<>>
    <3> HIDE DEF n
    <3> QED
      BY <2>1, QuietFields
  <2>5. NoPapers(n)
    BY <2>3 DEF NoPapers, AllLive
  <2> QED
    BY <2>3, <2>4, <2>5 DEF u
<1> QED
  BY <1>3, <1>4

\* A restart: the aborts that are done are settled, the closes u are told, the ladder starts.
LEMMA BootSound ==
  ASSUME NEW m, NEW l, NEW s \in [Ks -> Trades], NEW u \in SUBSET Ks, NEW b \in SUBSET Held(s),
         Sound(m, l, s, u, b), u \cap Held(s) = {}, l.urgent = {},
         NEW w, w = Settled(m, l, Held(s)),
         NEW h, h = Told(w.model, w.live, u, Held(s)), h.ok,
         NEW v, v = Started(h.model, h.live, s)
  PROVE  /\ Sound(h.model, h.live, s, {}, b) /\ Shrinks(m, l, h.model, h.live)
         /\ StartedWell(h.model, h.live, s, b, v)
         /\ u = {} => h.model = w.model /\ h.live = w.live
         /\ Shrinks(m, l, w.model, w.live)
<1> DEFINE p == Held(s)
<1>1. m \in Machines /\ l \in Adapters /\ p \in SUBSET Ks /\ 0 \notin l.aborting
      /\ (Occupied(m) => 0 \in DOMAIN m.campaign.units)
  BY IdleFields, TradeFacts DEF Sound, Rested
<1>2. w = Settled(m, l, p) /\ h = Told(w.model, w.live, u, p)
  OBVIOUS
<1> HIDE DEF p
<1>3. /\ w.model \in Machines /\ w.live \in Adapters
      /\ w.live.closing = l.closing \cap p
      /\ w.live.aborting = l.aborting \cap p
      /\ ~Occupied(m) => w.model = m
      /\ Occupied(m) => Trims(m, w.model, Flat(m, l, p))
  BY <1>1, <1>2, SettledFacts
<1>4. Occupied(w.model) <=> Occupied(m)
  BY <1>3 DEF Trims
<1>5. Occupied(w.model) => 0 \in DOMAIN w.model.campaign.units
  BY <1>1, <1>3, <1>4 DEF Trims, Flat
<1>6. u \subseteq Answerable(w.model, w.live)
  <2> DEFINE o == w.model
             g == w.live
  <2>1. o \in Machines /\ g \in Adapters /\ (Occupied(o) => 0 \in DOMAIN o.campaign.units)
        /\ h = Told(o, g, u, p)
    BY <1>2, <1>3, <1>5
  <2> HIDE DEF o, g
  <2>2. h.ok <=> u \subseteq Answerable(o, g)
    BY <1>1, <2>1, ToldFacts
  <2> QED
    BY <2>2 DEF o, g
<1>7. Occupied(m) => u \cap l.aborting = {}
  <2> SUFFICES ASSUME Occupied(m), NEW k \in u, k \in l.aborting PROVE FALSE
    OBVIOUS
  <2>1. k \in DOMAIN w.model.campaign.units /\ k \notin p
    BY <1>4, <1>6 DEF Answerable, p
  <2> QED
    BY <1>3, <2>1 DEF Trims, Flat
<1>8. /\ Sound(w.model, w.live, s, u, b) /\ Shrinks(m, l, w.model, w.live)
      /\ w.live.urgent = {}
  BY <1>7, SettledSound
<1>9. /\ Sound(h.model, h.live, s, {}, b) /\ Shrinks(w.model, w.live, h.model, h.live)
      /\ ~Occupied(w.model) => h.model = w.model /\ h.live.closing = w.live.closing \ u
                               /\ h.live.aborting = w.live.aborting /\ h.live.urgent = w.live.urgent
      /\ Occupied(w.model) /\ 0 \notin u =>
              h.live.closing = w.live.closing
              /\ h.live.aborting = w.live.aborting \ u /\ h.live.urgent = w.live.urgent
      /\ Occupied(w.model) /\ 0 \in u =>
              ~Occupied(h.model) /\ h.live.closing = p
              /\ h.live.aborting = w.live.aborting \ (u \ {0})
  BY <1>6, <1>8, ToldSound DEF p
<1>10. /\ h.live.closing \subseteq p /\ h.live.aborting \subseteq p
       /\ Occupied(h.model) => h.live.urgent = {}
  BY <1>3, <1>8, <1>9
<1>11. StartedWell(h.model, h.live, s, b, v)
  BY <1>9, <1>10, StartedSound DEF p
<1>12. Shrinks(m, l, h.model, h.live)
  BY <1>8, <1>9, ShrinkTwice
<1>13. u = {} => h.model = w.model /\ h.live = w.live
  <2> SUFFICES ASSUME u = {} PROVE h.model = w.model /\ h.live = w.live
    OBVIOUS
  <2>1. h = Quiet(HeardModel(w.model, u), HeardLive(w.model, w.live, u))
    BY <1>1, <1>2, <1>3, <1>5, ToldFacts
  <2>2. HeardModel(w.model, u) = w.model
    <3>1. CASE Occupied(w.model)
      <4>1. w.model.campaign \in Campaigns
        BY <1>3, <3>1, MachineFacts
      <4>2. WithoutUnits(w.model.campaign, u) = w.model.campaign
        BY <4>1, WithoutNothing
      <4>3. HeardModel(w.model, u) = [w.model EXCEPT !.campaign = w.model.campaign]
        BY <3>1, <4>2 DEF HeardModel
      <4>4. w.model = [campaign |-> w.model.campaign, exit |-> w.model.exit,
                       candidate |-> w.model.candidate, day |-> w.model.day,
                       verified |-> w.model.verified, funded |-> w.model.funded]
        BY <1>3, MachineFacts
      <4> QED
        BY <1>3, <4>3 DEF Machines
    <3>2. CASE ~Occupied(w.model)
      BY <3>2 DEF HeardModel
    <3> QED
      BY <3>1, <3>2
  <2>3. HeardLive(w.model, w.live, u) = w.live
    <3>1. HeardLive(w.model, w.live, u) =
            IF Occupied(w.model) THEN [w.live EXCEPT !.aborting = w.live.aborting]
            ELSE [w.live EXCEPT !.closing = w.live.closing]
      <4>1. w.live.aborting \ u = w.live.aborting /\ w.live.closing \ u = w.live.closing
        OBVIOUS
      <4> QED
        BY <4>1 DEF HeardLive
    <3> QED
      BY <1>3, <3>1 DEF Adapters
  <2> QED
    BY <2>1, <2>2, <2>3, QuietFields
<1> QED
  BY <1>8, <1>9, <1>11, <1>12, <1>13

-----------------------------------------------------------------------------
(* The intents of a bar.                                                   *)

LEMMA ExitsFacts ==
  ASSUME NEW ks \in SUBSET Ks, NEW a \in BOOLEAN, NEW q, q = ExitsOf(ks, a)
  PROVE  /\ q \in Seq(Intents)
         /\ \A i \in DOMAIN q : q[i].kind = "exit" /\ q[i].k \in ks /\ q[i].abort = a
<1> DEFINE n == Cardinality(ks)
           o == InOrder(ks)
<1>1. n \in Nat /\ o \in [1 .. n -> ks]
  BY InOrderFacts
<1>2. q = [i \in 1 .. n |-> ExitOf(o[i], a)]
  BY DEF ExitsOf
<1> HIDE DEF n, o
<1>3. \A k \in Ks : ExitOf(k, a) \in Intents
  BY DEF ExitOf, Intents
<1>4. \A i \in 1 .. n : ExitOf(o[i], a) \in Intents /\ o[i] \in ks
  BY <1>1, <1>3
<1>5. q \in [1 .. n -> Intents]
  BY <1>2, <1>4
<1>6. q \in Seq(Intents) /\ DOMAIN q = 1 .. n
  BY <1>1, <1>5
<1>7. \A i \in 1 .. n : q[i].kind = "exit" /\ q[i].k \in ks /\ q[i].abort = a
  BY <1>2, <1>4 DEF ExitOf
<1> QED
  BY <1>6, <1>7

\* Nothing but exits of what is leaving.
OnlyExits(q, m, l, n, f, s) ==
  q \in Seq(Intents) /\ \A i \in DOMAIN q : q[i].kind = "exit" /\ ExitWell(q[i], m, l, n, f, s)

Entering(q) == q # <<>> /\ q[Len(q)].kind = "entry"

\* The plan o ends as the plan r does.
SameEnd(o, r) == (Entering(o) <=> Entering(r)) /\ (Entering(o) => o[Len(o)] = r[Len(r)])

LEMMA PlannedJoin ==
  ASSUME NEW q, NEW r \in Seq(Intents), NEW m, NEW l, NEW n, NEW f, NEW s,
         OnlyExits(q, m, l, n, f, s), Planned(r, m, l, n, f, s),
         NEW o, o = q \o r
  PROVE  /\ o \in Seq(Intents) /\ Planned(o, m, l, n, f, s)
         /\ SameEnd(o, r)
         /\ o = <<>> => q = <<>> /\ r = <<>>
<1>0. q \in Seq(Intents) /\ \A i \in DOMAIN q : q[i].kind = "exit" /\ ExitWell(q[i], m, l, n, f, s)
  BY DEF OnlyExits
<1>1. /\ o \in Seq(Intents) /\ Len(o) = Len(q) + Len(r)
      /\ \A i \in 1 .. Len(q) + Len(r) : o[i] = IF i <= Len(q) THEN q[i] ELSE r[i - Len(q)]
  BY <1>0, ConcatProperties
<1>2. /\ Len(q) \in Nat /\ Len(r) \in Nat /\ DOMAIN q = 1 .. Len(q) /\ DOMAIN r = 1 .. Len(r)
      /\ DOMAIN o = 1 .. Len(q) + Len(r) /\ (r = <<>> <=> Len(r) = 0)
      /\ (q = <<>> <=> Len(q) = 0) /\ (o = <<>> <=> Len(o) = 0)
  BY <1>0, <1>1
<1>3. \A i \in DOMAIN o :
        \/ i \in DOMAIN q /\ o[i] = q[i]
        \/ i - Len(q) \in DOMAIN r /\ o[i] = r[i - Len(q)] /\ (i - Len(q) = Len(r) <=> i = Len(o))
  <2> DEFINE a == Len(q)
             c == Len(r)
  <2>0. a \in Nat /\ c \in Nat
    BY <1>2
  <2>1. SUFFICES ASSUME NEW i \in 1 .. a + c
                 PROVE  \/ i \in 1 .. a /\ o[i] = q[i]
                        \/ i - a \in 1 .. c /\ o[i] = r[i - a] /\ (i - a = c <=> i = a + c)
    BY <1>1, <1>2
  <2>2. o[i] = IF i <= a THEN q[i] ELSE r[i - a]
    BY <1>1
  <2> HIDE DEF a, c
  <2>3. CASE i <= a
    BY <2>0, <2>2, <2>3
  <2>4. CASE ~(i <= a)
    <3>1. i - a \in 1 .. c /\ (i - a = c <=> i = a + c)
      BY <2>0, <2>4
    <3> QED
      BY <2>2, <2>4, <3>1
  <2> QED
    BY <2>3, <2>4
<1>4. Len(r) # 0 => o[Len(o)] = r[Len(r)]
  BY <1>1, <1>2
<1>5. Len(r) = 0 /\ Len(q) # 0 => o[Len(o)].kind = "exit"
  BY <1>0, <1>1, <1>2
<1>6. Entering(o) <=> Entering(r)
  BY <1>1, <1>2, <1>4, <1>5 DEF Entering
<1>7. \A i \in DOMAIN o : o[i].kind = "exit" => ExitWell(o[i], m, l, n, f, s)
  BY <1>0, <1>3 DEF Planned
<1>8. \A i \in DOMAIN o : o[i].kind = "entry" => i = Len(o) /\ EntryWell(o[i], m, l, n, f)
  BY <1>0, <1>3 DEF Planned
<1>9. Planned(o, m, l, n, f, s)
  <2>1. ASSUME Occupied(m), NEW k \in DOMAIN m.campaign.units, m.campaign.units[k].origin = "paper"
        PROVE  o # <<>> /\ o[Len(o)].kind = "entry" /\ o[Len(o)].k = k
    <3>1. r # <<>> /\ r[Len(r)].kind = "entry" /\ r[Len(r)].k = k
      BY <2>1 DEF Planned
    <3> QED
      BY <1>1, <1>2, <1>4, <3>1
  <2> QED
    BY <1>7, <1>8, <2>1 DEF Planned
<1> QED
  BY <1>1, <1>2, <1>4, <1>6, <1>9 DEF Entering, SameEnd

\* Nothing to enter, and nothing undecided.
LEMMA PlannedNothing ==
  ASSUME NEW m, NEW l, NEW n, NEW f, NEW s, NoPapers(m)
  PROVE  Planned(<<>>, m, l, n, f, s) /\ <<>> \in Seq(Intents) /\ ~Entering(<<>>)
BY DEF Planned, NoPapers, Entering

LEMMA PlannedEntry ==
  ASSUME NEW i \in Intents, i.kind = "entry", NEW m, NEW l, NEW n, NEW f, NEW s,
         EntryWell(i, m, l, n, f),
         \A k \in DOMAIN m.campaign.units : m.campaign.units[k].origin = "paper" => k = i.k
  PROVE  /\ Planned(<<i>>, m, l, n, f, s) /\ <<i>> \in Seq(Intents) /\ Entering(<<i>>)
         /\ <<i>>[Len(<<i>>)] = i
<1>1. <<i>> \in Seq(Intents) /\ Len(<<i>>) = 1 /\ DOMAIN <<i>> = {1} /\ <<i>>[1] = i /\ <<i>> # <<>>
  OBVIOUS
<1> DEFINE q == <<i>>
<1>2. q \in Seq(Intents) /\ Len(q) = 1 /\ DOMAIN q = {1} /\ q[1] = i /\ q # <<>>
  BY <1>1
<1> HIDE DEF q
<1>3. Planned(q, m, l, n, f, s) /\ Entering(q) /\ q[Len(q)] = i
  BY <1>2 DEF Planned, Entering
<1> QED
  BY <1>2, <1>3 DEF q

LEMMA BetweenPapers ==
  ASSUME NEW m, NEW l, NEW s, NEW u, NEW b, Sound(m, l, s, u, b), NEW h, NEW p, Between(m, l, h, p)
  PROVE  NoPapers(m)
<1> SUFFICES ASSUME Occupied(m), NEW k \in DOMAIN m.campaign.units
             PROVE  m.campaign.units[k].origin # "paper"
  BY DEF NoPapers
<1>1. m \in Machines /\ m.campaign.origin \in Origins
  BY MachineFacts, CampaignFacts DEF Sound, Rested
<1>2. CASE IsOf(m, "live")
  BY <1>2 DEF Between
<1>3. CASE IsOf(m, "historical")
  BY <1>3 DEF Sound, Rested, IsOf
<1> QED
  BY <1>1, <1>2, <1>3 DEF Between, Origins, IsOf

-----------------------------------------------------------------------------
(* A new campaign, and prices.                                             *)

LEMMA NewFacts ==
  ASSUME NEW id \in Nat, NEW side \in Sides, NEW origin \in Origins,
         NEW c, c = NewCampaign(id, side, origin)
  PROVE  /\ c \in Campaigns /\ c.id = id /\ c.side = side /\ c.age = 0 /\ c.origin = origin
         /\ c.lifetime = 1 /\ DOMAIN c.units = {0} /\ c.units[0].origin = origin
<1> DEFINE us == [k \in {0} |-> Unit(origin, FALSE)]
<1>1. Unit(origin, FALSE) \in Units /\ Unit(origin, FALSE).origin = origin
  BY DEF Unit, Units
<1>2. us \in [{0} -> Units] /\ us[0].origin = origin /\ DOMAIN us = {0}
  BY <1>1
<1>3. c = [id |-> id, side |-> side, age |-> 0, origin |-> origin, lifetime |-> 1, units |-> us]
  BY DEF NewCampaign
<1>4. {0} \in SUBSET Ks /\ 0 \in 0 .. MaxHold - 1 /\ 1 \in 1 .. MaxUnits
  BY SlotSets, MaxUnitsType, HoldType
<1> HIDE DEF us
<1>5. c \in Campaigns
  <2> DEFINE z == {0}
  <2>1. z \in SUBSET Ks /\ us \in [z -> Units]
    BY <1>2, <1>4
  <2> HIDE DEF z
  <2> QED
    BY <1>3, <1>4, <2>1, CampaignTyped
<1> QED
  BY <1>2, <1>3, <1>5

LEMMA PricedFacts ==
  ASSUME NEW m \in Machines, NEW r \in {{}, {0}}, NEW n, n = ObserveHistoricalPrices(m, r)
  PROVE  n = m \/ (IsOf(m, "historical") /\ n = Vacated(m))
<1>1. CASE ~Priced(m)
  BY <1>1 DEF ObserveHistoricalPrices
<1>2. CASE Priced(m) /\ 0 \in r
  BY <1>2 DEF ObserveHistoricalPrices, Priced
<1>3. CASE Priced(m) /\ 0 \notin r
  <2>1. r = {} /\ Occupied(m) /\ m.campaign \in Campaigns
    BY <1>3, MachineFacts DEF Priced, IsOf
  <2>2. WithoutUnits(m.campaign, r) = m.campaign
    BY <2>1, WithoutNothing
  <2>3. n = [m EXCEPT !.campaign = m.campaign]
    BY <1>3, <2>2 DEF ObserveHistoricalPrices
  <2> QED
    BY <2>3 DEF Machines
<1> QED
  BY <1>1, <1>2, <1>3

\* A liquidation level of a hypothetical campaign is reached: it is over.
\* n is m after a bar of unfunded prices: its hypothetical campaign may be over.
Prices(m, l, h, p, n) ==
  n = m \/ (~Occupied(n) /\ IsOf(m, "historical") /\ h = {} /\ p = {} /\ l.closing = {})

LEMMA PricedSound ==
  ASSUME NEW m, NEW l, NEW s, NEW u, NEW b, Sound(m, l, s, u, b), NEW h, NEW p, Between(m, l, h, p),
         NEW r \in {{}, {0}}, NEW n, n = ObserveHistoricalPrices(m, r)
  PROVE  /\ Sound(n, l, s, u, b) /\ Between(n, l, h, p) /\ Shrinks(m, l, n, l)
         /\ n.verified = m.verified /\ n.funded = m.funded
         /\ Prices(m, l, h, p, n)
<1>1. m \in Machines /\ l \in Adapters /\ m.exit = "none" /\ 0 \notin l.aborting
      /\ (l.reversal # NoReversal =>
            l.reversal.id <= m.day /\ l.reversal.at = Minute(l.reversal.id, 0))
  BY IdleFields
<1>2. CASE n = m
  BY <1>1, <1>2 DEF Shrinks, Prices
<1>3. CASE IsOf(m, "historical") /\ n = Vacated(m)
  <2>1. /\ n \in Machines /\ ~Occupied(n) /\ n.exit = "none" /\ n.day = m.day
        /\ n.verified = m.verified /\ n.funded = m.funded
    BY <1>1, <1>3, VacatedFacts
  <2>2. Occupied(m) /\ Held(s) = {} /\ l.closing = {} /\ h = {} /\ p = {}
    BY <1>3 DEF Sound, IsOf, Between
  <2>3. Sound(n, l, s, u, b)
    BY <1>1, <2>1, <2>2, IdleSound
  <2>4. Between(n, l, h, p)
    BY <2>1, <2>2 DEF Between, IsOf
  <2>5. Shrinks(m, l, n, l)
    BY <2>1 DEF Shrinks
  <2> QED
    BY <1>3, <2>1, <2>2, <2>3, <2>4, <2>5 DEF Prices
<1> QED
  BY <1>1, <1>2, <1>3, PricedFacts

-----------------------------------------------------------------------------
(* The pending reversal on a live bar.                                     *)

\* A verdict has these fields and no others.
Whole(v) == v = [model |-> v.model, live |-> v.live, out |-> v.out, ok |-> v.ok]

Stays(m, l, v) ==
  /\ v.model = m /\ v.out = <<>> /\ v.live.reversal \in {l.reversal, NoReversal}
  /\ v.live.closing = l.closing /\ v.live.aborting = l.aborting
Reenters(m, l, v) ==
  /\ ~Occupied(m) /\ mirror = {} /\ l.closing = {} /\ l.reversal # NoReversal /\ v.live = l
  /\ v.model = [m EXCEPT !.campaign = NewCampaign(l.reversal.id, l.reversal.side, "paper")]
  /\ v.out = <<EntryOf(0, l.reversal.id, l.reversal.side)>>

\* The window of the pending reversal is over.
Late(l, t) == l.reversal # NoReversal /\ t > l.reversal.at + Window

\* The pending reversal waits, is abandoned, or gets its campaign back.
LEMMA ReversalCases ==
  ASSUME NEW m, NEW l, NEW s, NEW b, Sound(m, l, s, {}, b), NEW h, Between(m, l, h, mirror),
         NEW t, NEW v, v = ReversalAt(m, l, t)
  PROVE  /\ v.ok /\ v.live \in Adapters /\ v.live.urgent = l.urgent
         /\ Whole(v)
         /\ Stays(m, l, v) \/ Reenters(m, l, v)
         /\ Late(l, t) =>
              Stays(m, l, v) /\ v.live.reversal = NoReversal
<1>1. m \in Machines /\ l \in Adapters /\ Waits(m, l) /\ ~IsOf(m, "paper")
  BY DEF Sound, Rested, Between
<1>2. l.reversal # NoReversal => ~Occupied(m)
  BY <1>1 DEF Waits
<1> DEFINE g == [l EXCEPT !.reversal = NoReversal]
<1>3. /\ g \in Adapters /\ g.reversal = NoReversal /\ g.urgent = l.urgent
      /\ g.closing = l.closing /\ g.aborting = l.aborting
  <2>1. g = [urgent |-> l.urgent, closing |-> l.closing, aborting |-> l.aborting,
             reversal |-> NoReversal] /\ g \in Adapters
    BY <1>1, SetFields
  <2> HIDE DEF g
  <2> QED
    BY <2>1
<1> HIDE DEF g
<1>4. CASE l.reversal = NoReversal
  <2>1. v = Quiet(m, l)
    BY <1>4 DEF ReversalAt
  <2>2. Whole(v)
    BY <2>1 DEF Quiet, Verdict, Whole
  <2> QED
    BY <1>1, <1>4, <2>1, <2>2, QuietFields DEF Stays, Late
<1>5. CASE l.reversal # NoReversal /\ (l.reversal.side \notin Mode \/ t > l.reversal.at + Window)
  <2>1. v = AbandonParent(m, l, l.reversal.id)
    BY <1>5 DEF ReversalAt, AbandonReversal
  <2>2. v = Quiet(m, g)
    BY <1>1, <2>1 DEF AbandonParent, g
  <2>3. Whole(v)
    BY <2>2 DEF Quiet, Verdict, Whole
  <2> QED
    BY <1>3, <2>2, <2>3, QuietFields DEF Stays
<1>6. CASE l.reversal # NoReversal /\ ~(l.reversal.side \notin Mode \/ t > l.reversal.at + Window)
  <2>1. CASE l.closing = {} /\ mirror = {}
    <3>1. v = Verdict([m EXCEPT !.campaign = NewCampaign(l.reversal.id, l.reversal.side, "paper")],
                      l, <<EntryOf(0, l.reversal.id, l.reversal.side)>>, TRUE)
      BY <1>2, <1>6, <2>1 DEF ReversalAt
    <3>2. v.ok /\ v.live = l /\ Reenters(m, l, v)
      BY <1>2, <1>6, <2>1, <3>1 DEF Verdict, Reenters
    <3>3. Whole(v)
      BY <3>1 DEF Verdict, Whole
    <3> QED
      BY <1>1, <1>6, <3>2, <3>3 DEF Late
  <2>2. CASE ~(l.closing = {} /\ mirror = {})
    <3>1. v = Quiet(m, l)
      BY <1>6, <2>2 DEF ReversalAt
    <3>2. Whole(v)
      BY <3>1 DEF Quiet, Verdict, Whole
    <3> QED
      BY <1>1, <1>6, <3>1, <3>2, QuietFields DEF Stays, Late
  <2> QED
    BY <2>1, <2>2
<1> QED
  BY <1>4, <1>5, <1>6

LEMMA LateReversal ==
  ASSUME NEW m, NEW l, NEW s, NEW b, Sound(m, l, s, {}, b), NEW h, Between(m, l, h, mirror),
         NEW t, l.reversal # NoReversal => Late(l, t), NEW v, v = ReversalAt(m, l, t)
  PROVE  /\ v.live \in Adapters /\ v.live.urgent = l.urgent /\ v.live.reversal = NoReversal
         /\ Stays(m, l, v)
<1>1. /\ v.live \in Adapters /\ v.live.urgent = l.urgent
      /\ Stays(m, l, v) \/ Reenters(m, l, v)
      /\ Late(l, t) => Stays(m, l, v) /\ v.live.reversal = NoReversal
  BY ReversalCases
<1> QED
  BY <1>1 DEF Stays, Reenters

\* A machine with a campaign that has just begun.
Starts(o) ==
  /\ Occupied(o) /\ o.campaign \in Campaigns /\ o.campaign.origin = "paper"
  /\ o.campaign.lifetime = 1 /\ DOMAIN o.campaign.units = {0}
  /\ o.campaign.units[0].origin = "paper"

\* Nothing is held when a campaign begins.
LEMMA StartsSound ==
  ASSUME NEW o \in Machines, o.exit = "none", Starts(o), o.campaign.id <= o.day,
         NEW f \in Adapters, 0 \notin f.aborting, f.closing = {},
         f.reversal # NoReversal =>
           /\ f.reversal.id <= o.day /\ f.reversal.at = Minute(f.reversal.id, 0)
           /\ f.reversal.id = o.campaign.id,
         NEW s, Held(s) = {}, NEW b, b = {}
  PROVE  Sound(o, f, s, {}, b)
<1>1. IsOf(o, "paper") /\ ~IsOf(o, "live") /\ ~IsOf(o, "historical")
  BY DEF Starts, IsOf
<1>2. Rested(o)
  BY DEF Rested, Starts
<1>3. Waits(o, f)
  BY <1>1 DEF Waits
<1> QED
  BY <1>1, <1>2, <1>3 DEF Sound, Starts

LEMMA ReversalSound ==
  ASSUME NEW m, NEW l, NEW s \in [Ks -> Trades], NEW b \in SUBSET Held(s), Sound(m, l, s, {}, b),
         Between(m, l, Held(s), mirror),
         NEW t, NEW v, v = ReversalAt(m, l, t)
  PROVE  Sound(v.model, v.live, s, {}, b)
<1>1. /\ v.ok /\ v.live \in Adapters /\ v.live.urgent = l.urgent
      /\ Stays(m, l, v) \/ Reenters(m, l, v)
  BY ReversalCases
<1>2. CASE Stays(m, l, v)
  <2>1. Sound(m, v.live, s, {}, b)
    <3>1. Rested(m) /\ Waits(m, v.live)
      BY <1>2 DEF Stays, Waits, Sound
    <3> QED
      BY <1>1, <1>2, <3>1 DEF Stays, Sound, Leaving
  <2> QED
    BY <1>2, <2>1 DEF Stays
<1>3. CASE Reenters(m, l, v)
  <2>1. /\ m \in Machines /\ l \in Adapters /\ m.exit = "none" /\ 0 \notin l.aborting
        /\ l.reversal.id <= m.day /\ l.reversal.at = Minute(l.reversal.id, 0)
    BY <1>3, IdleFields DEF Reenters
  <2>2. l.reversal.id \in Nat /\ l.reversal.side \in Sides
    BY <1>3, <2>1, AdapterFacts DEF Reenters
  <2>3. Held(s) = {} /\ b = {}
    BY <1>3 DEF Reenters, Between
  <2> DEFINE c == NewCampaign(l.reversal.id, l.reversal.side, "paper")
  <2>4. /\ c \in Campaigns /\ c.id = l.reversal.id /\ c.origin = "paper" /\ c.lifetime = 1
        /\ DOMAIN c.units = {0} /\ c.units[0].origin = "paper"
    BY <2>2, NewFacts DEF Origins
  <2> HIDE DEF c
  <2>5. v.model = [m EXCEPT !.campaign = c]
    BY <1>3 DEF Reenters, c
  <2>6. /\ v.model \in Machines /\ v.model.campaign = c /\ v.model.exit = "none"
        /\ v.model.day = m.day /\ (Occupied(v.model) <=> c # NoCampaign)
    BY <2>1, <2>4, <2>5, SetCampaign
  <2>7. Occupied(v.model)
    BY <2>4, <2>6, MachineFacts
  <2>8. Starts(v.model)
    BY <2>4, <2>6, <2>7 DEF Starts
  <2>9. v.live = l /\ l.closing = {}
    BY <1>3 DEF Reenters
  <2> QED
    BY <2>1, <2>3, <2>4, <2>6, <2>8, <2>9, StartsSound
<1> QED
  BY <1>1, <1>2, <1>3

-----------------------------------------------------------------------------
(* A live minute.                                                          *)

\* What the strategy is shown of the executor, when it is shown a bar.
Ready ==
  /\ slots \in [Ks -> Trades] /\ begun \in SUBSET Held(slots) /\ mirror \in SUBSET Ks
  /\ Sound(model, live, slots, {}, begun)
  /\ Between(model, live, Held(slots), mirror)
  /\ traded \in Seq(Nat \X Ks)
  /\ \A i \in DOMAIN traded : traded[i][1] <= model.day
  /\ ~torn => Fresh(model, live, traded, Len(traded))

\* A verdict that a live bar may leave.
Decides(v) ==
  /\ v.ok /\ v.out \in Seq(Intents) /\ Sound(v.model, v.live, slots, {}, begun)
  /\ Occupied(v.model) \/ v.out # <<>> => v.live.urgent = {}
  /\ Planned(v.out, v.model, v.live, v.model, v.live, slots)
  /\ Entering(v.out) => slots[v.out[Len(v.out)].k] = NoTrade
  /\ model.day <= v.model.day
  /\ ~torn => Fresh(v.model, v.live, traded, Len(traded))

LEMMA CalmFields ==
  ASSUME NEW l \in Adapters, NEW f, f = [l EXCEPT !.urgent = {}]
  PROVE  /\ f \in Adapters /\ f.urgent = {} /\ f.closing = l.closing /\ f.aborting = l.aborting
         /\ f.reversal = l.reversal
<1> DEFINE z == {}
<1>1. z \in SUBSET Ks
  OBVIOUS
<1> HIDE DEF z
<1>2. f = [l EXCEPT !.urgent = z]
  BY DEF z
<1>3. f \in Adapters /\ f = [urgent |-> z, closing |-> l.closing, aborting |-> l.aborting,
                             reversal |-> l.reversal]
  BY <1>1, <1>2, SetFields
<1> QED
  BY <1>3 DEF z

\* The exits of a campaign that is over, or of add-ons that are out of range.
LEMMA ExitsWell ==
  ASSUME NEW ks \in SUBSET Ks, NEW a \in BOOLEAN, NEW m, NEW l, NEW s,
         a => 0 \notin ks,
         Occupied(m) => \A k \in ks \cap Held(s) : IsOf(m, "live") /\ a /\ k \in l.aborting,
         NEW q, q = ExitsOf(ks, a)
  PROVE  OnlyExits(q, m, l, m, l, s)
<1>1. q \in Seq(Intents) /\ \A i \in DOMAIN q : q[i].kind = "exit" /\ q[i].k \in ks /\ q[i].abort = a
  BY ExitsFacts
<1>2. ASSUME NEW i \in DOMAIN q
      PROVE  ExitWell(q[i], m, l, m, l, s)
  BY <1>1, <1>2 DEF ExitWell, Leaving
<1> QED
  BY <1>1, <1>2 DEF OnlyExits

LEMMA ExitsJoin ==
  ASSUME NEW q, NEW r, NEW m, NEW l, NEW s,
         OnlyExits(q, m, l, m, l, s), OnlyExits(r, m, l, m, l, s),
         NEW o, o = q \o r
  PROVE  OnlyExits(o, m, l, m, l, s)
<1>0. /\ q \in Seq(Intents) /\ r \in Seq(Intents)
      /\ \A i \in DOMAIN q : q[i].kind = "exit" /\ ExitWell(q[i], m, l, m, l, s)
      /\ \A i \in DOMAIN r : r[i].kind = "exit" /\ ExitWell(r[i], m, l, m, l, s)
  BY DEF OnlyExits
<1>1. /\ o \in Seq(Intents) /\ Len(o) = Len(q) + Len(r)
      /\ \A i \in 1 .. Len(q) + Len(r) : o[i] = IF i <= Len(q) THEN q[i] ELSE r[i - Len(q)]
  BY <1>0, ConcatProperties
<1> DEFINE a == Len(q)
           c == Len(r)
<1>2. a \in Nat /\ c \in Nat /\ DOMAIN q = 1 .. a /\ DOMAIN r = 1 .. c /\ DOMAIN o = 1 .. a + c
  BY <1>0, <1>1
<1>3. \A i \in 1 .. a + c : o[i] = IF i <= a THEN q[i] ELSE r[i - a]
  BY <1>1
<1> HIDE DEF a, c
<1>4. ASSUME NEW i \in 1 .. a + c
      PROVE  o[i].kind = "exit" /\ ExitWell(o[i], m, l, m, l, s)
  <2>1. CASE i <= a
    <3>1. i \in DOMAIN q /\ o[i] = q[i]
      BY <1>2, <1>3, <2>1
    <3> QED
      BY <1>0, <3>1
  <2>2. CASE ~(i <= a)
    <3>1. i - a \in DOMAIN r
      BY <1>2, <2>2
    <3>2. o[i] = r[i - a]
      BY <1>3, <2>2
    <3> QED
      BY <1>0, <3>1, <3>2
  <2> QED
    BY <2>1, <2>2
<1> QED
  BY <1>1, <1>2, <1>4 DEF OnlyExits

LEMMA MinuteSound ==
  ASSUME Ready, NEW r \in {{}, {0}}, NEW t, NEW v, v = OnMinute(model, live, t, r, FALSE)
  PROVE  Decides(v)
<1> DEFINE n == ObserveHistoricalPrices(model, r)
           f == [live EXCEPT !.urgent = {}]
           w == ReversalAt(n, f, t)
           q1 == ExitsOf(live.urgent, FALSE)
           q2 == ExitsOf((live.aborting \cap mirror) \ live.closing, TRUE)
<1>1. /\ slots \in [Ks -> Trades] /\ begun \in SUBSET Held(slots)
      /\ Sound(model, live, slots, {}, begun) /\ Between(model, live, Held(slots), mirror)
  BY DEF Ready
<1>2. model \in Machines /\ live \in Adapters /\ 0 \notin live.aborting
  BY <1>1, IdleFields
<1>3. /\ live.urgent \in SUBSET Ks /\ live.aborting \in SUBSET Ks
  BY <1>2, AdapterFacts
<1>4. /\ f \in Adapters /\ f.urgent = {} /\ f.closing = live.closing
      /\ f.aborting = live.aborting /\ f.reversal = live.reversal
  BY <1>2, CalmFields
<1>5. v = [w EXCEPT !.out = (q1 \o q2) \o @]
  BY DEF OnMinute
<1> HIDE DEF f, n
<1>21. n = ObserveHistoricalPrices(model, r)
  BY DEF n
<1>6. /\ Sound(n, live, slots, {}, begun) /\ Between(n, live, Held(slots), mirror)
      /\ Shrinks(model, live, n, live)
      /\ n = model \/ (~Occupied(n) /\ mirror = {} /\ live.closing = {})
  <2>1. /\ Sound(n, live, slots, {}, begun) /\ Between(n, live, Held(slots), mirror)
        /\ Shrinks(model, live, n, live) /\ Prices(model, live, Held(slots), mirror, n)
    BY <1>1, <1>21, PricedSound
  <2> QED
    BY <2>1 DEF Prices
<1>7. /\ Sound(n, f, slots, {}, begun) /\ Between(n, f, Held(slots), mirror)
      /\ Shrinks(n, live, n, f)
  <2>1. Sound(n, f, slots, {}, begun)
    BY <1>4, <1>6, UrgentSound
  <2>2. Between(n, f, Held(slots), mirror)
    BY <1>4, <1>6 DEF Between
  <2>3. Shrinks(n, live, n, f)
    BY <1>4 DEF Shrinks
  <2> QED
    BY <2>1, <2>2, <2>3
<1>8. /\ w.ok /\ w.live \in Adapters /\ w.live.urgent = {}
      /\ Stays(n, f, w) \/ Reenters(n, f, w)
      /\ Whole(w)
  BY <1>4, <1>7, ReversalCases
<1>9. Sound(w.model, w.live, slots, {}, begun)
  BY <1>1, <1>7, ReversalSound
<1> HIDE DEF w
<1>10. /\ v.ok /\ v.model = w.model /\ v.live = w.live /\ v.out = (q1 \o q2) \o w.out
  BY <1>5, <1>8 DEF Whole
<1> DEFINE ks == (live.aborting \cap mirror) \ live.closing
<1>11. live.aborting = w.live.aborting /\ live.closing = w.live.closing
  BY <1>4, <1>8 DEF Stays, Reenters
<1>12. OnlyExits(q1, w.model, w.live, w.model, w.live, slots)
  <2>1. Occupied(w.model) => live.urgent \cap Held(slots) = {}
    <3>1. CASE Stays(n, f, w)
      BY <1>1, <1>6, <3>1 DEF Stays, Between
    <3>2. CASE Reenters(n, f, w)
      BY <1>1, <3>2 DEF Reenters, Between
    <3> QED
      BY <1>8, <3>1, <3>2
  <2> HIDE DEF q1
  <2>2. q1 = ExitsOf(live.urgent, FALSE)
    BY DEF q1
  <2> QED
    BY <1>3, <2>1, <2>2, ExitsWell
<1>13. OnlyExits(q2, w.model, w.live, w.model, w.live, slots)
  <2>1. Occupied(w.model) => \A k \in ks \cap Held(slots) :
          IsOf(w.model, "live") /\ k \in w.live.aborting
    <3>1. CASE Stays(n, f, w)
      <4>1. Occupied(n) => IsOf(n, "live") \/ mirror = {}
        <5>1. n \in Machines /\ (Occupied(n) => n.campaign.origin \in Origins)
          BY <1>6, IdleFields, MachineFacts, CampaignFacts
        <5> QED
          BY <1>6, <5>1 DEF Between, IsOf, Origins
      <4> QED
        BY <1>11, <3>1, <4>1 DEF Stays
    <3>2. CASE Reenters(n, f, w)
      BY <3>2 DEF Reenters
    <3> QED
      BY <1>8, <3>1, <3>2
  <2>2. ks \in SUBSET Ks /\ 0 \notin ks
    BY <1>2, <1>3
  <2> DEFINE a == TRUE
  <2>3. q2 = ExitsOf(ks, a) /\ a
    OBVIOUS
  <2>4. a \in BOOLEAN
    OBVIOUS
  <2> HIDE DEF q2, ks, a
  <2>5. Occupied(w.model) => \A k \in ks \cap Held(slots) :
          IsOf(w.model, "live") /\ a /\ k \in w.live.aborting
    BY <2>1, <2>3
  <2> QED
    BY <2>2, <2>3, <2>4, <2>5, ExitsWell
<1> HIDE DEF q1, q2
<1> DEFINE q == q1 \o q2
<1>14. OnlyExits(q, w.model, w.live, w.model, w.live, slots)
  BY <1>12, <1>13, ExitsJoin
<1> HIDE DEF q
<1>15. v.out = q \o w.out
  BY <1>10 DEF q
<1>16. /\ w.out \in Seq(Intents) /\ Planned(w.out, w.model, w.live, w.model, w.live, slots)
       /\ Entering(w.out) => slots[w.out[Len(w.out)].k] = NoTrade
  <2>1. CASE Stays(n, f, w)
    <3>1. NoPapers(n)
      BY <1>7, BetweenPapers
    <3>2. w.model = n /\ w.out = <<>>
      BY <2>1 DEF Stays
    <3> QED
      BY <3>1, <3>2, PlannedNothing
  <2>2. CASE Reenters(n, f, w)
    <3> DEFINE id == f.reversal.id
               side == f.reversal.side
               c == NewCampaign(id, side, "paper")
               i == EntryOf(0, id, side)
    <3>1. id \in Nat /\ side \in Sides
      BY <1>4, <2>2, AdapterFacts DEF Reenters
    <3>2. /\ c \in Campaigns /\ c.id = id /\ c.side = side /\ c.origin = "paper"
          /\ DOMAIN c.units = {0} /\ c.units[0].origin = "paper"
      BY <3>1, NewFacts DEF Origins
    <3>3. w.model = [n EXCEPT !.campaign = c] /\ w.out = <<i>> /\ mirror = {}
      BY <2>2 DEF Reenters
    <3>4. i \in Intents /\ i.kind = "entry" /\ i.k = 0 /\ i.id = id /\ i.side = side
      BY <3>1, SlotSets DEF EntryOf, Intents
    <3> HIDE DEF i, c, id, side
    <3>5. /\ w.model.campaign = c /\ Occupied(w.model)
      <4>1. n \in Machines
        BY <1>6, IdleFields
      <4>2. w.model \in Machines /\ w.model.campaign = c
        BY <3>2, <3>3, <4>1, SetCampaign
      <4> QED
        BY <3>2, <4>2, MachineFacts
    <3>6. EntryWell(i, w.model, w.live, w.model, w.live)
      BY <3>2, <3>4, <3>5 DEF EntryWell, HasUnit, IsOf
    <3>7. \A k \in DOMAIN w.model.campaign.units :
            w.model.campaign.units[k].origin = "paper" => k = i.k
      BY <3>2, <3>4, <3>5
    <3>8. /\ Planned(<<i>>, w.model, w.live, w.model, w.live, slots) /\ <<i>> \in Seq(Intents)
          /\ <<i>>[Len(<<i>>)] = i
      BY <3>4, <3>6, <3>7, PlannedEntry
    <3>9. slots[0] = NoTrade
      BY <1>1, <3>3, TradeFacts, SlotSets DEF Between
    <3> QED
      BY <3>3, <3>4, <3>8, <3>9
  <2> QED
    BY <1>8, <2>1, <2>2
<1>17. /\ v.out \in Seq(Intents) /\ Planned(v.out, w.model, w.live, w.model, w.live, slots)
       /\ Entering(v.out) <=> Entering(w.out)
       /\ Entering(v.out) => v.out[Len(v.out)] = w.out[Len(w.out)]
  <2>1. /\ v.out \in Seq(Intents) /\ Planned(v.out, w.model, w.live, w.model, w.live, slots)
        /\ SameEnd(v.out, w.out)
    BY <1>14, <1>15, <1>16, PlannedJoin
  <2> QED
    BY <2>1 DEF SameEnd
<1>18. ~torn => Fresh(w.model, w.live, traded, Len(traded))
  <2>1. \A i \in 1 .. Len(traded) : traded[i][2] \in Ks
    BY DEF Ready
  <2>2. Len(traded) \in Nat
    BY DEF Ready
  <2>3. Shrinks(model, live, n, f)
    BY <1>6, <1>7, ShrinkTwice
  <2>4. ASSUME ~torn
        PROVE  Fresh(n, f, traded, Len(traded))
    BY <2>1, <2>2, <2>3, <2>4, ShrinkFresh DEF Ready
  <2>5. CASE Stays(n, f, w)
    BY <2>4, <2>5 DEF Stays, Fresh
  <2>6. CASE Reenters(n, f, w)
    <3> DEFINE id == f.reversal.id
               c == NewCampaign(id, f.reversal.side, "paper")
    <3>1. id \in Nat /\ f.reversal.side \in Sides /\ f.reversal # NoReversal
      BY <1>4, <2>6, AdapterFacts DEF Reenters
    <3>2. c \in Campaigns /\ c.id = id
      BY <3>1, NewFacts DEF Origins
    <3>3. n \in Machines /\ w.model = [n EXCEPT !.campaign = c] /\ w.live = f
      BY <1>6, <2>6, IdleFields DEF Reenters
    <3> HIDE DEF c, id
    <3>4. w.model.campaign = c
      BY <3>2, <3>3, SetCampaign
    <3>5. ASSUME ~torn
          PROVE  \A i \in 1 .. Len(traded) : traded[i][1] # id
      BY <2>4, <3>1, <3>5 DEF Fresh, id
    <3> QED
      BY <3>2, <3>3, <3>4, <3>5 DEF Fresh, id
  <2> QED
    BY <1>8, <2>5, <2>6
<1>19. model.day <= w.model.day
  <2>1. n.day = model.day /\ n \in Machines /\ model.day \in Nat
    BY <1>2, <1>6, IdleFields, MachineFacts DEF Shrinks
  <2>2. CASE Stays(n, f, w)
    BY <2>1, <2>2 DEF Stays
  <2>3. CASE Reenters(n, f, w)
    <3> DEFINE c == NewCampaign(f.reversal.id, f.reversal.side, "paper")
    <3>1. w.model = [n EXCEPT !.campaign = c]
      BY <2>3 DEF Reenters
    <3> HIDE DEF c
    <3>2. w.model.day = n.day
      BY <2>1, <3>1 DEF Machines
    <3> QED
      BY <2>1, <3>2
  <2> QED
    BY <1>8, <2>2, <2>3
<1>20. w.live.urgent = {}
  BY <1>8
<1> QED
  BY <1>8, <1>9, <1>10, <1>16, <1>17, <1>18, <1>19, <1>20 DEF Decides

-----------------------------------------------------------------------------
(* A completed day: what the open acts on.                                 *)

Machine(c, x, d, n, day0) ==
  [campaign |-> c, exit |-> x, candidate |-> d, day |-> day0, verified |-> n.verified,
   funded |-> n.funded]
Aged(c) ==
  [id |-> c.id, side |-> c.side, age |-> c.age + 1, origin |-> c.origin,
   lifetime |-> c.lifetime, units |-> c.units]

LEMMA DayCandidate ==
  ASSUME NEW m \in Machines, NEW d, NEW o, o = [m EXCEPT !.day = @ + 1, !.candidate = d]
  PROVE  o = [campaign |-> m.campaign, exit |-> m.exit, candidate |-> d,
              day |-> m.day + 1, verified |-> m.verified, funded |-> m.funded]
<1>1. m = [campaign |-> m.campaign, exit |-> m.exit, candidate |-> m.candidate,
           day |-> m.day, verified |-> m.verified, funded |-> m.funded]
  BY MachineFacts
<1> QED
  BY <1>1

LEMMA CampaignCandidate ==
  ASSUME NEW m \in Machines, NEW g, NEW d, NEW o, o = [m EXCEPT !.campaign = g, !.candidate = d]
  PROVE  o = [campaign |-> g, exit |-> m.exit, candidate |-> d,
              day |-> m.day, verified |-> m.verified, funded |-> m.funded]
<1>1. m = [campaign |-> m.campaign, exit |-> m.exit, candidate |-> m.candidate,
           day |-> m.day, verified |-> m.verified, funded |-> m.funded]
  BY MachineFacts
<1> QED
  BY <1>1

LEMMA MachineTyped ==
  ASSUME NEW n \in Machines, NEW c \in Campaigns \cup {NoCampaign}, NEW x \in Exits \cup {"none"},
         NEW d \in Candidates, NEW t \in Nat, NEW o, o = Machine(c, x, d, n, t)
  PROVE  /\ o \in Machines /\ o.campaign = c /\ o.exit = x /\ o.candidate = d /\ o.day = t
         /\ o.verified = n.verified /\ o.funded = n.funded
         /\ Occupied(o) <=> c # NoCampaign
<1>1. n.verified \in BOOLEAN /\ n.funded \in BOOLEAN
  BY MachineFacts
<1> QED
  BY <1>1 DEF Machine, Machines, Occupied

LEMMA AgedFacts ==
  ASSUME NEW c \in Campaigns
  PROVE  /\ Aged(c) # NoCampaign
         /\ c.age + 1 < MaxHold => Aged(c) \in Campaigns
<1>1. /\ c.id \in Nat /\ c.side \in Sides /\ c.age \in 0 .. MaxHold - 1
      /\ c.origin \in Origins /\ c.lifetime \in 1 .. MaxUnits
      /\ DOMAIN c.units \in SUBSET Ks /\ c.units \in [DOMAIN c.units -> Units]
  BY CampaignFacts
<1>2. Aged(c) # NoCampaign
  <2>1. Aged(c).id = c.id /\ NoCampaign.id = -1
    BY DEF Aged, NoCampaign
  <2> QED
    BY <1>1, <2>1
<1>3. ASSUME c.age + 1 < MaxHold
      PROVE  Aged(c) \in Campaigns
  <2> DEFINE a == c.age + 1
             ks == DOMAIN c.units
  <2>1. a \in 0 .. MaxHold - 1
    BY <1>1, <1>3, HoldType
  <2>2. ks \in SUBSET Ks /\ c.units \in [ks -> Units]
    BY <1>1
  <2>3. Aged(c) = [id |-> c.id, side |-> c.side, age |-> a, origin |-> c.origin,
                   lifetime |-> c.lifetime, units |-> c.units]
    BY DEF Aged
  <2>4. c.id \in Nat /\ c.side \in Sides /\ c.origin \in Origins /\ c.lifetime \in 1 .. MaxUnits
    BY <1>1
  <2> HIDE DEF a, ks
  <2>5. [id |-> c.id, side |-> c.side, age |-> a, origin |-> c.origin,
         lifetime |-> c.lifetime, units |-> c.units] \in Campaigns
    BY <2>1, <2>2, <2>4, CampaignTyped
  <2> QED
    BY <2>3, <2>5
<1> QED
  BY <1>2, <1>3

\* What the completed candle leaves: the campaign is a day older, and an exit may be due.
Observed(n, d, c, x, o) ==
  /\ o = Machine(c, x, d, n, n.day + 1) /\ x \in Exits \cup {"none"}
  /\ ~Occupied(n) => c = NoCampaign /\ x = "none"
  /\ Occupied(n) => c = Aged(n.campaign) /\ (x = "none" => n.campaign.age + 1 < MaxHold)

LEMMA ObserveCases ==
  ASSUME NEW n \in Machines, n.exit = "none", NEW back, NEW recovered,
         NEW d \in Candidates, NEW o, o = ObserveClose(n, back, recovered, d)
  PROVE  \E c, x : Observed(n, d, c, x, o)
<1>1. n = [campaign |-> n.campaign, exit |-> n.exit, candidate |-> n.candidate,
           day |-> n.day, verified |-> n.verified, funded |-> n.funded]
  BY MachineFacts
<1>2. CASE ~Occupied(n)
  <2>1. o = [n EXCEPT !.day = @ + 1, !.candidate = d]
    BY <1>2 DEF ObserveClose
  <2>2. n.campaign = NoCampaign
    BY <1>2, MachineFacts
  <2>3. o = Machine(NoCampaign, "none", d, n, n.day + 1)
    BY <1>1, <2>1, <2>2 DEF Machine
  <2> QED
    BY <1>2, <2>3 DEF Observed
<1>3. CASE Occupied(n)
  <2> DEFINE how == ExitAfter(n.campaign, back, recovered)
             seen == [n EXCEPT !.day = @ + 1, !.candidate = d]
  <2>1. n.campaign \in Campaigns
    BY <1>3, MachineFacts
  <2>2. o = [seen EXCEPT !.campaign.age = @ + 1, !.exit = IF how = "none" THEN @ ELSE how]
    BY <1>3 DEF ObserveClose
  <2>3. how \in Exits \cup {"none"} /\ (how = "none" => n.campaign.age + 1 < MaxHold)
    <3>1. n.campaign.age \in Nat
      BY <2>1, CampaignFacts
    <3> QED
      BY <3>1, HoldType DEF ExitAfter, Exits
  <2> HIDE DEF how
  <2>4. seen = [campaign |-> n.campaign, exit |-> n.exit, candidate |-> d,
                day |-> n.day + 1, verified |-> n.verified, funded |-> n.funded]
    <3>1. seen = [n EXCEPT !.day = @ + 1, !.candidate = d]
      OBVIOUS
    <3> HIDE DEF seen
    <3> QED
      BY <3>1, DayCandidate
  <2> HIDE DEF seen
  <2>5. n.campaign = [id |-> n.campaign.id, side |-> n.campaign.side, age |-> n.campaign.age,
                      origin |-> n.campaign.origin, lifetime |-> n.campaign.lifetime,
                      units |-> n.campaign.units]
    BY <2>1, CampaignFacts
  <2>6. o = Machine(Aged(n.campaign), how, d, n, n.day + 1)
    <3>0. n.exit = "none"
      OBVIOUS
    <3>1. [n.campaign EXCEPT !.age = @ + 1] = Aged(n.campaign)
      BY <2>5 DEF Aged
    <3>2. o = [seen EXCEPT !.campaign = [n.campaign EXCEPT !.age = @ + 1], !.exit = how]
      BY <2>2, <2>4, <3>0
    <3> QED
      BY <2>4, <3>1, <3>2 DEF Machine
  <2> QED
    BY <1>3, <2>3, <2>6 DEF Observed
<1> QED
  BY <1>2, <1>3

-----------------------------------------------------------------------------
(* The open.                                                               *)

\* o follows n with one more day, and no exit is pending.
Passes(n, o, t) ==
  /\ o \in Machines /\ o.exit = "none" /\ o.day = t /\ o.verified = n.verified
  /\ o.funded = n.funded
\* The campaign is the same but for its age.
Ages(n, o) ==
  /\ Occupied(n) /\ Occupied(o) /\ o.campaign.id = n.campaign.id
  /\ o.campaign.side = n.campaign.side /\ o.campaign.origin = n.campaign.origin
  /\ o.campaign.lifetime = n.campaign.lifetime /\ o.campaign.units = n.campaign.units
\* It has one more unit, hypothetical or undecided.
Adds(n, o) ==
  /\ Occupied(n) /\ Occupied(o) /\ o.campaign.id = n.campaign.id
  /\ o.campaign.side = n.campaign.side /\ o.campaign.origin = n.campaign.origin
  /\ o.campaign.lifetime = n.campaign.lifetime + 1 /\ n.campaign.lifetime \in Ks
  /\ DOMAIN o.campaign.units = DOMAIN n.campaign.units \cup {n.campaign.lifetime}
  /\ o.campaign.units[n.campaign.lifetime].origin =
       IF n.campaign.origin = "historical" THEN "historical" ELSE "paper"
  /\ \A k \in DOMAIN n.campaign.units :
       k # n.campaign.lifetime => o.campaign.units[k] = n.campaign.units[k]

ExitDec(n) ==
  Decision(IF n.campaign.origin = "historical" THEN "historical_exit" ELSE "campaign_exit",
           n.campaign.id, 0, n.campaign.side)
ParentDec(o) == Decision("paper_parent", o.day, 0, o.campaign.side)
AddonDec(n) == AddonDecision(n.campaign, n.campaign.lifetime)

LEMMA OpenedFields ==
  ASSUME NEW m, NEW ds
  PROVE  Opened(m, ds).machine = m /\ Opened(m, ds).decisions = ds
BY DEF Opened

ParentNow(p, recovered) == ParentAtOpen(p, recovered, TRUE)

LEMMA ParentCases ==
  ASSUME NEW p \in Machines, ~Occupied(p), p.exit = "none", NEW recovered,
         NEW x, x = ParentNow(p, recovered)
  PROVE  /\ Passes(p, x.machine, p.day)
         /\ \/ x.decisions = <<>> /\ ~Occupied(x.machine)
            \/ /\ x.decisions = <<ParentDec(x.machine)>> /\ Starts(x.machine)
               /\ x.machine.campaign.id = p.day
<1>1. /\ p = [campaign |-> p.campaign, exit |-> p.exit, candidate |-> p.candidate,
              day |-> p.day, verified |-> p.verified, funded |-> p.funded]
      /\ p.candidate \in Candidates /\ p.day \in Nat /\ p.campaign = NoCampaign
  BY MachineFacts
<1>2. NoCandidate \in Candidates /\ NoCampaign \in Campaigns \cup {NoCampaign}
      /\ "none" \in Exits \cup {"none"}
  BY DEF Candidates
<1> DEFINE c == p.candidate
           g == NewCampaign(p.day, c.side, "paper")
           o == [p EXCEPT !.campaign = g, !.candidate = NoCandidate]
<1>3. CASE c.sound /\ c.side # recovered /\ c.side \in Mode
  <2>1. x = Opened(o, <<Decision("paper_parent", p.day, 0, c.side)>>)
    BY <1>3 DEF ParentNow, ParentAtOpen
  <2>2. c.side \in Sides
    BY <1>1, <1>3 DEF Candidates, NoCandidate
  <2>3. /\ g \in Campaigns /\ g.id = p.day /\ g.side = c.side /\ g.origin = "paper"
        /\ g.lifetime = 1 /\ DOMAIN g.units = {0} /\ g.units[0].origin = "paper"
    BY <1>1, <2>2, NewFacts DEF Origins
  <2> HIDE DEF g
  <2>4. o = Machine(g, "none", NoCandidate, p, p.day)
    <3>1. o = [campaign |-> g, exit |-> p.exit, candidate |-> NoCandidate,
               day |-> p.day, verified |-> p.verified, funded |-> p.funded]
      <4>1. o = [p EXCEPT !.campaign = g, !.candidate = NoCandidate]
        OBVIOUS
      <4> HIDE DEF o
      <4> QED
        BY <4>1, CampaignCandidate
    <3> QED
      BY <3>1 DEF Machine
  <2> HIDE DEF o
  <2>5. /\ o \in Machines /\ o.campaign = g /\ o.exit = "none" /\ o.day = p.day
        /\ o.verified = p.verified /\ o.funded = p.funded
    BY <1>1, <1>2, <2>3, <2>4, MachineTyped
  <2>6. Occupied(o)
    BY <2>3, <2>5, MachineFacts
  <2>7. x.machine = o /\ x.decisions = <<ParentDec(o)>>
    <3> DEFINE d == Decision("paper_parent", p.day, 0, c.side)
    <3>1. d = ParentDec(o)
      BY <2>3, <2>5 DEF ParentDec
    <3>2. x = Opened(o, <<d>>)
      BY <2>1
    <3> HIDE DEF d
    <3> QED
      BY <3>1, <3>2, OpenedFields
  <2>8. Passes(p, o, p.day)
    BY <2>5 DEF Passes
  <2>9. Starts(o)
    BY <2>3, <2>5, <2>6 DEF Starts
  <2> QED
    BY <2>3, <2>5, <2>7, <2>8, <2>9
<1>4. CASE ~(c.sound /\ c.side # recovered /\ c.side \in Mode)
  <2> DEFINE n == [p EXCEPT !.candidate = NoCandidate]
  <2>1. x = Opened(n, <<>>)
    BY <1>4 DEF ParentNow, ParentAtOpen
  <2>2. n = Machine(NoCampaign, "none", NoCandidate, p, p.day)
    BY <1>1 DEF Machine
  <2> HIDE DEF n
  <2>3. /\ n \in Machines /\ n.exit = "none" /\ n.day = p.day
        /\ n.verified = p.verified /\ n.funded = p.funded /\ ~Occupied(n)
    BY <1>1, <1>2, <2>2, MachineTyped
  <2>4. x.machine = n /\ x.decisions = <<>>
    BY <2>1, OpenedFields
  <2> QED
    BY <2>3, <2>4 DEF Passes
<1> QED
  BY <1>3, <1>4

LEMMA AddonCases ==
  ASSUME NEW p \in Machines, Occupied(p), p.exit = "none", NEW fits,
         NEW x, x = AddonAtOpen(p, fits)
  PROVE  /\ Passes(p, x.machine, p.day)
         /\ \/ x.decisions = <<>> /\ Ages(p, x.machine)
            \/ x.decisions = <<AddonDec(p)>> /\ Adds(p, x.machine)
<1>1. /\ p = [campaign |-> p.campaign, exit |-> p.exit, candidate |-> p.candidate,
              day |-> p.day, verified |-> p.verified, funded |-> p.funded]
      /\ p.candidate \in Candidates /\ p.day \in Nat /\ p.campaign \in Campaigns
  BY MachineFacts
<1>2. NoCandidate \in Candidates /\ "none" \in Exits \cup {"none"}
  BY DEF Candidates
<1> DEFINE c == p.campaign
           k == c.lifetime
           g == IF c.origin = "historical" THEN "historical" ELSE "paper"
           n == [p EXCEPT !.candidate = NoCandidate]
<1>3. n = Machine(c, "none", NoCandidate, p, p.day)
  BY <1>1 DEF Machine
<1>4. CASE p.candidate.side = c.side /\ k < MaxUnits /\ fits /\ (c.origin # "historical" => c.side \in Mode)
  <2> DEFINE u == Unit(g, FALSE)
             w == WithUnit(c, k, u)
             y == [w EXCEPT !.lifetime = k + 1]
             o == [n EXCEPT !.campaign = y]
  <2>1. x = Opened(o, <<AddonDecision(c, k)>>)
    BY <1>4 DEF AddonAtOpen
  <2>2. k \in Ks /\ k \in 1 .. MaxUnits /\ k + 1 \in 1 .. MaxUnits
    BY <1>1, <1>4, CampaignFacts, MaxUnitsType DEF Ks
  <2>3. u \in Units /\ u.origin = g
    BY DEF Unit, Units, Origins
  <2> HIDE DEF u
  <2>4. /\ w \in Campaigns /\ w.id = c.id /\ w.side = c.side /\ w.age = c.age /\ w.origin = c.origin
        /\ DOMAIN w.units = DOMAIN c.units \cup {k} /\ w.units[k] = u
        /\ \A j \in DOMAIN c.units : j # k => w.units[j] = c.units[j]
    BY <1>1, <2>2, <2>3, WithFacts
  <2> HIDE DEF w
  <2>5. /\ y \in Campaigns /\ y.id = w.id /\ y.side = w.side /\ y.origin = w.origin
        /\ y.lifetime = k + 1 /\ y.units = w.units
    <3> DEFINE j == k + 1
               ks == DOMAIN w.units
    <3>1. /\ w.id \in Nat /\ w.side \in Sides /\ w.age \in 0 .. MaxHold - 1 /\ w.origin \in Origins
          /\ ks \in SUBSET Ks /\ w.units \in [ks -> Units] /\ j \in 1 .. MaxUnits
          /\ w = [id |-> w.id, side |-> w.side, age |-> w.age, origin |-> w.origin,
                  lifetime |-> w.lifetime, units |-> w.units]
      BY <2>2, <2>4, CampaignFacts
    <3>2. y = [id |-> w.id, side |-> w.side, age |-> w.age, origin |-> w.origin,
               lifetime |-> j, units |-> w.units]
      BY <3>1
    <3> HIDE DEF y, j, ks
    <3>3. y \in Campaigns
      BY <3>1, <3>2, CampaignTyped
    <3> QED
      BY <3>2, <3>3 DEF j
  <2> HIDE DEF y, n
  <2>6. o = Machine(y, "none", NoCandidate, p, p.day)
    BY <1>3 DEF Machine
  <2> HIDE DEF o
  <2>7. /\ o \in Machines /\ o.campaign = y /\ o.exit = "none" /\ o.day = p.day
        /\ o.verified = p.verified /\ o.funded = p.funded
    BY <1>1, <1>2, <2>5, <2>6, MachineTyped
  <2>8. Occupied(o)
    BY <2>5, <2>7, MachineFacts
  <2>9. x.machine = o /\ x.decisions = <<AddonDec(p)>>
    BY <2>1 DEF Opened, AddonDec
  <2>10. Passes(p, o, p.day)
    BY <2>7 DEF Passes
  <2>11. Adds(p, o)
    BY <2>2, <2>3, <2>4, <2>5, <2>7, <2>8 DEF Adds
  <2> QED
    BY <2>9, <2>10, <2>11
<1>5. CASE ~(p.candidate.side = c.side /\ k < MaxUnits /\ fits /\ (c.origin # "historical" => c.side \in Mode))
  <2>1. x = Opened(n, <<>>)
    BY <1>5 DEF AddonAtOpen
  <2> HIDE DEF n
  <2>2. /\ n \in Machines /\ n.exit = "none" /\ n.day = p.day /\ n.campaign = c
        /\ n.verified = p.verified /\ n.funded = p.funded
    BY <1>1, <1>2, <1>3, MachineTyped
  <2>3. Occupied(n)
    BY <1>1, <2>2, MachineFacts
  <2>4. x.machine = n /\ x.decisions = <<>>
    BY <2>1, OpenedFields
  <2> QED
    BY <2>2, <2>3, <2>4 DEF Passes, Ages
<1> QED
  BY <1>4, <1>5

InNow(p, fits, recovered) ==
  IF p.candidate = NoCandidate THEN Opened(p, <<>>)
  ELSE IF Occupied(p) THEN AddonAtOpen(p, fits)
  ELSE ParentNow(p, recovered)

\* What a completed day does to a machine, and the decisions that come with it.
OpenedNow(n, back, recovered, d, fits) ==
  ApplyOpen(ObserveClose(n, back, recovered, d), fits, TRUE)

OpenedBy(x, out, fits) ==
  \E r : /\ x.machine = InNow(out.machine, fits, r).machine
         /\ x.decisions = out.decisions \o InNow(out.machine, fits, r).decisions

LEMMA OpenedUnfolds ==
  ASSUME NEW n, NEW back, NEW recovered, NEW d, NEW fits,
         NEW m, m = ObserveClose(n, back, recovered, d), NEW out, out = ExitAtOpen(m),
         NEW x, x = OpenedNow(n, back, recovered, d, fits)
  PROVE  OpenedBy(x, out, fits)
BY DEF OpenedNow, ApplyOpen, InNow, ParentNow, Opened, OpenedBy

\* The candidate of a machine without one for an exit that is due.
LEMMA InCases ==
  ASSUME NEW p \in Machines, p.exit = "none", NEW fits, NEW r,
         NEW x, x = InNow(p, fits, r)
  PROVE  /\ Passes(p, x.machine, p.day)
         /\ ~Occupied(p) =>
              \/ x.decisions = <<>> /\ ~Occupied(x.machine)
              \/ /\ x.decisions = <<ParentDec(x.machine)>> /\ Starts(x.machine)
                 /\ x.machine.campaign.id = p.day
         /\ Occupied(p) =>
              \/ x.decisions = <<>> /\ Ages(p, x.machine)
              \/ x.decisions = <<AddonDec(p)>> /\ Adds(p, x.machine)
<1>1. CASE p.candidate = NoCandidate
  <2>1. x = Opened(p, <<>>)
    BY <1>1 DEF InNow
  <2>2. x.machine = p /\ x.decisions = <<>>
    BY <2>1, OpenedFields
  <2> QED
    BY <2>2 DEF Passes, Ages
<1>2. CASE p.candidate # NoCandidate /\ Occupied(p)
  <2>1. x = AddonAtOpen(p, fits)
    BY <1>2 DEF InNow
  <2> QED
    BY <1>2, <2>1, AddonCases
<1>3. CASE p.candidate # NoCandidate /\ ~Occupied(p)
  <2>1. x = ParentNow(p, r)
    BY <1>3 DEF InNow
  <2> QED
    BY <1>3, <2>1, ParentCases
<1> QED
  BY <1>1, <1>2, <1>3

Opens(n, x) ==
  /\ Passes(n, x.machine, n.day + 1)
  /\ \/ x.decisions = <<>> /\ ~Occupied(n) /\ ~Occupied(x.machine)
     \/ x.decisions = <<>> /\ Ages(n, x.machine)
     \/ x.decisions = <<ExitDec(n)>> /\ Occupied(n) /\ ~Occupied(x.machine)
     \/ /\ x.decisions = <<ParentDec(x.machine)>> /\ ~Occupied(n) /\ Starts(x.machine)
        /\ x.machine.campaign.id = n.day + 1
     \/ /\ x.decisions = <<ExitDec(n), ParentDec(x.machine)>> /\ Occupied(n) /\ Starts(x.machine)
        /\ x.machine.campaign.id = n.day + 1
     \/ x.decisions = <<AddonDec(n)>> /\ Adds(n, x.machine)

LEMMA PairConcat ==
  ASSUME NEW a, NEW b
  PROVE  <<a>> \o <<b>> = <<a, b>>
<1> DEFINE S == {a, b}
           q == <<a>>
           r == <<b>>
           o == q \o r
           p == <<a, b>>
<1>1. /\ q \in Seq(S) /\ Len(q) = 1 /\ q[1] = a /\ r \in Seq(S) /\ Len(r) = 1 /\ r[1] = b
      /\ p \in Seq(S) /\ Len(p) = 2 /\ p[1] = a /\ p[2] = b
  OBVIOUS
<1> HIDE DEF q, r, p, S
<1>2. o \in Seq(S) /\ Len(o) = 2 /\ \A i \in 1 .. 2 : o[i] = IF i <= 1 THEN q[i] ELSE r[i - 1]
  BY <1>1, ConcatProperties
<1> HIDE DEF o
<1>3. o[1] = a /\ o[2] = b
  BY <1>1, <1>2
<1>4. \A i \in 1 .. Len(o) : o[i] = p[i]
  BY <1>1, <1>2, <1>3
<1>5. o = p
  BY <1>1, <1>2, <1>4, SeqEqual
<1> QED
  BY <1>5 DEF o, q, r, p

LEMMA VacatedShape ==
  ASSUME NEW c, NEW x, NEW e, NEW t, NEW v, NEW f,
         NEW m, m = [campaign |-> c, exit |-> x, candidate |-> e, day |-> t, verified |-> v, funded |-> f],
         NEW o, o = Vacated(m)
  PROVE  o = [campaign |-> NoCampaign, exit |-> "none", candidate |-> e, day |-> t,
              verified |-> v, funded |-> f]
BY DEF Vacated

LEMMA PassesTwice ==
  ASSUME NEW n, NEW p, NEW o, NEW t, Passes(n, p, t), Passes(p, o, t)
  PROVE  Passes(n, o, t)
BY DEF Passes

LEMMA AgesTwice ==
  ASSUME NEW n, NEW p, NEW o, Ages(n, p)
  PROVE  /\ Ages(p, o) => Ages(n, o)
         /\ Adds(p, o) => Adds(n, o)
         /\ AddonDec(p) = AddonDec(n)
<1>1. AddonDec(p) = AddonDec(n)
  BY DEF Ages, AddonDec, AddonDecision
<1>2. Ages(p, o) => Ages(n, o)
  BY DEF Ages
<1>3. Adds(p, o) => Adds(n, o)
  BY DEF Ages, Adds
<1> QED
  BY <1>1, <1>2, <1>3

LEMMA OpenedCases ==
  ASSUME NEW n \in Machines, n.exit = "none", NEW back, NEW recovered,
         NEW d \in Candidates, NEW fits,
         NEW x, x = OpenedNow(n, back, recovered, d, fits)
  PROVE  Opens(n, x)
<1> DEFINE m == ObserveClose(n, back, recovered, d)
           out == ExitAtOpen(m)
<1>8. m = ObserveClose(n, back, recovered, d)
  OBVIOUS
<1>0. out = ExitAtOpen(m)
  OBVIOUS
<1> HIDE DEF m, out
<1>9. OpenedBy(x, out, fits)
  BY <1>8, <1>0, OpenedUnfolds
<1>1. PICK r : /\ x.machine = InNow(out.machine, fits, r).machine
               /\ x.decisions = out.decisions \o InNow(out.machine, fits, r).decisions
  BY <1>9 DEF OpenedBy
<1>2. PICK c, e : Observed(n, d, c, e, m)
  BY <1>8, ObserveCases
<1>3. n.day \in Nat /\ n.day + 1 \in Nat
  BY MachineFacts
<1> DEFINE p == out.machine
           i == InNow(p, fits, r)
           t == n.day + 1
<1>4. /\ x.machine = i.machine /\ x.decisions = out.decisions \o i.decisions
  BY <1>1
<1>5. i = InNow(p, fits, r)
  OBVIOUS
<1>6. CASE e = "none"
  <2>1. c \in Campaigns \cup {NoCampaign}
    <3>1. Occupied(n) => Aged(n.campaign) \in Campaigns
      BY <1>2, <1>6, MachineFacts, AgedFacts DEF Observed
    <3> QED
      BY <1>2, <3>1 DEF Observed
  <2>2. m = Machine(c, e, d, n, t) /\ e \in Exits \cup {"none"}
    BY <1>2 DEF Observed
  <2> HIDE DEF t
  <2>3. /\ m \in Machines /\ m.campaign = c /\ m.exit = "none" /\ m.day = t
        /\ m.verified = n.verified /\ m.funded = n.funded
    BY <1>3, <1>6, <2>1, <2>2, MachineTyped DEF t
  <2>4. out = Opened(m, <<>>)
    BY <1>0, <2>3 DEF ExitAtOpen
  <2>5. p = m /\ out.decisions = <<>>
    BY <2>4, OpenedFields
  <2> HIDE DEF p, i
  <2>6. Passes(n, p, t)
    BY <2>3, <2>5 DEF Passes
  <2>7. Passes(p, i.machine, t)
    BY <1>5, <2>3, <2>5, InCases
  <2>8. Passes(n, i.machine, t)
    BY <2>6, <2>7, PassesTwice
  <2>9. CASE ~Occupied(n)
    <3>1. ~Occupied(p)
      BY <1>2, <2>3, <2>5, <2>9 DEF Observed, Occupied
    <3>2. \/ i.decisions = <<>> /\ ~Occupied(i.machine)
          \/ /\ i.decisions = <<ParentDec(i.machine)>> /\ Starts(i.machine)
             /\ i.machine.campaign.id = t
      BY <1>5, <2>3, <2>5, <3>1, InCases
    <3>3. x.decisions = i.decisions
      BY <1>4, <2>5, <3>2
    <3> QED
      BY <1>4, <2>8, <2>9, <3>2, <3>3 DEF Opens, t
  <2>10. CASE Occupied(n)
    <3>1. Ages(n, p)
      <4>1. Occupied(p)
        BY <1>2, <2>3, <2>5, <2>10, MachineFacts, AgedFacts DEF Observed, Occupied
      <4> QED
        BY <1>2, <2>3, <2>5, <2>10, <4>1 DEF Observed, Ages, Aged
    <3>2. \/ i.decisions = <<>> /\ Ages(p, i.machine)
          \/ i.decisions = <<AddonDec(p)>> /\ Adds(p, i.machine)
      <4>1. Occupied(p)
        BY <3>1 DEF Ages
      <4> QED
        BY <1>5, <2>3, <2>5, <4>1, InCases
    <3>3. x.decisions = i.decisions
      BY <1>4, <2>5, <3>2
    <3>4. \/ i.decisions = <<>> /\ Ages(n, i.machine)
          \/ i.decisions = <<AddonDec(n)>> /\ Adds(n, i.machine)
      BY <3>1, <3>2, AgesTwice
    <3> QED
      BY <1>4, <2>8, <3>3, <3>4 DEF Opens, t
  <2> QED
    BY <2>9, <2>10
<1>7. CASE e # "none"
  <2>1. Occupied(n) /\ c = Aged(n.campaign) /\ m = Machine(c, e, d, n, t)
    BY <1>2, <1>7 DEF Observed
  <2>2. c # NoCampaign /\ c.origin = n.campaign.origin /\ c.id = n.campaign.id
        /\ c.side = n.campaign.side
    BY <2>1, MachineFacts, AgedFacts DEF Aged
  <2>3. m.campaign = c /\ m.exit = e
    BY <2>1 DEF Machine
  <2>4. out = Opened(Vacated(m), <<ExitDec(n)>>)
    BY <1>0, <1>7, <2>2, <2>3 DEF ExitAtOpen, Occupied, ExitDec
  <2>5. p = Vacated(m) /\ out.decisions = <<ExitDec(n)>>
    BY <2>4, OpenedFields
  <2>6. Vacated(m) = Machine(NoCampaign, "none", d, n, t)
    <3>1. m = [campaign |-> c, exit |-> e, candidate |-> d, day |-> t,
               verified |-> n.verified, funded |-> n.funded]
      BY <2>1 DEF Machine
    <3>2. Vacated(m) = [campaign |-> NoCampaign, exit |-> "none", candidate |-> d, day |-> t,
                        verified |-> n.verified, funded |-> n.funded]
      BY <3>1, VacatedShape
    <3> QED
      BY <3>2 DEF Machine
  <2> HIDE DEF t
  <2>7. /\ p \in Machines /\ p.exit = "none" /\ p.day = t /\ ~Occupied(p)
        /\ p.verified = n.verified /\ p.funded = n.funded
    <3> DEFINE z == NoCampaign
               y == "none"
    <3>1. /\ z \in Campaigns \cup {NoCampaign} /\ y \in Exits \cup {"none"} /\ t \in Nat
          /\ n \in Machines /\ d \in Candidates
      BY <1>3 DEF t
    <3>2. p = Machine(z, y, d, n, t)
      BY <2>5, <2>6
    <3> HIDE DEF z, y, p
    <3>3. p \in Machines
      BY <3>1, <3>2, MachineTyped
    <3>4. /\ p.campaign = z /\ p.exit = y /\ p.day = t
          /\ p.verified = n.verified /\ p.funded = n.funded
      BY <3>2 DEF Machine
    <3> QED
      BY <3>3, <3>4 DEF z, y, Occupied
  <2> HIDE DEF p, i
  <2>8. Passes(n, p, t)
    BY <2>7 DEF Passes
  <2>9. /\ Passes(p, i.machine, t)
        /\ \/ i.decisions = <<>> /\ ~Occupied(i.machine)
           \/ /\ i.decisions = <<ParentDec(i.machine)>> /\ Starts(i.machine)
              /\ i.machine.campaign.id = t
    BY <1>5, <2>7, InCases
  <2>10. Passes(n, i.machine, t)
    BY <2>8, <2>9, PassesTwice
  <2>11. CASE i.decisions = <<>> /\ ~Occupied(i.machine)
    <3>1. x.decisions = <<ExitDec(n)>>
      BY <1>4, <2>5, <2>11
    <3> QED
      BY <1>4, <2>1, <2>10, <2>11, <3>1 DEF Opens, t
  <2>12. CASE /\ i.decisions = <<ParentDec(i.machine)>> /\ Starts(i.machine)
              /\ i.machine.campaign.id = t
    <3>1. x.decisions = <<ExitDec(n), ParentDec(i.machine)>>
      BY <1>4, <2>5, <2>12, PairConcat
    <3> QED
      BY <1>4, <2>1, <2>10, <2>12, <3>1 DEF Opens, t
  <2> QED
    BY <2>9, <2>11, <2>12
<1> QED
  BY <1>6, <1>7

-----------------------------------------------------------------------------
(* The decisions of a day, one after the other.                            *)

BarStep(w, d, warm) == IF warm THEN WarmStep(w, d) ELSE LiveStep(w, d)
IsActed(g, A, q, warm) ==
  g = [T \in SUBSET DOMAIN q |->
         IF T = {} THEN A ELSE BarStep(g[T \ {Max(T)}], q[Max(T)], warm)]
Acted(A, q, warm) == (CHOOSE g : IsActed(g, A, q, warm))[DOMAIN q]

\* The open of the day after e.
Opening(n, e) ==
  OpenedNow(ObserveHistoricalPrices(n, e.reached), e.back, e.recovered, e.candidate, e.fits)

WarmDaily(m, l, e, warm) ==
  Acted(Quiet(Opening(m, e).machine, l), Opening(m, e).decisions, warm)
LiveDaily(m, l, e, warm) ==
  LET v == ReversalAt(m, [l EXCEPT !.urgent = {}], Minute(day + 1, 0))
      acted == Acted(Quiet(Opening(v.model, e).machine, v.live),
                     Opening(v.model, e).decisions, warm)
  IN  [acted EXCEPT !.out = ExitsOf(l.urgent, FALSE) \o @]

LEMMA DailyUnfolds ==
  ASSUME NEW m, NEW l, NEW e, NEW warm
  PROVE  OnDaily(m, l, e, warm) =
           IF warm THEN WarmDaily(m, l, e, warm) ELSE LiveDaily(m, l, e, warm)
BY DEF OnDaily, FoldLeft, MapThenFoldSet, WarmDaily, LiveDaily, Acted, IsActed, BarStep,
       Opening, OpenedNow

LEMMA TwoSubsets ==
  /\ \A T \in SUBSET (1 .. 2) : T = {} \/ T = {1} \/ T = {2} \/ T = 1 .. 2
  /\ Max({1}) = 1 /\ Max({2}) = 2 /\ Max(1 .. 2) = 2
  /\ {1} \ {1} = {} /\ {2} \ {2} = {} /\ (1 .. 2) \ {2} = {1}
  /\ {1} \in SUBSET (1 .. 2) /\ {2} \in SUBSET (1 .. 2) /\ {} \in SUBSET (1 .. 2)
  /\ {1} # {} /\ {2} # {} /\ 1 .. 2 # {} /\ {1} # {2} /\ {1} # 1 .. 2 /\ {2} # 1 .. 2
<1>1. 1 .. 2 = {1, 2}
  OBVIOUS
<1>2. \A T \in SUBSET (1 .. 2) : T = {} \/ T = {1} \/ T = {2} \/ T = 1 .. 2
  BY <1>1
<1>3. \A j \in 1 .. 2 : {j} \in SUBSET (0 .. 2) /\ {j} # {}
  OBVIOUS
<1>4. 1 .. 2 \in SUBSET (0 .. 2) /\ 1 .. 2 # {} /\ 2 \in 1 .. 2
  OBVIOUS
<1>5. \A j \in 1 .. 2 : Max({j}) \in {j}
  BY <1>3, MaxOf
<1>6. Max(1 .. 2) \in 1 .. 2 /\ 2 <= Max(1 .. 2)
  BY <1>4, MaxOf
<1>7. Max({1}) = 1 /\ Max({2}) = 2 /\ Max(1 .. 2) = 2
  BY <1>5, <1>6
<1>8. /\ {1} \ {1} = {} /\ {2} \ {2} = {} /\ (1 .. 2) \ {2} = {1}
      /\ {1} \in SUBSET (1 .. 2) /\ {2} \in SUBSET (1 .. 2) /\ {} \in SUBSET (1 .. 2)
      /\ {1} # {} /\ {2} # {} /\ 1 .. 2 # {} /\ {1} # {2} /\ {1} # 1 .. 2 /\ {2} # 1 .. 2
  BY <1>1
<1> QED
  BY <1>2, <1>7, <1>8

LEMMA ActedTwo ==
  ASSUME NEW A, NEW d, NEW e, NEW warm, NEW q, q = <<d, e>>,
         NEW B, B = BarStep(A, d, warm), NEW x, x = Acted(A, q, warm)
  PROVE  x = BarStep(B, e, warm)
<1> DEFINE P == 1 .. 2
           C == BarStep(A, e, warm)
           D == BarStep(B, e, warm)
<1>1. DOMAIN q = P /\ q[1] = d /\ q[2] = e
  OBVIOUS
<1>2. /\ \A T \in SUBSET P : T = {} \/ T = {1} \/ T = {2} \/ T = P
      /\ Max({1}) = 1 /\ Max({2}) = 2 /\ Max(P) = 2
      /\ {1} \ {1} = {} /\ {2} \ {2} = {} /\ P \ {2} = {1}
      /\ {1} \in SUBSET P /\ {2} \in SUBSET P /\ {} \in SUBSET P /\ P \in SUBSET P
      /\ {1} # {} /\ {2} # {} /\ P # {} /\ {1} # {2} /\ {1} # P /\ {2} # P
  BY TwoSubsets
<1>3. C = BarStep(A, e, warm) /\ D = BarStep(B, e, warm)
  OBVIOUS
<1> HIDE DEF P, C, D
<1>4. \E g : IsActed(g, A, q, warm)
  <2> DEFINE g == [T \in SUBSET P |-> IF T = {} THEN A ELSE IF T = {1} THEN B
                                      ELSE IF T = {2} THEN C ELSE D]
  <2>1. \A T \in SUBSET P :
          g[T] = IF T = {} THEN A ELSE IF T = {1} THEN B ELSE IF T = {2} THEN C ELSE D
    OBVIOUS
  <2> HIDE DEF g
  <2>2. g[{}] = A /\ g[{1}] = B
    BY <1>2, <2>1
  <2>3. \A T \in SUBSET P :
          g[T] = IF T = {} THEN A ELSE BarStep(g[T \ {Max(T)}], q[Max(T)], warm)
    <3> SUFFICES ASSUME NEW T \in SUBSET P
                 PROVE  g[T] = IF T = {} THEN A ELSE BarStep(g[T \ {Max(T)}], q[Max(T)], warm)
      OBVIOUS
    <3>1. CASE T = {}
      BY <2>2, <3>1
    <3>2. CASE T = {1}
      <4>1. g[T] = B /\ T # {}
        BY <1>2, <2>1, <2>2, <3>2
      <4>2. T \ {Max(T)} = {} /\ Max(T) = 1
        BY <1>2, <3>2
      <4>3. g[T \ {Max(T)}] = A /\ q[Max(T)] = d
        BY <1>1, <2>2, <4>2
      <4>4. B = BarStep(A, d, warm)
        BY <1>3
      <4>5. g[T] = BarStep(g[T \ {Max(T)}], q[Max(T)], warm)
        BY <4>1, <4>3, <4>4
      <4> QED
        BY <4>1, <4>5
    <3>3. CASE T = {2}
      <4>1. g[T] = C /\ T # {}
        BY <1>2, <2>1, <2>2, <3>3
      <4>2. T \ {Max(T)} = {} /\ Max(T) = 2
        BY <1>2, <3>3
      <4>3. g[T \ {Max(T)}] = A /\ q[Max(T)] = e
        BY <1>1, <2>2, <4>2
      <4>4. C = BarStep(A, e, warm)
        BY <1>3
      <4>5. g[T] = BarStep(g[T \ {Max(T)}], q[Max(T)], warm)
        BY <4>1, <4>3, <4>4
      <4> QED
        BY <4>1, <4>5
    <3>4. CASE T = P
      <4>1. g[T] = D /\ T # {}
        BY <1>2, <2>1, <2>2, <3>4
      <4>2. T \ {Max(T)} = {1} /\ Max(T) = 2
        BY <1>2, <3>4
      <4>3. g[T \ {Max(T)}] = B /\ q[Max(T)] = e
        BY <1>1, <2>2, <4>2
      <4>4. D = BarStep(B, e, warm)
        BY <1>3
      <4>5. g[T] = BarStep(g[T \ {Max(T)}], q[Max(T)], warm)
        BY <4>1, <4>3, <4>4
      <4> QED
        BY <4>1, <4>5
    <3> QED
      BY <1>2, <3>1, <3>2, <3>3, <3>4
  <2>4. g = [T \in SUBSET P |->
               IF T = {} THEN A ELSE BarStep(g[T \ {Max(T)}], q[Max(T)], warm)]
    BY <2>3 DEF g
  <2>5. IsActed(g, A, q, warm)
    BY <1>1, <2>4 DEF IsActed
  <2> QED
    BY <2>5
<1>5. ASSUME NEW g, IsActed(g, A, q, warm)
      PROVE  g[DOMAIN q] = D
  <2>1. \A T \in SUBSET P :
          g[T] = IF T = {} THEN A ELSE BarStep(g[T \ {Max(T)}], q[Max(T)], warm)
    BY <1>1, <1>5 DEF IsActed
  <2>2. g[{}] = A
    BY <1>2, <2>1
  <2>3. g[{1}] = B
    BY <1>1, <1>2, <2>1, <2>2
  <2>4. g[P] = D
    BY <1>1, <1>2, <1>3, <2>1, <2>3
  <2> QED
    BY <1>1, <2>4
<1> QED
  BY <1>3, <1>4, <1>5 DEF Acted

LEMMA ActedOne ==
  ASSUME NEW A, NEW d, NEW warm, NEW q, q = <<d>>, NEW x, x = Acted(A, q, warm)
  PROVE  x = BarStep(A, d, warm)
<1> DEFINE P == {1}
           B == BarStep(A, d, warm)
<1>1. DOMAIN q = P /\ q[1] = d
  OBVIOUS
<1>2. /\ \A T \in SUBSET P : T = {} \/ T = P
      /\ Max(P) = 1 /\ P \ {1} = {} /\ {} \in SUBSET P /\ P \in SUBSET P /\ P # {}
  BY TwoSubsets
<1>3. B = BarStep(A, d, warm)
  OBVIOUS
<1> HIDE DEF P, B
<1>4. \E g : IsActed(g, A, q, warm)
  <2> DEFINE g == [T \in SUBSET P |-> IF T = {} THEN A ELSE B]
  <2>1. g[{}] = A /\ g[P] = B
    BY <1>2
  <2> HIDE DEF g
  <2>3. \A T \in SUBSET P :
          g[T] = IF T = {} THEN A ELSE BarStep(g[T \ {Max(T)}], q[Max(T)], warm)
    <3> SUFFICES ASSUME NEW T \in SUBSET P
                 PROVE  g[T] = IF T = {} THEN A ELSE BarStep(g[T \ {Max(T)}], q[Max(T)], warm)
      OBVIOUS
    <3>1. CASE T = {}
      BY <2>1, <3>1
    <3>2. CASE T = P
      <4>1. g[T] = B /\ T # {}
        BY <1>2, <2>1, <3>2
      <4>2. T \ {Max(T)} = {} /\ Max(T) = 1
        BY <1>2, <3>2
      <4>3. g[T \ {Max(T)}] = A /\ q[Max(T)] = d
        BY <1>1, <2>1, <4>2
      <4>4. B = BarStep(A, d, warm)
        BY <1>3
      <4>5. g[T] = BarStep(g[T \ {Max(T)}], q[Max(T)], warm)
        BY <4>1, <4>3, <4>4
      <4> QED
        BY <4>1, <4>5
    <3> QED
      BY <1>2, <3>1, <3>2
  <2>4. g = [T \in SUBSET P |->
               IF T = {} THEN A ELSE BarStep(g[T \ {Max(T)}], q[Max(T)], warm)]
    BY <2>3 DEF g
  <2>5. IsActed(g, A, q, warm)
    BY <1>1, <2>4 DEF IsActed
  <2> QED
    BY <2>5
<1>5. ASSUME NEW g, IsActed(g, A, q, warm)
      PROVE  g[DOMAIN q] = B
  <2>1. \A T \in SUBSET P :
          g[T] = IF T = {} THEN A ELSE BarStep(g[T \ {Max(T)}], q[Max(T)], warm)
    BY <1>1, <1>5 DEF IsActed
  <2>2. g[{}] = A
    BY <1>2, <2>1
  <2> QED
    BY <1>1, <1>2, <1>3, <2>1, <2>2
<1> QED
  BY <1>3, <1>4, <1>5 DEF Acted

LEMMA ActedNone ==
  ASSUME NEW A, NEW warm, NEW q, q = <<>>, NEW x, x = Acted(A, q, warm)
  PROVE  x = A
<1>1. DOMAIN q = {}
  OBVIOUS
<1>2. \E g : IsActed(g, A, q, warm)
  <2> DEFINE g == [T \in SUBSET {} |-> A]
  <2>1. \A T \in SUBSET {} : T = {}
    OBVIOUS
  <2>2. g = [T \in SUBSET {} |->
               IF T = {} THEN A ELSE BarStep(g[T \ {Max(T)}], q[Max(T)], warm)]
    BY <2>1
  <2>3. IsActed(g, A, q, warm)
    BY <1>1, <2>2 DEF IsActed
  <2> QED
    BY <2>3
<1>3. ASSUME NEW g, IsActed(g, A, q, warm)
      PROVE  g[DOMAIN q] = A
  BY <1>1, <1>3 DEF IsActed
<1> QED
  BY <1>2, <1>3 DEF Acted

-----------------------------------------------------------------------------
(* One decision of a live day.                                             *)

Goes(m, l, out) == Verdict(m, l, out, TRUE)

LEMMA GoesFields ==
  ASSUME NEW m, NEW l, NEW out
  PROVE  /\ Goes(m, l, out).model = m /\ Goes(m, l, out).live = l /\ Goes(m, l, out).out = out
         /\ Goes(m, l, out).ok /\ Quiet(m, l) = Goes(m, l, <<>>)
BY DEF Goes, Verdict, Quiet

LEMMA GoesOut ==
  ASSUME NEW m, NEW l, NEW out, NEW w, w = Goes(m, l, out), NEW q,
         NEW x, x = [w EXCEPT !.out = q]
  PROVE  x = Goes(m, l, q)
BY DEF Goes, Verdict

LEMMA DecisionFields ==
  ASSUME NEW a, NEW i, NEW k, NEW s
  PROVE  /\ Decision(a, i, k, s).kind = a /\ Decision(a, i, k, s).id = i
         /\ Decision(a, i, k, s).k = k /\ Decision(a, i, k, s).side = s
BY DEF Decision

EntryStep(v, d) ==
  LET undone == UndoneIfLive(v.model, v.live, d.k, d.id)
      deferred == Deferred(v.model, v.live, d)
  IN  IF v.live.aborting # {} \/ ~v.model.verified \/ ~v.model.funded
      THEN [undone EXCEPT !.out = v.out]
      ELSE IF v.live.closing # {} THEN [deferred EXCEPT !.out = v.out]
      ELSE IF (d.k > 0 /\ 0 \notin mirror) \/ d.k \in mirror THEN v
      ELSE [v EXCEPT !.out = @ \o <<EntryOf(d.k, d.id, d.side)>>]

ExitStep(v) ==
  Goes(v.model, [v.live EXCEPT !.closing = @ \cup mirror], v.out \o ExitsOf(mirror, FALSE))

LEMMA LiveExits ==
  ASSUME NEW v, v.ok, NEW d, d.kind = "campaign_exit", NEW w, w = LiveStep(v, d)
  PROVE  w = ExitStep(v)
BY DEF LiveStep, Goes, ExitStep

LEMMA LiveEnters ==
  ASSUME NEW v, v.ok, NEW d, d.kind \in {"paper_parent", "paper_addon"}, NEW w, w = LiveStep(v, d)
  PROVE  w = EntryStep(v, d)
<1>1. d.kind # "campaign_exit"
  OBVIOUS
<1> QED
  BY <1>1 DEF LiveStep, EntryStep

LEMMA LiveKeeps ==
  ASSUME NEW v, v.ok, NEW d, d.kind \in {"historical_exit", "historical_addon"},
         NEW w, w = LiveStep(v, d)
  PROVE  w = v
<1>1. d.kind # "campaign_exit" /\ d.kind \notin {"paper_parent", "paper_addon"}
  OBVIOUS
<1> QED
  BY <1>1 DEF LiveStep

LEMMA GoesWhole ==
  ASSUME NEW m, NEW l, NEW out, NEW w, w = Goes(m, l, out)
  PROVE  Whole(w)
BY DEF Goes, Verdict, Whole

\* A new parent is undone, waits for the close of the old stack, or is entered.
ParentUnsent(o, f, w) ==
  /\ w.model \in Machines /\ ~Occupied(w.model) /\ w.model.exit = "none" /\ w.model.day = o.day
  /\ w.live \in Adapters /\ w.live.closing = f.closing /\ w.live.aborting = f.aborting
  /\ w.live.urgent = f.urgent
  /\ w.live.reversal \in
       {NoReversal, [id |-> o.day, side |-> o.campaign.side, at |-> Minute(o.day, 0)]}
ParentSent(o, f, w) ==
  /\ w.model = o /\ w.live = f /\ f.aborting = {} /\ mirror = {}
ParentEntry(o) == EntryOf(0, o.day, o.campaign.side)

LEMMA ParentDecided ==
  ASSUME NEW o \in Machines, o.exit = "none", Starts(o), o.campaign.id = o.day,
         NEW f \in Adapters, f.reversal = NoReversal, f.closing = mirror,
         NEW out, NEW v, v = Goes(o, f, out),
         NEW w, w = LiveStep(v, ParentDec(o))
  PROVE  /\ w.ok /\ Whole(w)
         /\ \/ w.out = out /\ ParentUnsent(o, f, w)
            \/ w.out = out \o <<ParentEntry(o)>> /\ ParentSent(o, f, w)
<1> DEFINE d == ParentDec(o)
<1>1. d.kind = "paper_parent" /\ d.id = o.day /\ d.k = 0 /\ d.side = o.campaign.side
  BY DecisionFields DEF ParentDec
<1>2. v.model = o /\ v.live = f /\ v.out = out /\ v.ok
  BY GoesFields
<1>0. w = LiveStep(v, d)
  OBVIOUS
<1> HIDE DEF d
<1>3. w = EntryStep(v, d)
  BY <1>0, <1>1, <1>2, LiveEnters
<1>4. o.day \in Nat /\ o.campaign.side \in Sides
  BY MachineFacts, CampaignFacts DEF Starts
<1> DEFINE n == [o EXCEPT !.campaign = NoCampaign]
<1>5. n \in Machines /\ ~Occupied(n) /\ n.exit = "none" /\ n.day = o.day
  <2> DEFINE z == NoCampaign
  <2>1. n = [o EXCEPT !.campaign = z] /\ z \in Campaigns \cup {NoCampaign}
    OBVIOUS
  <2> HIDE DEF z
  <2>2. [o EXCEPT !.campaign = z].campaign = z /\ [o EXCEPT !.campaign = z] \in Machines
        /\ [o EXCEPT !.campaign = z].exit = o.exit /\ [o EXCEPT !.campaign = z].day = o.day
    BY <2>1, SetCampaign
  <2> HIDE DEF n
  <2> QED
    BY <2>1, <2>2 DEF Occupied, z
<1>6. CASE v.live.aborting # {} \/ ~v.model.verified \/ ~v.model.funded
  <2>1. w = [UndoneIfLive(o, f, 0, o.day) EXCEPT !.out = out]
    BY <1>1, <1>2, <1>3, <1>6 DEF EntryStep
  <2>2. UndoneIfLive(o, f, 0, o.day) = Quiet(n, f)
    <3>1. UndoneIfLive(o, f, 0, o.day) = AbandonParent(o, f, o.day)
      BY DEF UndoneIfLive, Undone
    <3>2. f.reversal.id # o.day
      BY <1>4 DEF NoReversal
    <3> QED
      BY <3>1, <3>2 DEF AbandonParent, Starts, IsOf
  <2> HIDE DEF n
  <2>3. w = Goes(n, f, out)
    BY <2>1, <2>2, GoesFields, GoesOut
  <2>4. w.out = out /\ w.model = n /\ w.live = f /\ w.ok /\ Whole(w)
    BY <2>3, GoesFields, GoesWhole
  <2> QED
    BY <1>5, <2>4 DEF ParentUnsent
<1>7. CASE ~(v.live.aborting # {} \/ ~v.model.verified \/ ~v.model.funded) /\ v.live.closing # {}
  <2> DEFINE r == [id |-> o.day, side |-> o.campaign.side, at |-> Minute(o.day, 0)]
             g == [f EXCEPT !.reversal = r]
  <2>1. w = [Deferred(o, f, d) EXCEPT !.out = out]
    BY <1>2, <1>3, <1>7 DEF EntryStep
  <2>2. Deferred(o, f, d) = Quiet(n, g)
    BY <1>1 DEF Deferred
  <2>3. r \in [id : Nat, side : Sides, at : Nat]
    BY <1>4, MinutesType DEF Minute
  <2>5. r = [id |-> o.day, side |-> o.campaign.side, at |-> Minute(o.day, 0)]
    OBVIOUS
  <2> HIDE DEF r
  <2>4. g \in Adapters /\ g.closing = f.closing /\ g.aborting = f.aborting /\ g.urgent = f.urgent
        /\ g.reversal = r
    BY <2>3 DEF Adapters
  <2> HIDE DEF n, g
  <2>6. w = Goes(n, g, out)
    BY <2>1, <2>2, GoesFields, GoesOut
  <2>7. w.out = out /\ w.model = n /\ w.live = g /\ w.ok /\ Whole(w)
    BY <2>6, GoesFields, GoesWhole
  <2> QED
    BY <1>5, <2>4, <2>5, <2>7 DEF ParentUnsent
<1>8. CASE /\ ~(v.live.aborting # {} \/ ~v.model.verified \/ ~v.model.funded)
           /\ ~(v.live.closing # {})
  <2>1. mirror = {} /\ f.aborting = {}
    BY <1>2, <1>8
  <2>2. w = [v EXCEPT !.out = @ \o <<EntryOf(0, o.day, o.campaign.side)>>]
    BY <1>1, <1>2, <1>3, <1>8, <2>1 DEF EntryStep
  <2>3. w = [v EXCEPT !.out = out \o <<ParentEntry(o)>>]
    BY <1>2, <2>2 DEF ParentEntry
  <2> DEFINE q == out \o <<ParentEntry(o)>>
  <2>7. w = [v EXCEPT !.out = q]
    BY <2>3
  <2>6. q = out \o <<ParentEntry(o)>>
    OBVIOUS
  <2> HIDE DEF q
  <2>4. w = Goes(o, f, q)
    BY <2>7, GoesOut
  <2>5. w.out = out \o <<ParentEntry(o)>> /\ w.model = o /\ w.live = f /\ w.ok /\ Whole(w)
    <3>1. w.out = q /\ w.model = o /\ w.live = f /\ w.ok /\ Whole(w)
      BY <2>4, GoesFields, GoesWhole
    <3> QED
      BY <3>1 DEF q
  <2> QED
    BY <2>1, <2>5 DEF ParentSent
<1> QED
  BY <1>6, <1>7, <1>8

LEMMA ExitKept ==
  ASSUME NEW p, p.campaign.origin = "historical", NEW v, v.ok, NEW w, w = LiveStep(v, ExitDec(p))
  PROVE  w = v
<1>1. ExitDec(p).kind = "historical_exit"
  BY DecisionFields DEF ExitDec
<1> QED
  BY <1>1, LiveKeeps

\* The stack is on its way out, with the intents q.
ExitGoes(o, f, q, w) ==
  \E g : /\ w = Goes(o, g, q)
         /\ g \in Adapters /\ g.closing = f.closing \cup mirror
         /\ g.aborting = f.aborting /\ g.urgent = f.urgent /\ g.reversal = f.reversal

LEMMA ExitDecided ==
  ASSUME NEW p, p.campaign.origin # "historical", NEW o, NEW f \in Adapters, NEW out,
         NEW v, v = Goes(o, f, out), mirror \in SUBSET Ks,
         NEW w, w = LiveStep(v, ExitDec(p)), NEW q, q = out \o ExitsOf(mirror, FALSE)
  PROVE  ExitGoes(o, f, q, w)
<1> DEFINE d == ExitDec(p)
<1>1. d.kind = "campaign_exit"
  BY DecisionFields DEF ExitDec
<1>2. v.model = o /\ v.live = f /\ v.out = out /\ v.ok
  BY GoesFields
<1>0. w = LiveStep(v, d)
  OBVIOUS
<1> HIDE DEF d
<1>3. w = Goes(v.model, [v.live EXCEPT !.closing = @ \cup mirror], v.out \o ExitsOf(mirror, FALSE))
  BY <1>0, <1>1, <1>2, LiveExits DEF ExitStep
<1> DEFINE c == f.closing \cup mirror
           g == [f EXCEPT !.closing = c]
<1>4. w = Goes(o, g, q)
  BY <1>2, <1>3
<1>5. c \in SUBSET Ks /\ c = f.closing \cup mirror
  BY AdapterFacts
<1> HIDE DEF c
<1>6. g \in Adapters /\ g = [urgent |-> f.urgent, closing |-> c, aborting |-> f.aborting,
                              reversal |-> f.reversal]
  BY <1>5, SetFields
<1> HIDE DEF g
<1>7. /\ g \in Adapters /\ g.closing = c /\ g.aborting = f.aborting /\ g.urgent = f.urgent
      /\ g.reversal = f.reversal
  BY <1>6
<1> QED
  BY <1>4, <1>5, <1>7 DEF ExitGoes

LEMMA AddonDecided ==
  ASSUME NEW p, NEW o, Occupied(p), NEW k \in Ks, k = p.campaign.lifetime, k # 0,
         p.campaign.origin # "historical", IsOf(o, "live"), IsLatestUnfilled(o, k),
         NEW f, f.closing = {}, 0 \in mirror, k \notin mirror,
         NEW out, NEW v, v = Goes(o, f, out), NEW w, w = LiveStep(v, AddonDec(p))
  PROVE  /\ w.ok
         /\ \/ w = Goes(DiscardUnfilledAddon(o, k), f, out)
            \/ /\ w = Goes(o, f, out \o <<EntryOf(k, p.campaign.id, p.campaign.side)>>)
               /\ f.aborting = {}
<1> DEFINE d == AddonDec(p)
<1>1. d.kind = "paper_addon" /\ d.id = p.campaign.id /\ d.k = k /\ d.side = p.campaign.side
  BY DecisionFields DEF AddonDec, AddonDecision
<1>2. v.model = o /\ v.live = f /\ v.out = out /\ v.ok
  BY GoesFields
<1>0. w = LiveStep(v, d)
  OBVIOUS
<1> HIDE DEF d
<1>3. w = EntryStep(v, d)
  BY <1>0, <1>1, <1>2, LiveEnters
<1>4. k > 0
  BY SlotSets
<1>5. CASE v.live.aborting # {} \/ ~v.model.verified \/ ~v.model.funded
  <2>1. w = [UndoneIfLive(o, f, k, d.id) EXCEPT !.out = out]
    BY <1>1, <1>2, <1>3, <1>5 DEF EntryStep
  <2> DEFINE n == DiscardUnfilledAddon(o, k)
  <2>2. UndoneIfLive(o, f, k, d.id) = Quiet(n, f)
    BY DEF UndoneIfLive, Undone
  <2> HIDE DEF n
  <2>3. w = Goes(n, f, out)
    BY <2>1, <2>2, GoesFields, GoesOut
  <2>4. w.ok
    BY <2>3, GoesFields
  <2> QED
    BY <2>3, <2>4 DEF n
<1>6. CASE ~(v.live.aborting # {} \/ ~v.model.verified \/ ~v.model.funded)
  <2> DEFINE q == out \o <<EntryOf(k, p.campaign.id, p.campaign.side)>>
  <2>1. w = [v EXCEPT !.out = @ \o <<EntryOf(d.k, d.id, d.side)>>]
    BY <1>1, <1>2, <1>3, <1>6 DEF EntryStep
  <2>2. w = [v EXCEPT !.out = q]
    BY <1>1, <1>2, <2>1
  <2> HIDE DEF q
  <2>3. w = Goes(o, f, q)
    BY <2>2, GoesOut
  <2>4. w.ok
    BY <2>3, GoesFields
  <2> QED
    BY <1>2, <1>6, <2>3, <2>4 DEF q
<1> QED
  BY <1>5, <1>6

LEMMA AddonKept ==
  ASSUME NEW p, p.campaign.origin = "historical", NEW v, v.ok, NEW w, w = LiveStep(v, AddonDec(p))
  PROVE  w = v
<1>1. AddonDec(p).kind = "historical_addon"
  BY DecisionFields DEF AddonDec, AddonDecision
<1> QED
  BY <1>1, LiveKeeps

-----------------------------------------------------------------------------
(* The opened machine.                                                     *)

\* A campaign that is no undecided parent has no reversal pending, and says what it is.
LEMMA OpenFacts ==
  ASSUME NEW p, NEW f, NEW s, NEW b, Sound(p, f, s, {}, b), NEW h, Between(p, f, h, mirror), Occupied(p)
  PROVE  /\ p \in Machines /\ p.campaign \in Campaigns /\ p.day \in Nat
         /\ f.reversal = NoReversal /\ f.closing = {} /\ NoPapers(p)
         /\ IsOf(p, "historical") \/ IsOf(p, "live")
         /\ IsOf(p, "historical") <=> p.campaign.origin = "historical"
<1>1. p \in Machines /\ p.campaign \in Campaigns /\ p.day \in Nat /\ f.closing = {}
  BY IdleFields, MachineFacts
<1>2. p.campaign.origin \in Origins
  BY <1>1, CampaignFacts
<1>3. f.reversal = NoReversal
  BY DEF Sound, Waits, Between
<1>4. NoPapers(p)
  BY BetweenPapers
<1> QED
  BY <1>1, <1>2, <1>3, <1>4 DEF Between, IsOf, Origins

LEMMA AgesSound ==
  ASSUME NEW p, NEW f, NEW s, NEW b, Sound(p, f, s, {}, b), Between(p, f, Held(s), mirror),
         NEW o, Passes(p, o, p.day + 1), Ages(p, o)
  PROVE  Sound(o, f, s, {}, b) /\ NoPapers(o)
<1>1. /\ p \in Machines /\ p.campaign \in Campaigns /\ p.day \in Nat
      /\ f.reversal = NoReversal /\ f.closing = {} /\ NoPapers(p)
  BY OpenFacts DEF Ages
<1>2. /\ Occupied(p) /\ Occupied(o) /\ o.campaign.id = p.campaign.id
      /\ o.campaign.side = p.campaign.side /\ o.campaign.origin = p.campaign.origin
      /\ o.campaign.lifetime = p.campaign.lifetime /\ o.campaign.units = p.campaign.units
  BY DEF Ages
<1>3. o \in Machines /\ o.exit = "none" /\ o.day = p.day + 1
  BY DEF Passes
<1>4. p.campaign.id \in Nat
  BY <1>1, CampaignFacts
<1>5. Rested(o)
  <2>1. p.campaign.id <= p.day
    BY <1>2 DEF Sound, Rested
  <2>2. o.campaign.id <= o.day
    BY <1>1, <1>2, <1>3, <1>4, <2>1
  <2>3. Rested(p)
    BY DEF Sound
  <2> QED
    BY <1>2, <1>3, <2>2, <2>3 DEF Rested
<1>6. NoPapers(o)
  BY <1>1, <1>2 DEF NoPapers
<1>7. \A a : IsOf(o, a) <=> IsOf(p, a)
  BY <1>2 DEF IsOf
<1>8. \A k : Leaving(p, f, s, k) <=> Leaving(o, f, s, k)
  BY <1>2, <1>7 DEF Leaving
<1> QED
  BY <1>1, <1>2, <1>5, <1>6, <1>7, <1>8 DEF Sound, Waits, Matches

LEMMA AddsSound ==
  ASSUME NEW p, NEW f, NEW s, NEW b \in SUBSET Held(s), Sound(p, f, s, {}, b),
         Between(p, f, Held(s), mirror),
         NEW o, Passes(p, o, p.day + 1), Adds(p, o)
  PROVE  /\ Sound(o, f, s, {}, b)
         /\ IsOf(p, "historical") => NoPapers(o)
         /\ IsOf(p, "live") =>
              /\ IsOf(o, "live") /\ IsLatestUnfilled(o, p.campaign.lifetime)
              /\ p.campaign.lifetime \notin mirror /\ 0 \in mirror
         /\ p.campaign.lifetime \in Ks /\ p.campaign.lifetime # 0
<1>1. /\ p \in Machines /\ p.campaign \in Campaigns /\ p.day \in Nat
      /\ f.reversal = NoReversal /\ f.closing = {} /\ NoPapers(p)
      /\ IsOf(p, "historical") \/ IsOf(p, "live")
      /\ IsOf(p, "historical") <=> p.campaign.origin = "historical"
  BY OpenFacts DEF Adds
<1> DEFINE c == p.campaign
           g == o.campaign
           k == c.lifetime
<1>2. /\ Occupied(p) /\ Occupied(o) /\ g.id = c.id /\ g.side = c.side /\ g.origin = c.origin
      /\ g.lifetime = k + 1 /\ k \in Ks /\ DOMAIN g.units = DOMAIN c.units \cup {k}
      /\ g.units[k].origin = IF c.origin = "historical" THEN "historical" ELSE "paper"
      /\ \A j \in DOMAIN c.units : j # k => g.units[j] = c.units[j]
  BY DEF Adds
<1>3. o \in Machines /\ o.exit = "none" /\ o.day = p.day + 1
  BY DEF Passes
<1>4. c.id \in Nat /\ k \in Nat /\ k # 0 /\ c.id <= p.day /\ DOMAIN c.units \subseteq Ks
  <2>1. c.id \in Nat /\ k \in 1 .. MaxUnits /\ DOMAIN c.units \subseteq Ks
    BY <1>1, CampaignFacts
  <2> QED
    BY <1>2, <2>1, MaxUnitsType DEF Sound, Rested
<1>5. 0 \in DOMAIN c.units /\ \A j \in DOMAIN c.units : j < k
  BY <1>2 DEF Sound, Rested
<1>6. /\ k \notin DOMAIN c.units
      /\ \A j \in DOMAIN c.units : j \in DOMAIN g.units /\ g.units[j] = c.units[j]
  BY <1>2, <1>4, <1>5
<1>7. /\ IsOf(o, "live") <=> IsOf(p, "live")
      /\ IsOf(o, "historical") <=> IsOf(p, "historical")
      /\ IsOf(o, "paper") <=> IsOf(p, "paper")
  BY <1>2 DEF IsOf
<1>8. ~IsOf(p, "paper") /\ c.origin \in Origins
  BY <1>1, CampaignFacts DEF Between
<1>11. /\ g.id <= o.day /\ 0 \in DOMAIN g.units /\ \A j \in DOMAIN g.units : j < g.lifetime
  <2>1. g.id <= o.day
    BY <1>1, <1>2, <1>3, <1>4
  <2>2. \A j \in DOMAIN c.units : j < k + 1
    <3> SUFFICES ASSUME NEW j \in DOMAIN c.units PROVE j < k + 1
      OBVIOUS
    <3>1. j \in Nat /\ j < k
      BY <1>4, <1>5, SlotSets
    <3> HIDE DEF k
    <3> QED
      BY <1>4, <3>1
  <2>3. k < k + 1
    BY <1>4
  <2> QED
    BY <1>2, <1>5, <2>1, <2>2, <2>3
<1>12. CASE IsOf(p, "historical")
  <2>1. /\ c.origin = "historical" /\ \A j \in DOMAIN c.units : c.units[j].origin = "historical"
        /\ Held(s) = {} /\ f.aborting = {}
    BY <1>12 DEF Sound, Rested, IsOf
  <2>2. \A j \in DOMAIN g.units : g.units[j].origin = "historical"
    BY <1>2, <1>6, <2>1
  <2>3. Rested(o)
    BY <1>2, <1>3, <1>11, <2>1, <2>2 DEF Rested
  <2>4. ~IsOf(p, "live") /\ ~IsOf(o, "live") /\ ~IsOf(o, "paper")
    BY <1>7, <1>8, <2>1 DEF IsOf
  <2>5. Sound(o, f, s, {}, b)
    <3>1. b = {} /\ f \in Adapters /\ 0 \notin f.aborting /\ f.closing = {}
      BY <1>2, <2>1, IdleFields
    <3>2. Waits(o, f)
      BY <1>1 DEF Waits
    <3> QED
      BY <1>2, <2>1, <2>3, <2>4, <3>1, <3>2 DEF Sound
  <2>6. NoPapers(o)
    BY <2>2 DEF NoPapers
  <2> QED
    BY <1>2, <1>4, <2>4, <2>5, <2>6
<1>13. CASE IsOf(p, "live")
  <2>1. /\ c.origin = "live" /\ mirror = DOMAIN c.units /\ Held(s) \subseteq mirror
        /\ \A j \in DOMAIN c.units : c.units[j].origin = "live"
    BY <1>13 DEF IsOf, Between
  <2>2. g.units[k].origin = "paper" /\ k \in DOMAIN g.units
    BY <1>2, <2>1
  <2>3. \A j \in DOMAIN g.units : j # k => j \in DOMAIN c.units /\ g.units[j].origin = "live"
    BY <1>2, <1>6, <2>1
  <2>4. Rested(o)
    <3>1. g.units[0].origin = "live" /\ \A j \in DOMAIN g.units : g.units[j].origin # "historical"
      BY <1>4, <1>11, <2>2, <2>3
    <3> QED
      BY <1>2, <1>3, <1>11, <2>1, <3>1 DEF Rested
  <2>5. ~IsOf(o, "historical") /\ ~IsOf(o, "paper") /\ IsOf(o, "live")
    BY <1>2, <2>1 DEF IsOf
  <2>6. \A j \in b : Leaving(o, f, s, j)
    <3>1. \A j \in b : j \in DOMAIN c.units
      BY <2>1
    <3>2. \A j \in b : j \in f.aborting
      BY <1>2, <2>1, <3>1 DEF Sound, Leaving
    <3> QED
      BY <2>5, <3>2 DEF Leaving
  <2>7. /\ 0 \in Held(s) /\ Held(s) \subseteq DOMAIN g.units
        /\ \A j \in DOMAIN c.units \ {0} : j \in Held(s) \cup f.aborting
    BY <1>2, <1>13, <2>1 DEF Sound
  <2>8. \A j \in DOMAIN g.units \ {0} :
          IF g.units[j].origin = "paper" THEN j + 1 = g.lifetime ELSE j \in Held(s) \cup f.aborting
    BY <1>2, <2>2, <2>3, <2>7
  <2>9. \A j \in Held(s) : Matches(s[j], g)
    BY <1>2 DEF Sound, Matches
  <2>10. Sound(o, f, s, {}, b)
    BY <1>1, <1>2, <2>4, <2>5, <2>6, <2>7, <2>8, <2>9 DEF Sound, Waits
  <2>11. IsLatestUnfilled(o, k)
    <3>1. HasUnit(o, k) /\ k + 1 = o.campaign.lifetime /\ o.campaign.units[k].origin = "paper"
      BY <1>2, <2>2 DEF HasUnit
    <3> HIDE DEF k
    <3> QED
      BY <1>2, <1>4, <2>4, <3>1, LatestFacts
  <2> QED
    BY <1>2, <1>4, <1>6, <1>8, <2>1, <2>5, <2>7, <2>10, <2>11 DEF IsOf
<1> QED
  BY <1>1, <1>12, <1>13

-----------------------------------------------------------------------------
(* No slot is offered twice.                                               *)

LEMMA TradedFacts ==
  ASSUME NEW T \in Seq(Nat \X Ks)
  PROVE  /\ Len(T) \in Nat /\ DOMAIN T = 1 .. Len(T)
         /\ \A i \in 1 .. Len(T) : T[i][1] \in Nat /\ T[i][2] \in Ks /\ T[i][2] \in Nat
<1>1. Len(T) \in Nat /\ DOMAIN T = 1 .. Len(T)
  OBVIOUS
<1>2. ASSUME NEW i \in 1 .. Len(T)
      PROVE  T[i][1] \in Nat /\ T[i][2] \in Ks /\ T[i][2] \in Nat
  <2>1. T[i] \in Nat \X Ks
    OBVIOUS
  <2> QED
    BY <2>1, SlotSets
<1> QED
  BY <1>1, <1>2

LEMMA FreshAges ==
  ASSUME NEW p, NEW f, NEW T, NEW n, Fresh(p, f, T, n), NEW o, Ages(p, o)
  PROVE  Fresh(o, f, T, n)
BY DEF Fresh, Ages

LEMMA FreshAdds ==
  ASSUME NEW p \in Machines, NEW f, NEW T \in Seq(Nat \X Ks), Fresh(p, f, T, Len(T)),
         NEW o, Adds(p, o)
  PROVE  Fresh(o, f, T, Len(T))
<1> DEFINE c == p.campaign
           k == c.lifetime
<1>1. /\ Occupied(p) /\ Occupied(o) /\ o.campaign.id = c.id /\ o.campaign.lifetime = k + 1
      /\ DOMAIN o.campaign.units = DOMAIN c.units \cup {k}
      /\ \A j \in DOMAIN c.units : j # k => o.campaign.units[j] = c.units[j]
  BY DEF Adds
<1>2. k \in Nat
  BY <1>1, SlotSets DEF Adds
<1>3. ASSUME NEW i \in 1 .. Len(T), T[i][1] = c.id
      PROVE  /\ T[i][2] < k + 1
             /\ T[i][2] \in DOMAIN o.campaign.units => o.campaign.units[T[i][2]].origin = "live"
  <2>1. T[i][2] < k /\ (T[i][2] \in DOMAIN c.units => c.units[T[i][2]].origin = "live")
    BY <1>1, <1>3 DEF Fresh
  <2>2. T[i][2] \in Nat
    BY TradedFacts
  <2> HIDE DEF k, c
  <2>3. T[i][2] < k + 1 /\ T[i][2] # k
    BY <1>2, <2>1, <2>2
  <2>4. T[i][2] \in DOMAIN o.campaign.units => o.campaign.units[T[i][2]].origin = "live"
    BY <1>1, <2>1, <2>3
  <2> QED
    BY <2>3, <2>4
<1>4. f.reversal # NoReversal => \A i \in 1 .. Len(T) : T[i][1] # f.reversal.id
  BY DEF Fresh
<1> QED
  BY <1>1, <1>3, <1>4 DEF Fresh

\* A campaign and a reversal of a later day than every trade.
LEMMA FreshLater ==
  ASSUME NEW T \in Seq(Nat \X Ks), NEW d \in Nat, \A i \in 1 .. Len(T) : T[i][1] <= d,
         NEW o, Occupied(o) => o.campaign.id = d + 1,
         NEW g, g.reversal # NoReversal => g.reversal.id = d + 1
  PROVE  Fresh(o, g, T, Len(T))
<1>1. \A i \in 1 .. Len(T) : T[i][1] # d + 1
  <2> SUFFICES ASSUME NEW i \in 1 .. Len(T) PROVE T[i][1] # d + 1
    OBVIOUS
  <2>1. T[i][1] \in Nat /\ T[i][1] <= d
    BY TradedFacts
  <2> DEFINE t == T[i][1]
  <2>2. t \in Nat /\ t <= d
    BY <2>1
  <2> HIDE DEF t
  <2>3. t # d + 1
    BY <2>2
  <2> QED
    BY <2>3 DEF t
<1> QED
  BY <1>1 DEF Fresh

-----------------------------------------------------------------------------
(* A live day.                                                             *)

LiveActed(A, q) == Acted(A, q, FALSE)

LEMMA LiveActs ==
  ASSUME NEW A, NEW q, NEW x, x = LiveActed(A, q)
  PROVE  /\ q = <<>> => x = A
         /\ \A d : q = <<d>> => x = LiveStep(A, d)
         /\ \A d, e : q = <<d, e>> => x = LiveStep(LiveStep(A, d), e)
<1> DEFINE warm == FALSE
<1>1. x = Acted(A, q, warm)
  BY DEF LiveActed
<1>2. \A B, d : BarStep(B, d, warm) = LiveStep(B, d)
  BY DEF BarStep
<1> HIDE DEF warm
<1>3. q = <<>> => x = A
  BY <1>1, ActedNone
<1>4. ASSUME NEW d, q = <<d>>
      PROVE  x = LiveStep(A, d)
  <2>1. x = BarStep(A, d, warm)
    BY <1>1, <1>4, ActedOne
  <2> QED
    BY <1>2, <2>1
<1>5. ASSUME NEW d, NEW e, q = <<d, e>>
      PROVE  x = LiveStep(LiveStep(A, d), e)
  <2> DEFINE B == BarStep(A, d, warm)
  <2>1. B = BarStep(A, d, warm)
    OBVIOUS
  <2> HIDE DEF B
  <2>2. x = BarStep(B, e, warm)
    BY <1>1, <1>5, <2>1, ActedTwo
  <2>3. x = LiveStep(B, e) /\ B = LiveStep(A, d)
    BY <1>2, <2>1, <2>2
  <2> QED
    BY <2>3
<1> QED
  BY <1>3, <1>4, <1>5

\* What a completed candle is shown to: no reversal is pending any more.
DayReady(n, g) ==
  /\ slots \in [Ks -> Trades] /\ begun \in SUBSET Held(slots) /\ mirror \in SUBSET Ks
  /\ Sound(n, g, slots, {}, begun) /\ Between(n, g, Held(slots), mirror)
  /\ n.day = model.day /\ g.reversal = NoReversal /\ g.urgent = {}
  /\ traded \in Seq(Nat \X Ks) /\ \A i \in 1 .. Len(traded) : traded[i][1] <= n.day
  /\ ~torn => Fresh(n, g, traded, Len(traded))

\* A verdict of a completed candle; a campaign begins only when nothing is held.
DayDecides(n, v) ==
  /\ Whole(v) /\ Decides(v) /\ v.live.urgent = {}
  /\ Occupied(v.model) /\ ~Occupied(n) => Held(slots) = {}

LEMMA DayFacts ==
  ASSUME NEW n, NEW g, DayReady(n, g)
  PROVE  /\ n \in Machines /\ n.exit = "none" /\ n.day \in Nat /\ model.day <= n.day + 1
         /\ g \in Adapters /\ 0 \notin g.aborting /\ g.reversal = NoReversal /\ g.urgent = {}
         /\ Held(slots) \subseteq mirror /\ mirror \in SUBSET Ks
         /\ Occupied(n) => g.closing = {}
         /\ ~Occupied(n) => g.closing = mirror
         /\ IsOf(n, "historical") => mirror = {}
         /\ Sound(n, g, slots, {}, begun) /\ Between(n, g, Held(slots), mirror)
<1>1. Sound(n, g, slots, {}, begun) /\ Between(n, g, Held(slots), mirror) /\ n.day = model.day
      /\ g.reversal = NoReversal /\ g.urgent = {} /\ mirror \in SUBSET Ks
  BY DEF DayReady
<1>2. /\ n \in Machines /\ n.exit = "none" /\ g \in Adapters /\ 0 \notin g.aborting
      /\ Occupied(n) => g.closing = {}
  BY <1>1, IdleFields
<1>3. n.day \in Nat
  BY <1>2, MachineFacts
<1>4. model.day <= n.day + 1
  BY <1>1, <1>3
<1> QED
  BY <1>1, <1>2, <1>3, <1>4 DEF Between

\* A verdict that enters nothing.
LEMMA DayQuiet ==
  ASSUME NEW n, NEW g, DayReady(n, g),
         NEW o, o.day = n.day + 1, NEW f, f.urgent = {}, NEW q, q \in Seq(Intents),
         \A i \in DOMAIN q : q[i].kind # "entry",
         Sound(o, f, slots, {}, begun), Planned(q, o, f, o, f, slots),
         ~torn => Fresh(o, f, traded, Len(traded)),
         Occupied(o) => Occupied(n),
         NEW v, v = Goes(o, f, q)
  PROVE  DayDecides(n, v)
<1>1. v.model = o /\ v.live = f /\ v.out = q /\ v.ok /\ Whole(v)
  BY GoesFields, GoesWhole
<1>2. ~Entering(q)
  <2>1. q # <<>> => Len(q) \in DOMAIN q
    OBVIOUS
  <2> QED
    BY <2>1 DEF Entering
<1>3. model.day <= o.day
  BY DayFacts
<1> QED
  BY <1>1, <1>2, <1>3 DEF DayDecides, Decides

LEMMA NoIntents ==
  /\ <<>> \in Seq(Intents) /\ \A i \in DOMAIN <<>> : <<>>[i].kind # "entry"
OBVIOUS

\* There is no campaign, or it has been hypothetical, and none begins.
LEMMA DayIdle ==
  ASSUME NEW n, NEW g, DayReady(n, g), ~Occupied(n) \/ n.campaign.origin = "historical",
         NEW o, Passes(n, o, n.day + 1), ~Occupied(o),
         NEW v, v = Goes(o, g, <<>>)
  PROVE  DayDecides(n, v)
<1>1. /\ g \in Adapters /\ 0 \notin g.aborting /\ g.reversal = NoReversal /\ g.urgent = {}
      /\ Held(slots) \subseteq g.closing /\ n.day \in Nat
  BY DayFacts DEF IsOf
<1>2. o \in Machines /\ o.exit = "none" /\ o.day = n.day + 1
  BY DEF Passes
<1> DEFINE z == {}
           d == n.day
<1>3. Sound(o, g, slots, z, begun)
  BY <1>1, <1>2, IdleSound
<1>4. Planned(<<>>, o, g, o, g, slots)
  <2>1. NoPapers(o)
    BY DEF NoPapers
  <2> QED
    BY <2>1, PlannedNothing
<1>5. ~torn => Fresh(o, g, traded, Len(traded))
  BY <1>1, FreshLater DEF DayReady
<1>6. Sound(o, g, slots, {}, begun)
  BY <1>3
<1> DEFINE q == <<>>
<1>7. /\ q \in Seq(Intents) /\ \A i \in DOMAIN q : q[i].kind # "entry"
      /\ Planned(q, o, g, o, g, slots) /\ v = Goes(o, g, q)
  BY <1>4, NoIntents
<1> HIDE DEF q
<1> QED
  BY <1>1, <1>2, <1>5, <1>6, <1>7, DayQuiet

LEMMA DayAges ==
  ASSUME NEW n, NEW g, DayReady(n, g),
         NEW o, Passes(n, o, n.day + 1), Ages(n, o),
         NEW v, v = Goes(o, g, <<>>)
  PROVE  DayDecides(n, v)
<1>1. Sound(n, g, slots, {}, begun) /\ Between(n, g, Held(slots), mirror) /\ g.urgent = {}
  BY DEF DayReady
<1>2. Sound(o, g, slots, {}, begun) /\ NoPapers(o)
  BY <1>1, AgesSound
<1>3. Planned(<<>>, o, g, o, g, slots)
  BY <1>2, PlannedNothing
<1>4. ~torn => Fresh(o, g, traded, Len(traded))
  BY FreshAges DEF DayReady
<1>5. o.day = n.day + 1 /\ Occupied(n)
  BY DEF Passes, Ages
<1> DEFINE q == <<>>
<1>6. /\ q \in Seq(Intents) /\ \A i \in DOMAIN q : q[i].kind # "entry"
      /\ Planned(q, o, g, o, g, slots) /\ v = Goes(o, g, q)
  BY <1>3, NoIntents
<1> HIDE DEF q
<1> QED
  BY <1>1, <1>2, <1>4, <1>5, <1>6, DayQuiet

\* Exits of what the mirror shows.
Departing(q) ==
  /\ q \in Seq(Intents)
  /\ \A i \in DOMAIN q : q[i].kind = "exit" /\ ~q[i].abort /\ q[i].k \in mirror

LEMMA DepartingMade ==
  ASSUME mirror \in SUBSET Ks, NEW q, q = <<>> \o ExitsOf(mirror, FALSE)
  PROVE  Departing(q)
<1> DEFINE a == FALSE
           r == ExitsOf(mirror, a)
<1>1. r = ExitsOf(mirror, a) /\ a \in BOOLEAN /\ ~a /\ q = <<>> \o r
  OBVIOUS
<1> HIDE DEF a, r
<1>2. r \in Seq(Intents) /\ \A i \in DOMAIN r : r[i].kind = "exit" /\ r[i].k \in mirror /\ r[i].abort = a
  BY <1>1, ExitsFacts
<1>3. q = r
  <2>1. <<>> \o r = r
    BY <1>2
  <2> QED
    BY <1>1, <2>1
<1> QED
  BY <1>1, <1>2, <1>3 DEF Departing

LEMMA DepartingExits ==
  ASSUME NEW q, Departing(q), NEW o, NEW f, Occupied(o) => mirror \cap Held(slots) = {}
  PROVE  OnlyExits(q, o, f, o, f, slots)
BY DEF Departing, OnlyExits, ExitWell, Leaving

LEMMA DayExits ==
  ASSUME NEW n, NEW g, DayReady(n, g), Occupied(n),
         NEW o, Passes(n, o, n.day + 1), ~Occupied(o),
         NEW v, v = LiveStep(Goes(o, g, <<>>), ExitDec(n))
  PROVE  DayDecides(n, v)
<1>1. /\ g \in Adapters /\ 0 \notin g.aborting /\ g.reversal = NoReversal /\ g.urgent = {}
      /\ Held(slots) \subseteq mirror /\ mirror \in SUBSET Ks /\ n.day \in Nat
  BY DayFacts
<1>2. o \in Machines /\ o.exit = "none" /\ o.day = n.day + 1
  BY DEF Passes
<1> DEFINE A == Goes(o, g, <<>>)
           z == <<>>
<1>3. A = Goes(o, g, z)
  OBVIOUS
<1>0. v = LiveStep(A, ExitDec(n))
  OBVIOUS
<1> HIDE DEF A
<1> DEFINE q == z \o ExitsOf(mirror, FALSE)
<1>6. q = z \o ExitsOf(mirror, FALSE)
  OBVIOUS
<1>7. Departing(q)
  BY <1>1, DepartingMade
<1> HIDE DEF q, z
<1>4. CASE n.campaign.origin = "historical"
  <2>1. v = A
    <3>1. A.ok
      BY <1>3, GoesFields
    <3> QED
      BY <1>0, <1>4, <3>1, ExitKept
  <2>2. v = Goes(o, g, <<>>)
    BY <1>3, <2>1 DEF z
  <2> QED
    BY <1>4, <2>2, DayIdle
<1>5. CASE n.campaign.origin # "historical"
  <2>9. ExitGoes(o, g, q, v)
    BY <1>0, <1>1, <1>3, <1>5, <1>6, ExitDecided
  <2>1. PICK h : /\ v = Goes(o, h, q)
                 /\ h \in Adapters /\ h.closing = g.closing \cup mirror
                 /\ h.aborting = g.aborting /\ h.urgent = g.urgent /\ h.reversal = g.reversal
    BY <2>9 DEF ExitGoes
  <2>2. Departing(q)
    BY <1>7
  <2>3. v = Goes(o, h, q)
    BY <2>1
  <2>4. OnlyExits(q, o, h, o, h, slots)
    BY <2>2, DepartingExits
  <2>5. /\ q \in Seq(Intents) /\ \A i \in DOMAIN q : q[i].kind # "entry"
    BY <2>2 DEF Departing
  <2>6. Planned(q, o, h, o, h, slots)
    <3> DEFINE r == <<>>
               p == q \o r
    <3>1. r \in Seq(Intents) /\ Planned(r, o, h, o, h, slots)
      <4>1. NoPapers(o)
        BY DEF NoPapers
      <4> QED
        BY <4>1, PlannedNothing
    <3>2. p = q \o r /\ p = q
      BY <2>5
    <3> HIDE DEF r, p
    <3> QED
      BY <2>4, <3>1, <3>2, PlannedJoin
  <2>7. Sound(o, h, slots, {}, begun)
    <3> DEFINE e == {}
    <3>1. Held(slots) \subseteq h.closing /\ 0 \notin h.aborting /\ h.reversal = NoReversal
      BY <1>1, <2>1
    <3> HIDE DEF e
    <3>2. Sound(o, h, slots, e, begun)
      BY <1>2, <2>1, <3>1, IdleSound
    <3> QED
      BY <3>2 DEF e
  <2>8. ~torn => Fresh(o, h, traded, Len(traded))
    BY <1>1, <2>1, FreshLater DEF DayReady
  <2> QED
    BY <1>1, <1>2, <2>1, <2>3, <2>5, <2>6, <2>7, <2>8, DayQuiet
<1> QED
  BY <1>4, <1>5

\* A campaign begins, after exits q of what is held.
LEMMA ParentPlanned ==
  ASSUME NEW n, NEW g, DayReady(n, g),
         NEW o, Passes(n, o, n.day + 1), Starts(o), o.campaign.id = n.day + 1,
         NEW f \in Adapters, f.closing = mirror, f.aborting = g.aborting, f.urgent = {},
         f.reversal = NoReversal,
         NEW q, Departing(q),
         NEW v, v = LiveStep(Goes(o, f, q), ParentDec(o))
  PROVE  DayDecides(n, v)
<1>1. /\ 0 \notin f.aborting /\ Held(slots) \subseteq mirror /\ mirror \in SUBSET Ks
      /\ n.day \in Nat /\ model.day <= n.day + 1
  BY DayFacts
<1>2. o \in Machines /\ o.exit = "none" /\ o.day = n.day + 1 /\ o.campaign.id = o.day
  BY DEF Passes
<1>3. /\ v.ok /\ Whole(v)
      /\ \/ v.out = q /\ ParentUnsent(o, f, v)
         \/ v.out = q \o <<ParentEntry(o)>> /\ ParentSent(o, f, v)
  <2> DEFINE A == Goes(o, f, q)
  <2>1. A = Goes(o, f, q) /\ v = LiveStep(A, ParentDec(o))
    OBVIOUS
  <2> HIDE DEF A
  <2> QED
    BY <1>2, <2>1, ParentDecided
<1>4. q \in Seq(Intents) /\ traded \in Seq(Nat \X Ks)
      /\ \A i \in 1 .. Len(traded) : traded[i][1] <= n.day
  BY DEF Departing, DayReady
<1>5. CASE v.out = q /\ ParentUnsent(o, f, v)
  <2> DEFINE m == v.model
             h == v.live
  <2>1. /\ m \in Machines /\ ~Occupied(m) /\ m.exit = "none" /\ m.day = n.day + 1
        /\ h \in Adapters /\ h.closing = mirror /\ h.aborting = f.aborting /\ h.urgent = {}
        /\ h.reversal # NoReversal => h.reversal.id = n.day + 1
                                      /\ h.reversal.at = Minute(h.reversal.id, 0)
    BY <1>2, <1>5 DEF ParentUnsent
  <2> HIDE DEF m, h
  <2>2. OnlyExits(q, m, h, m, h, slots)
    BY <2>1, DepartingExits
  <2>3. Planned(q, m, h, m, h, slots) /\ ~Entering(q)
    <3> DEFINE r == <<>>
               p == q \o r
    <3>1. r \in Seq(Intents) /\ Planned(r, m, h, m, h, slots) /\ ~Entering(r)
      <4>1. NoPapers(m)
        BY <2>1 DEF NoPapers
      <4> QED
        BY <4>1, PlannedNothing
    <3>2. p = q \o r /\ p = q
      BY <1>4
    <3> HIDE DEF r, p
    <3>3. Planned(p, m, h, m, h, slots) /\ SameEnd(p, r)
      BY <1>4, <2>2, <3>1, <3>2, PlannedJoin
    <3> QED
      BY <3>1, <3>2, <3>3 DEF SameEnd
  <2>4. Sound(m, h, slots, {}, begun)
    <3> DEFINE e == {}
    <3>1. h.reversal # NoReversal =>
            h.reversal.id <= m.day /\ h.reversal.at = Minute(h.reversal.id, 0)
      BY <1>1, <2>1
    <3> HIDE DEF e
    <3>2. Sound(m, h, slots, e, begun)
      BY <1>1, <2>1, <3>1, IdleSound
    <3> QED
      BY <3>2 DEF e
  <2>5. ~torn => Fresh(m, h, traded, Len(traded))
    BY <1>1, <1>4, <2>1, FreshLater
  <2>6. model.day <= m.day
    BY <1>1, <2>1
  <2> QED
    BY <1>3, <1>4, <1>5, <2>1, <2>3, <2>4, <2>5, <2>6 DEF DayDecides, Decides, m, h
<1>6. CASE v.out = q \o <<ParentEntry(o)>> /\ ParentSent(o, f, v)
  <2>1. v.model = o /\ v.live = f /\ f.aborting = {} /\ mirror = {}
    BY <1>6 DEF ParentSent
  <2>2. Held(slots) = {} /\ begun = {} /\ slots[0] = NoTrade
    BY <1>1, <2>1, TradeFacts, SlotSets DEF DayReady
  <2> DEFINE i == ParentEntry(o)
             r == <<i>>
             w == v.out
  <2>3. /\ i \in Intents /\ i.kind = "entry" /\ i.k = 0 /\ i.id = o.day
        /\ i.side = o.campaign.side
    <3>1. o.day \in Nat /\ o.campaign.side \in Sides
      BY <1>1, <1>2, CampaignFacts DEF Starts
    <3> QED
      BY <3>1, SlotSets DEF ParentEntry, EntryOf, Intents
  <2>4. r = <<i>> /\ w = q \o r
    BY <1>6
  <2> HIDE DEF i, r, w
  <2>5. EntryWell(i, o, f, o, f)
    BY <1>2, <2>1, <2>3 DEF EntryWell, HasUnit, Starts
  <2>6. \A k \in DOMAIN o.campaign.units : o.campaign.units[k].origin = "paper" => k = i.k
    BY <2>3 DEF Starts
  <2>7. /\ Planned(r, o, f, o, f, slots) /\ r \in Seq(Intents) /\ Entering(r) /\ r[Len(r)] = i
    BY <2>3, <2>4, <2>5, <2>6, PlannedEntry
  <2>8. OnlyExits(q, o, f, o, f, slots)
    BY <2>2, DepartingExits
  <2>9. w \in Seq(Intents) /\ Planned(w, o, f, o, f, slots) /\ SameEnd(w, r)
    BY <2>4, <2>7, <2>8, PlannedJoin
  <2>10. Entering(w) => slots[w[Len(w)].k] = NoTrade
    BY <2>2, <2>3, <2>7, <2>9 DEF SameEnd
  <2>11. Sound(o, f, slots, {}, begun)
    <3>1. o.campaign.id <= o.day
      BY <1>1, <1>2
    <3> QED
      BY <1>1, <1>2, <2>1, <2>2, <3>1, StartsSound
  <2>12. ~torn => Fresh(o, f, traded, Len(traded))
    BY <1>1, <1>4, FreshLater
  <2>13. model.day <= o.day
    BY <1>1, <1>2
  <2> QED
    BY <1>3, <2>1, <2>2, <2>9, <2>10, <2>11, <2>12, <2>13 DEF DayDecides, Decides, w
<1> QED
  BY <1>3, <1>5, <1>6

LEMMA DayParent ==
  ASSUME NEW n, NEW g, DayReady(n, g), ~Occupied(n),
         NEW o, Passes(n, o, n.day + 1), Starts(o), o.campaign.id = n.day + 1,
         NEW v, v = LiveStep(Goes(o, g, <<>>), ParentDec(o))
  PROVE  DayDecides(n, v)
<1>1. g \in Adapters /\ g.closing = mirror /\ g.urgent = {} /\ g.reversal = NoReversal
  BY DayFacts
<1> DEFINE q == <<>>
<1>2. Departing(q) /\ v = LiveStep(Goes(o, g, q), ParentDec(o))
  BY DEF Departing
<1> HIDE DEF q
<1> QED
  BY <1>1, <1>2, ParentPlanned

\* The campaign is over, and its successor begins at the same open.
LEMMA DayTurns ==
  ASSUME NEW n, NEW g, DayReady(n, g), Occupied(n),
         NEW o, Passes(n, o, n.day + 1), Starts(o), o.campaign.id = n.day + 1,
         NEW v, v = LiveStep(LiveStep(Goes(o, g, <<>>), ExitDec(n)), ParentDec(o))
  PROVE  DayDecides(n, v)
<1>1. /\ g \in Adapters /\ g.closing = {} /\ g.urgent = {} /\ g.reversal = NoReversal
      /\ mirror \in SUBSET Ks
      /\ IsOf(n, "historical") => mirror = {}
  BY DayFacts
<1> DEFINE z == <<>>
           A == Goes(o, g, z)
           w == LiveStep(A, ExitDec(n))
           q == z \o ExitsOf(mirror, FALSE)
<1>2. A = Goes(o, g, z) /\ w = LiveStep(A, ExitDec(n)) /\ v = LiveStep(w, ParentDec(o))
      /\ q = z \o ExitsOf(mirror, FALSE)
  OBVIOUS
<1>3. Departing(z)
  BY DEF Departing
<1>4. Departing(q)
  BY <1>1, DepartingMade
<1> HIDE DEF z, A, w, q
<1>5. CASE n.campaign.origin = "historical"
  <2>1. A.ok
    BY <1>2, GoesFields
  <2>2. w = A
    BY <1>2, <1>5, <2>1, ExitKept
  <2>3. mirror = {}
    BY <1>1, <1>5 DEF IsOf
  <2>4. g.closing = mirror /\ v = LiveStep(Goes(o, g, z), ParentDec(o))
    BY <1>1, <1>2, <2>2, <2>3
  <2> QED
    BY <1>1, <1>3, <2>4, ParentPlanned
<1>6. CASE n.campaign.origin # "historical"
  <2>1. ExitGoes(o, g, q, w)
    BY <1>1, <1>2, <1>6, ExitDecided
  <2>2. PICK h : /\ w = Goes(o, h, q)
                 /\ h \in Adapters /\ h.closing = g.closing \cup mirror
                 /\ h.aborting = g.aborting /\ h.urgent = g.urgent /\ h.reversal = g.reversal
    BY <2>1 DEF ExitGoes
  <2>3. h.closing = mirror /\ h.urgent = {} /\ h.reversal = NoReversal
        /\ v = LiveStep(Goes(o, h, q), ParentDec(o))
    BY <1>1, <1>2, <2>2
  <2> QED
    BY <1>4, <2>2, <2>3, ParentPlanned
<1> QED
  BY <1>5, <1>6

\* An add-on that must not be sent is undone.
LEMMA DayDiscards ==
  ASSUME NEW n, NEW g, DayReady(n, g),
         NEW o, Passes(n, o, n.day + 1), Adds(n, o), IsOf(o, "live"), NEW k \in Ks,
         IsLatestUnfilled(o, k), k \notin mirror,
         NEW v, v = Goes(DiscardUnfilledAddon(o, k), g, <<>>)
  PROVE  DayDecides(n, v)
<1> DEFINE p == DiscardUnfilledAddon(o, k)
           q == <<>>
<1>1. p = DiscardUnfilledAddon(o, k) /\ v = Goes(p, g, q)
  OBVIOUS
<1> HIDE DEF p, q
<1>2. /\ Sound(n, g, slots, {}, begun) /\ Between(n, g, Held(slots), mirror) /\ g.urgent = {}
      /\ slots \in [Ks -> Trades] /\ begun \in SUBSET Held(slots)
      /\ Held(slots) \subseteq mirror /\ n \in Machines
  BY DayFacts DEF DayReady
<1>3. Sound(o, g, slots, {}, begun)
  BY <1>2, AddsSound
<1>4. /\ HasUnit(o, k) /\ k # 0 /\ o.campaign.units[k].origin = "paper"
  BY SlotSets DEF IsLatestUnfilled
<1>5. Sound(p, g, slots, {}, begun) /\ Shrinks(o, g, p, g) /\ AllLive(p, DOMAIN o.campaign.units \ {k})
  <2> DEFINE z == {}
  <2>1. z \in SUBSET Ks /\ k \notin Held(slots) \cup z /\ Sound(o, g, slots, z, begun)
    BY <1>2, <1>3
  <2> HIDE DEF z
  <2>2. Sound(p, g, slots, z, begun) /\ Shrinks(o, g, p, g)
        /\ AllLive(p, DOMAIN o.campaign.units \ {k})
    BY <1>1, <1>2, <1>4, <2>1, DiscardSound
  <2> QED
    BY <2>2 DEF z
<1>6. Planned(q, p, g, p, g, slots)
  <2>1. NoPapers(p)
    BY <1>5 DEF AllLive, NoPapers
  <2> QED
    BY <2>1, PlannedNothing DEF q
<1>7. ~torn => Fresh(p, g, traded, Len(traded))
  <2> SUFFICES ASSUME ~torn PROVE Fresh(p, g, traded, Len(traded))
    OBVIOUS
  <2>1. Fresh(o, g, traded, Len(traded))
    BY <1>2, FreshAdds DEF DayReady
  <2>2. Len(traded) \in Nat /\ \A i \in 1 .. Len(traded) : traded[i][2] \in Ks
    BY TradedFacts DEF DayReady
  <2> QED
    BY <1>5, <2>1, <2>2, ShrinkFresh
<1>8. p.day = n.day + 1 /\ Occupied(n)
  BY <1>5 DEF Passes, Adds, Shrinks
<1>9. q \in Seq(Intents) /\ \A i \in DOMAIN q : q[i].kind # "entry"
  BY NoIntents DEF q
<1> QED
  BY <1>1, <1>2, <1>5, <1>6, <1>7, <1>8, <1>9, DayQuiet

LEMMA DayEnters ==
  ASSUME NEW n, NEW g, DayReady(n, g), g.aborting = {},
         NEW o, Passes(n, o, n.day + 1), Adds(n, o), NEW k \in Ks,
         IsOf(o, "live"), IsLatestUnfilled(o, k), k \notin mirror,
         NEW i, i = EntryOf(k, n.campaign.id, n.campaign.side),
         NEW v, v = Goes(o, g, <<>> \o <<i>>)
  PROVE  DayDecides(n, v)
<1>1. /\ Sound(n, g, slots, {}, begun) /\ Between(n, g, Held(slots), mirror) /\ g.urgent = {}
      /\ slots \in [Ks -> Trades] /\ begun \in SUBSET Held(slots)
      /\ Held(slots) \subseteq mirror /\ n \in Machines /\ model.day <= n.day + 1
  BY DayFacts DEF DayReady
<1>2. Sound(o, g, slots, {}, begun)
  BY <1>1, AddsSound
<1>3. /\ HasUnit(o, k) /\ k # 0 /\ o.campaign.units[k].origin = "paper"
  BY SlotSets DEF IsLatestUnfilled
<1>4. /\ Occupied(n) /\ o.day = n.day + 1
      /\ o.campaign.id = n.campaign.id /\ o.campaign.side = n.campaign.side
      /\ n.campaign.id \in Nat /\ n.campaign.side \in Sides
  BY <1>1, MachineFacts, CampaignFacts DEF Passes, Adds
<1>5. /\ i \in Intents /\ i.kind = "entry" /\ i.k = k /\ i.id = o.campaign.id
      /\ i.side = o.campaign.side
  BY <1>4 DEF EntryOf, Intents
<1>6. EntryWell(i, o, g, o, g)
  BY <1>3, <1>5 DEF EntryWell
<1>7. \A j \in DOMAIN o.campaign.units : o.campaign.units[j].origin = "paper" => j = i.k
  BY <1>2, <1>3, <1>5, PaperFacts
<1> DEFINE q == <<i>>
<1>8. v = Goes(o, g, q)
  <2>1. <<>> \o <<i>> = <<i>>
    BY <1>5
  <2> QED
    BY <2>1
<1>9. q = <<i>>
  OBVIOUS
<1> HIDE DEF q
<1>10. /\ Planned(q, o, g, o, g, slots) /\ q \in Seq(Intents) /\ Entering(q) /\ q[Len(q)] = i
  BY <1>5, <1>6, <1>7, <1>9, PlannedEntry
<1>11. slots[k] = NoTrade
  BY <1>1, TradeFacts
<1>12. ~torn => Fresh(o, g, traded, Len(traded))
  BY <1>1, FreshAdds DEF DayReady
<1>13. v.model = o /\ v.live = g /\ v.out = q /\ v.ok /\ Whole(v)
  BY <1>8, GoesFields, GoesWhole
<1> QED
  BY <1>1, <1>2, <1>4, <1>5, <1>10, <1>11, <1>12, <1>13 DEF DayDecides, Decides

LEMMA DayAdds ==
  ASSUME NEW n, NEW g, DayReady(n, g),
         NEW o, Passes(n, o, n.day + 1), Adds(n, o),
         NEW v, v = LiveStep(Goes(o, g, <<>>), AddonDec(n))
  PROVE  DayDecides(n, v)
<1> DEFINE k == n.campaign.lifetime
           z == <<>>
           A == Goes(o, g, z)
<1>1. /\ Sound(n, g, slots, {}, begun) /\ Between(n, g, Held(slots), mirror) /\ g.urgent = {}
      /\ begun \in SUBSET Held(slots) /\ Occupied(n)
      /\ n \in Machines
  BY DayFacts DEF DayReady, Adds
<1>2. /\ Sound(o, g, slots, {}, begun) /\ k \in Ks /\ k # 0
      /\ IsOf(n, "historical") => NoPapers(o)
      /\ IsOf(n, "live") => /\ IsOf(o, "live") /\ IsLatestUnfilled(o, k)
                            /\ k \notin mirror /\ 0 \in mirror
  BY <1>1, AddsSound
<1>3. /\ IsOf(n, "historical") \/ IsOf(n, "live")
      /\ IsOf(n, "historical") <=> n.campaign.origin = "historical"
      /\ g.closing = {}
  BY <1>1, OpenFacts
<1>4. A = Goes(o, g, z) /\ v = LiveStep(A, AddonDec(n)) /\ k = n.campaign.lifetime
  OBVIOUS
<1> HIDE DEF A, z, k
<1>5. CASE IsOf(n, "historical")
  <2>1. A.ok
    BY <1>4, GoesFields
  <2>2. v = A
    BY <1>3, <1>4, <1>5, <2>1, AddonKept
  <2>3. Planned(z, o, g, o, g, slots)
    BY <1>2, <1>5, PlannedNothing DEF z
  <2>4. ~torn => Fresh(o, g, traded, Len(traded))
    BY <1>1, FreshAdds DEF DayReady
  <2>5. z \in Seq(Intents) /\ \A i \in DOMAIN z : z[i].kind # "entry"
    BY NoIntents DEF z
  <2>6. o.day = n.day + 1
    BY DEF Passes
  <2> QED
    BY <1>1, <1>2, <1>4, <2>2, <2>3, <2>4, <2>5, <2>6, DayQuiet
<1>6. CASE IsOf(n, "live") /\ n.campaign.origin # "historical"
  <2> DEFINE i == EntryOf(k, n.campaign.id, n.campaign.side)
  <2>0. i = EntryOf(k, n.campaign.id, n.campaign.side)
    OBVIOUS
  <2>1. \/ v = Goes(DiscardUnfilledAddon(o, k), g, z)
        \/ v = Goes(o, g, z \o <<i>>) /\ g.aborting = {}
    BY <1>1, <1>2, <1>3, <1>4, <1>6, AddonDecided
  <2> HIDE DEF i
  <2>2. CASE v = Goes(DiscardUnfilledAddon(o, k), g, z)
    BY <1>2, <1>6, <2>2, DayDiscards DEF z
  <2>3. CASE v = Goes(o, g, z \o <<i>>) /\ g.aborting = {}
    BY <1>2, <1>6, <2>0, <2>3, DayEnters DEF z
  <2> QED
    BY <2>1, <2>2, <2>3
<1> QED
  BY <1>3, <1>5, <1>6

LEMMA OpenDecides ==
  ASSUME NEW n, NEW g, DayReady(n, g), NEW x, Opens(n, x),
         NEW v, v = LiveActed(Goes(x.machine, g, <<>>), x.decisions)
  PROVE  DayDecides(n, v)
<1> DEFINE o == x.machine
           q == x.decisions
           A == Goes(o, g, <<>>)
<1>1. Passes(n, o, n.day + 1)
  BY DEF Opens
<1>2. A = Goes(o, g, <<>>) /\ v = LiveActed(A, q)
  OBVIOUS
<1>3. \/ q = <<>> /\ ~Occupied(n) /\ ~Occupied(o)
      \/ q = <<>> /\ Ages(n, o)
      \/ q = <<ExitDec(n)>> /\ Occupied(n) /\ ~Occupied(o)
      \/ q = <<ParentDec(o)>> /\ ~Occupied(n) /\ Starts(o) /\ o.campaign.id = n.day + 1
      \/ q = <<ExitDec(n), ParentDec(o)>> /\ Occupied(n) /\ Starts(o) /\ o.campaign.id = n.day + 1
      \/ q = <<AddonDec(n)>> /\ Adds(n, o)
  BY DEF Opens
<1> HIDE DEF o, q, A
<1>4. /\ q = <<>> => v = A
      /\ \A d : q = <<d>> => v = LiveStep(A, d)
      /\ \A d, e : q = <<d, e>> => v = LiveStep(LiveStep(A, d), e)
  BY <1>2, LiveActs
<1>5. CASE q = <<>> /\ ~Occupied(n) /\ ~Occupied(o)
  BY <1>1, <1>2, <1>4, <1>5, DayIdle
<1>6. CASE q = <<>> /\ Ages(n, o)
  BY <1>1, <1>2, <1>4, <1>6, DayAges
<1>7. CASE q = <<ExitDec(n)>> /\ Occupied(n) /\ ~Occupied(o)
  <2>1. v = LiveStep(Goes(o, g, <<>>), ExitDec(n))
    BY <1>2, <1>4, <1>7
  <2> QED
    BY <1>1, <1>7, <2>1, DayExits
<1>8. CASE q = <<ParentDec(o)>> /\ ~Occupied(n) /\ Starts(o) /\ o.campaign.id = n.day + 1
  <2>1. v = LiveStep(Goes(o, g, <<>>), ParentDec(o))
    BY <1>2, <1>4, <1>8
  <2> QED
    BY <1>1, <1>8, <2>1, DayParent
<1>9. CASE /\ q = <<ExitDec(n), ParentDec(o)>> /\ Occupied(n) /\ Starts(o)
           /\ o.campaign.id = n.day + 1
  <2>1. v = LiveStep(LiveStep(Goes(o, g, <<>>), ExitDec(n)), ParentDec(o))
    BY <1>2, <1>4, <1>9
  <2> QED
    BY <1>1, <1>9, <2>1, DayTurns
<1>10. CASE q = <<AddonDec(n)>> /\ Adds(n, o)
  <2>1. v = LiveStep(Goes(o, g, <<>>), AddonDec(n))
    BY <1>2, <1>4, <1>10
  <2> QED
    BY <1>1, <1>10, <2>1, DayAdds
<1> QED
  BY <1>3, <1>5, <1>6, <1>7, <1>8, <1>9, <1>10

\* The window of a reversal ends before the next day begins.
LEMMA WindowEnds ==
  ASSUME NEW a \in Nat, NEW d \in Nat, a <= d
  PROVE  Minute(d + 1, 0) > Minute(a, 0) + Window
<1> DEFINE M == MinutesPerDay
           x == a * M
           y == d * M
           z == (d + 1) * M
<1>1. M \in Nat /\ Window \in Nat /\ Window < M
  BY MinutesType
<1> HIDE DEF M
<1>2. x \in Nat /\ y \in Nat /\ z \in Nat
  BY <1>1
<1>3. z = y + M
  BY <1>1
<1>4. x <= y
  <2>1. PICK j \in Nat : d = a + j
    <3>1. d - a \in Nat /\ d = a + (d - a)
      OBVIOUS
    <3> QED
      BY <3>1
  <2>2. d * M = a * M + j * M
    BY <1>1, <2>1
  <2>3. j * M \in Nat /\ a * M \in Nat
    BY <1>1, <2>1
  <2> DEFINE s == j * M
  <2>4. y = x + s /\ s \in Nat
    BY <2>2, <2>3
  <2> HIDE DEF s, x, y
  <2> QED
    BY <1>2, <2>4
<1> HIDE DEF x, y, z
<1>5. z > x + Window
  BY <1>1, <1>2, <1>3, <1>4
<1>6. Minute(d + 1, 0) = z /\ Minute(a, 0) = x
  <2>1. Minute(d + 1, 0) = z + 0 /\ Minute(a, 0) = x + 0
    BY DEF Minute, z, x, M
  <2> QED
    BY <1>2, <2>1
<1> QED
  BY <1>5, <1>6

\* A reversal that still waits is given up when its window is over.
LEMMA ReversalOver ==
  ASSUME Ready, NEW f, f \in Adapters, f.urgent = {}, f.closing = live.closing,
         f.aborting = live.aborting, f.reversal = live.reversal,
         NEW t, f.reversal # NoReversal => Late(f, t),
         NEW w, w = ReversalAt(model, f, t)
  PROVE  w.model = model /\ DayReady(model, w.live)
<1>1. /\ slots \in [Ks -> Trades] /\ begun \in SUBSET Held(slots) /\ mirror \in SUBSET Ks
      /\ Sound(model, live, slots, {}, begun) /\ Between(model, live, Held(slots), mirror)
      /\ traded \in Seq(Nat \X Ks) /\ \A i \in DOMAIN traded : traded[i][1] <= model.day
      /\ ~torn => Fresh(model, live, traded, Len(traded))
  BY DEF Ready
<1>2. Sound(model, f, slots, {}, begun)
  BY <1>1, UrgentSound
<1>3. Between(model, f, Held(slots), mirror)
  BY <1>1 DEF Between
<1>4. /\ w.live \in Adapters /\ w.live.urgent = f.urgent /\ w.live.reversal = NoReversal
      /\ Stays(model, f, w)
  BY <1>2, <1>3, LateReversal
<1>5. w.model = model /\ w.live.closing = f.closing /\ w.live.aborting = f.aborting
  BY <1>4 DEF Stays
<1>6. Sound(model, w.live, slots, {}, begun)
  <2>1. Sound(w.model, w.live, slots, {}, begun)
    BY <1>1, <1>2, <1>3, ReversalSound
  <2> QED
    BY <1>5, <2>1
<1>7. Between(model, w.live, Held(slots), mirror)
  BY <1>3, <1>4, <1>5 DEF Between
<1>8. ~torn => Fresh(model, w.live, traded, Len(traded))
  BY <1>1, <1>4 DEF Fresh
<1>9. DOMAIN traded = 1 .. Len(traded)
  BY <1>1, TradedFacts
<1> QED
  BY <1>1, <1>4, <1>5, <1>6, <1>7, <1>8, <1>9 DEF DayReady

\* So none waits when a day begins.
LEMMA DayStarts ==
  ASSUME Ready, NEW d, d = model.day, NEW f, f = [live EXCEPT !.urgent = {}],
         NEW w, w = ReversalAt(model, f, Minute(d + 1, 0))
  PROVE  w.model = model /\ DayReady(model, w.live)
<1>1. /\ model \in Machines /\ live \in Adapters /\ model.day \in Nat
      /\ live.reversal # NoReversal =>
           live.reversal.id <= model.day /\ live.reversal.at = Minute(live.reversal.id, 0)
  BY IdleFields, MachineFacts DEF Ready
<1>2. /\ f \in Adapters /\ f.urgent = {} /\ f.closing = live.closing
      /\ f.aborting = live.aborting /\ f.reversal = live.reversal
  BY <1>1, CalmFields
<1> DEFINE t == Minute(d + 1, 0)
<1>3. f.reversal # NoReversal => Late(f, t)
  <2> SUFFICES ASSUME f.reversal # NoReversal PROVE t > f.reversal.at + Window
    BY DEF Late
  <2>1. f.reversal.id \in Nat /\ f.reversal.id <= d /\ f.reversal.at = Minute(f.reversal.id, 0)
    BY <1>1, <1>2, AdapterFacts
  <2> QED
    BY <1>1, <2>1, WindowEnds
<1> HIDE DEF t
<1>4. w = ReversalAt(model, f, t)
  BY DEF t
<1> QED
  BY <1>2, <1>3, <1>4, ReversalOver

LEMMA DayPriced ==
  ASSUME NEW m, NEW g, DayReady(m, g), NEW r \in {{}, {0}}, NEW n, n = ObserveHistoricalPrices(m, r)
  PROVE  DayReady(n, g) /\ (Occupied(n) => Occupied(m))
<1>1. /\ Sound(m, g, slots, {}, begun) /\ Between(m, g, Held(slots), mirror)
      /\ traded \in Seq(Nat \X Ks)
  BY DEF DayReady
<1>2. /\ Sound(n, g, slots, {}, begun) /\ Between(n, g, Held(slots), mirror) /\ Shrinks(m, g, n, g)
      /\ Prices(m, g, Held(slots), mirror, n)
  BY <1>1, PricedSound
<1>3. n.day = m.day /\ (Occupied(n) => Occupied(m))
  BY <1>2 DEF Shrinks
<1>4. ~torn => Fresh(n, g, traded, Len(traded))
  BY <1>1, <1>2, TradedFacts, ShrinkFresh DEF DayReady
<1> QED
  BY <1>2, <1>3, <1>4 DEF DayReady

LEMMA EvidenceFacts ==
  ASSUME NEW e \in Evidence
  PROVE  e.reached \in {{}, {0}} /\ e.candidate \in Candidates
BY DEF Evidence

\* What the open of the day makes of a machine that is ready for it.
LEMMA OpeningSound ==
  ASSUME NEW m, NEW g, DayReady(m, g), NEW e \in Evidence, NEW x, x = Opening(m, e)
  PROVE  \E n : DayReady(n, g) /\ (Occupied(n) => Occupied(m)) /\ Opens(n, x)
<1> DEFINE n == ObserveHistoricalPrices(m, e.reached)
<1>1. DayReady(n, g) /\ (Occupied(n) => Occupied(m))
  BY EvidenceFacts, DayPriced
<1>2. x = OpenedNow(n, e.back, e.recovered, e.candidate, e.fits)
  BY DEF Opening
<1> HIDE DEF n
<1>3. n \in Machines /\ n.exit = "none"
  BY <1>1, DayFacts
<1>4. Opens(n, x)
  BY <1>2, <1>3, EvidenceFacts, OpenedCases
<1> QED
  BY <1>1, <1>4

LEMMA DailySound ==
  ASSUME Ready, day = model.day, NEW e \in Evidence, NEW v, v = OnDaily(model, live, e, FALSE)
  PROVE  Decides(v)
<1> DEFINE f == [live EXCEPT !.urgent = {}]
           w == ReversalAt(model, f, Minute(day + 1, 0))
           g == w.live
           x == Opening(w.model, e)
           a == LiveActed(Goes(x.machine, g, <<>>), x.decisions)
           q == ExitsOf(live.urgent, FALSE)
<1>1. v = [a EXCEPT !.out = q \o @]
  <2> DEFINE warm == FALSE
  <2>1. v = OnDaily(model, live, e, warm) /\ ~warm
    OBVIOUS
  <2>2. \A A, p : LiveActed(A, p) = Acted(A, p, warm)
    BY DEF LiveActed
  <2> HIDE DEF warm
  <2>3. v = LiveDaily(model, live, e, warm)
    BY <2>1, DailyUnfolds
  <2>4. Goes(x.machine, g, <<>>) = Quiet(x.machine, g)
    BY GoesFields
  <2> QED
    BY <2>2, <2>3, <2>4 DEF LiveDaily
<1>2. w.model = model /\ DayReady(model, g)
  BY DayStarts
<1>3. x = Opening(model, e) /\ a = LiveActed(Goes(x.machine, g, <<>>), x.decisions)
  BY <1>2
<1>4. /\ live.urgent \in SUBSET Ks /\ model \in Machines
      /\ Occupied(model) => live.urgent = {}
      /\ begun \in SUBSET Held(slots)
  <2>1. live \in Adapters /\ model \in Machines
    BY IdleFields DEF Ready
  <2> QED
    BY <2>1, AdapterFacts DEF Ready, Between
<1>5. q = ExitsOf(live.urgent, FALSE)
  OBVIOUS
<1> HIDE DEF f, w, g, x, a, q
<1>6. PICK n : DayReady(n, g) /\ (Occupied(n) => Occupied(model)) /\ Opens(n, x)
  BY <1>2, <1>3, OpeningSound
<1>7. DayDecides(n, a)
  BY <1>3, <1>6, OpenDecides
<1>8. /\ Whole(a) /\ Decides(a) /\ a.live.urgent = {}
      /\ Occupied(a.model) /\ ~Occupied(n) => Held(slots) = {}
  BY <1>7 DEF DayDecides
<1>9. v.ok /\ v.model = a.model /\ v.live = a.live /\ v.out = q \o a.out
  BY <1>1, <1>8 DEF Whole, Decides
<1>10. OnlyExits(q, a.model, a.live, a.model, a.live, slots)
  <2>1. Occupied(a.model) => live.urgent \cap Held(slots) = {}
    BY <1>4, <1>6, <1>8
  <2> QED
    BY <1>4, <1>5, <2>1, ExitsWell
<1>11. a.out \in Seq(Intents) /\ Planned(a.out, a.model, a.live, a.model, a.live, slots)
  BY <1>8 DEF Decides
<1>12. /\ v.out \in Seq(Intents) /\ Planned(v.out, a.model, a.live, a.model, a.live, slots)
       /\ SameEnd(v.out, a.out)
  <2> DEFINE r == a.out
             m == a.model
             l == a.live
             o == v.out
  <2>1. o = q \o r /\ r \in Seq(Intents) /\ Planned(r, m, l, m, l, slots)
        /\ OnlyExits(q, m, l, m, l, slots)
    BY <1>9, <1>10, <1>11
  <2> HIDE DEF r, m, l, o
  <2>2. o \in Seq(Intents) /\ Planned(o, m, l, m, l, slots) /\ SameEnd(o, r)
    BY <2>1, PlannedJoin
  <2> QED
    BY <2>2 DEF r, m, l, o
<1> QED
  BY <1>8, <1>9, <1>12 DEF Decides, SameEnd

-----------------------------------------------------------------------------
(* A replayed bar.                                                         *)

\* What reconcile_execution_state leaves of a sound ladder with nothing undecided.
LEMMA SettledBetween ==
  ASSUME NEW m, NEW l, NEW s \in [Ks -> Trades], NEW b \in SUBSET Held(s), Sound(m, l, s, {}, b),
         NoPapers(m), Occupied(m) => l.urgent = {},
         NEW h, h = Held(s), NEW v, v = Settled(m, l, h)
  PROVE  /\ Sound(v.model, v.live, s, {}, b) /\ Shrinks(m, l, v.model, v.live)
         /\ Between(v.model, v.live, h, h)
<1> DEFINE u == {}
<1>1. u \in SUBSET Ks /\ u \cap Held(s) = {} /\ (Occupied(m) => u \cap l.aborting = {})
      /\ Sound(m, l, s, u, b)
  OBVIOUS
<1> HIDE DEF u
<1>2. v = Settled(m, l, Held(s))
  OBVIOUS
<1>3. /\ Sound(v.model, v.live, s, u, b) /\ Shrinks(m, l, v.model, v.live)
      /\ v.live.closing = l.closing \cap Held(s) /\ v.live.aborting = l.aborting \cap Held(s)
      /\ v.live.urgent = l.urgent
      /\ ~Occupied(m) => v.model = m
      /\ Occupied(m) => Trims(m, v.model, Flat(m, l, Held(s)))
  BY <1>1, <1>2, SettledSound
<1>4. Sound(v.model, v.live, s, {}, b)
  BY <1>3 DEF u
<1>5. CASE ~Occupied(m)
  <2>1. ~Occupied(v.model) /\ Held(s) \subseteq l.closing
    BY <1>3, <1>5 DEF Sound
  <2> QED
    BY <1>3, <1>4, <2>1 DEF Between, IsOf
<1>6. CASE Occupied(m)
  <2> DEFINE c == m.campaign
             n == v.model
             ds == Flat(m, l, Held(s))
  <2>1. /\ Occupied(n) /\ n.campaign.origin = c.origin
        /\ DOMAIN n.campaign.units = DOMAIN c.units \ ds
        /\ \A k \in DOMAIN n.campaign.units : n.campaign.units[k] = c.units[k]
    BY <1>3, <1>6 DEF Trims
  <2>2. /\ c.origin \in Origins /\ 0 \in DOMAIN c.units
        /\ c.origin = "paper" => c.units[0].origin = "paper"
        /\ c.origin = "live" => \A k \in DOMAIN c.units : c.units[k].origin # "historical"
        /\ \A k \in DOMAIN c.units : c.units[k].origin \in Origins
    <3>1. m \in Machines
      BY IdleFields
    <3>2. c \in Campaigns
      BY <1>6, <3>1, MachineFacts
    <3>3. \A k \in DOMAIN c.units : c.units[k].origin \in Origins
      BY <3>2, CampaignFacts DEF Units
    <3> QED
      BY <1>6, <3>2, <3>3, CampaignFacts DEF Sound, Rested
  <2>3. c.origin # "paper" /\ \A k \in DOMAIN c.units : c.units[k].origin # "paper"
    BY <1>6, <2>2 DEF NoPapers
  <2>4. IsOf(n, "historical") => Held(s) = {}
    BY <1>6, <2>1 DEF IsOf, Sound
  <2>5. ASSUME IsOf(n, "live")
        PROVE  /\ DOMAIN n.campaign.units = Held(s)
               /\ \A k \in Held(s) : n.campaign.units[k].origin = "live"
    <3>1. IsOf(m, "live")
      BY <1>6, <2>1, <2>5 DEF IsOf
    <3>2. \A k \in DOMAIN c.units : k \in Held(s) \/ k \in l.aborting
      BY <2>3, <3>1 DEF Sound
    <3>3. DOMAIN n.campaign.units \subseteq Held(s)
      BY <2>1, <3>2 DEF Flat
    <3>4. Held(s) \subseteq DOMAIN n.campaign.units
      BY <1>4, <2>5 DEF Sound
    <3>5. \A k \in DOMAIN n.campaign.units : n.campaign.units[k].origin = "live"
      BY <2>1, <2>2, <2>3, <3>1 DEF IsOf, Origins
    <3> QED
      BY <3>3, <3>4, <3>5
  <2>6. v.live.urgent = {} /\ v.live.aborting \subseteq Held(s)
    BY <1>3, <1>6
  <2>7. ~IsOf(n, "paper")
    BY <2>1, <2>3 DEF IsOf
  <2> QED
    BY <1>3, <1>4, <2>1, <2>4, <2>5, <2>6, <2>7 DEF Between
<1> QED
  BY <1>5, <1>6

WarmActed(A, q) == Acted(A, q, TRUE)

LEMMA WarmActs ==
  ASSUME NEW A, NEW q, NEW x, x = WarmActed(A, q)
  PROVE  /\ q = <<>> => x = A
         /\ \A d : q = <<d>> => x = WarmStep(A, d)
         /\ \A d, e : q = <<d, e>> => x = WarmStep(WarmStep(A, d), e)
<1> DEFINE warm == TRUE
<1>1. x = Acted(A, q, warm)
  BY DEF WarmActed
<1>2. \A B, d : BarStep(B, d, warm) = WarmStep(B, d)
  BY DEF BarStep
<1> HIDE DEF warm
<1>3. q = <<>> => x = A
  BY <1>1, ActedNone
<1>4. ASSUME NEW d, q = <<d>>
      PROVE  x = WarmStep(A, d)
  <2>1. x = BarStep(A, d, warm)
    BY <1>1, <1>4, ActedOne
  <2> QED
    BY <1>2, <2>1
<1>5. ASSUME NEW d, NEW e, q = <<d, e>>
      PROVE  x = WarmStep(WarmStep(A, d), e)
  <2> DEFINE B == BarStep(A, d, warm)
  <2>1. B = BarStep(A, d, warm)
    OBVIOUS
  <2> HIDE DEF B
  <2>2. x = BarStep(B, e, warm)
    BY <1>1, <1>5, <2>1, ActedTwo
  <2>3. x = WarmStep(B, e) /\ B = WarmStep(A, d)
    BY <1>2, <2>1, <2>2
  <2> QED
    BY <2>3
<1> QED
  BY <1>3, <1>4, <1>5

\* The stack of a campaign that is over is queued for closure.
QueuedExit(v) ==
  Quiet(v.model, [v.live EXCEPT !.closing = @ \cup mirror, !.urgent = @ \cup mirror])

LEMMA WarmExits ==
  ASSUME NEW v, v.ok, NEW d, d.kind = "campaign_exit", NEW w, w = WarmStep(v, d)
  PROVE  w = QueuedExit(v)
BY DEF WarmStep, QueuedExit

LEMMA WarmParents ==
  ASSUME NEW v, v.ok, NEW d, d.kind = "paper_parent", NEW w, w = WarmStep(v, d)
  PROVE  w = AbandonParent(v.model, v.live, d.id)
<1>1. d.kind # "campaign_exit"
  OBVIOUS
<1> QED
  BY <1>1 DEF WarmStep

LEMMA WarmAddons ==
  ASSUME NEW v, v.ok, NEW d, d.kind = "paper_addon", NEW w, w = WarmStep(v, d)
  PROVE  w = UndoneIfLive(v.model, v.live, d.k, d.id)
<1>1. d.kind # "campaign_exit" /\ d.kind # "paper_parent"
  OBVIOUS
<1> QED
  BY <1>1 DEF WarmStep

LEMMA WarmKeeps ==
  ASSUME NEW v, v.ok, NEW d, d.kind \in {"historical_exit", "historical_addon"},
         NEW w, w = WarmStep(v, d)
  PROVE  w = v
<1>1. d.kind # "campaign_exit" /\ d.kind # "paper_parent" /\ d.kind # "paper_addon"
  OBVIOUS
<1> QED
  BY <1>1 DEF WarmStep

\* What a replayed candle is shown to.
WarmReady(n, l) ==
  /\ slots \in [Ks -> Trades] /\ begun \in SUBSET Held(slots) /\ mirror = Held(slots)
  /\ Sound(n, l, slots, {}, begun) /\ Between(n, l, Held(slots), mirror)
  /\ n.day = model.day
  /\ traded \in Seq(Nat \X Ks) /\ \A i \in 1 .. Len(traded) : traded[i][1] <= n.day
  /\ ~torn => Fresh(n, l, traded, Len(traded))

\* What a replayed bar may leave: nothing is undecided.
WarmDecides(v) ==
  /\ v.ok /\ Sound(v.model, v.live, slots, {}, begun) /\ NoPapers(v.model)
  /\ Occupied(v.model) => v.live.urgent = {}
  /\ model.day <= v.model.day
  /\ ~torn => Fresh(v.model, v.live, traded, Len(traded))

LEMMA WarmFacts ==
  ASSUME NEW n, NEW l, WarmReady(n, l)
  PROVE  /\ n \in Machines /\ n.exit = "none" /\ n.day \in Nat /\ model.day <= n.day + 1
         /\ l \in Adapters /\ 0 \notin l.aborting
         /\ l.reversal # NoReversal =>
              /\ l.reversal.id \in Nat /\ l.reversal.id <= n.day
              /\ l.reversal.at = Minute(l.reversal.id, 0)
         /\ mirror \in SUBSET Ks /\ mirror = Held(slots)
         /\ Occupied(n) => l.closing = {} /\ l.urgent = {}
         /\ ~Occupied(n) => l.closing = mirror
         /\ IsOf(n, "historical") => mirror = {}
         /\ Sound(n, l, slots, {}, begun) /\ Between(n, l, Held(slots), mirror)
<1>1. Sound(n, l, slots, {}, begun) /\ Between(n, l, Held(slots), mirror) /\ n.day = model.day
      /\ slots \in [Ks -> Trades] /\ mirror = Held(slots)
  BY DEF WarmReady
<1>2. /\ n \in Machines /\ n.exit = "none" /\ l \in Adapters /\ 0 \notin l.aborting
      /\ Occupied(n) => l.closing = {}
      /\ l.reversal # NoReversal =>
           l.reversal.id <= n.day /\ l.reversal.at = Minute(l.reversal.id, 0)
  BY <1>1, IdleFields
<1>3. n.day \in Nat
  BY <1>2, MachineFacts
<1>4. model.day <= n.day + 1
  BY <1>1, <1>3
<1>5. l.reversal # NoReversal => l.reversal.id \in Nat
  BY <1>2, AdapterFacts
<1>6. mirror \in SUBSET Ks
  BY <1>1, TradeFacts
<1>7. /\ Occupied(n) => l.urgent = {}
      /\ ~Occupied(n) => l.closing = mirror
      /\ IsOf(n, "historical") => mirror = {}
  BY <1>1 DEF Between
<1> QED
  BY <1>1, <1>2, <1>3, <1>4, <1>5, <1>6, <1>7

\* There is no campaign any more.
LEMMA WarmIdle ==
  ASSUME NEW n, NEW l, WarmReady(n, l),
         NEW o, Passes(n, o, n.day + 1), ~Occupied(o),
         NEW h \in Adapters, h.reversal = l.reversal, h.aborting = l.aborting,
         mirror \subseteq h.closing,
         NEW v, v = Quiet(o, h)
  PROVE  WarmDecides(v)
<1>1. /\ n.day \in Nat /\ model.day <= n.day + 1 /\ 0 \notin l.aborting /\ mirror = Held(slots)
      /\ l.reversal # NoReversal =>
              /\ l.reversal.id \in Nat /\ l.reversal.id <= n.day
              /\ l.reversal.at = Minute(l.reversal.id, 0)
  BY WarmFacts
<1>2. o \in Machines /\ o.exit = "none" /\ o.day = n.day + 1
  BY DEF Passes
<1>3. h.reversal # NoReversal =>
        h.reversal.id <= o.day /\ h.reversal.at = Minute(h.reversal.id, 0)
  BY <1>1, <1>2
<1>4. Sound(o, h, slots, {}, begun)
  <2> DEFINE z == {}
  <2>1. Held(slots) \subseteq h.closing /\ 0 \notin h.aborting
    BY <1>1
  <2> HIDE DEF z
  <2>2. Sound(o, h, slots, z, begun)
    BY <1>2, <1>3, <2>1, IdleSound
  <2> QED
    BY <2>2 DEF z
<1>5. ~torn => Fresh(o, h, traded, Len(traded))
  BY DEF WarmReady, Fresh
<1>6. v.ok /\ v.model = o /\ v.live = h
  BY QuietFields
<1>7. NoPapers(o) /\ model.day <= o.day
  BY <1>1, <1>2 DEF NoPapers
<1> QED
  BY <1>4, <1>5, <1>6, <1>7 DEF WarmDecides

LEMMA WarmAges ==
  ASSUME NEW n, NEW l, WarmReady(n, l),
         NEW o, Passes(n, o, n.day + 1), Ages(n, o),
         NEW v, v = Quiet(o, l)
  PROVE  WarmDecides(v)
<1>1. /\ Sound(n, l, slots, {}, begun) /\ Between(n, l, Held(slots), mirror)
      /\ model.day <= n.day + 1
      /\ Occupied(n) => l.urgent = {}
  BY WarmFacts
<1>2. Sound(o, l, slots, {}, begun) /\ NoPapers(o)
  BY <1>1, AgesSound
<1>3. ~torn => Fresh(o, l, traded, Len(traded))
  BY FreshAges DEF WarmReady
<1>4. o.day = n.day + 1 /\ Occupied(n)
  BY DEF Passes, Ages
<1>5. v.ok /\ v.model = o /\ v.live = l
  BY QuietFields
<1> QED
  BY <1>1, <1>2, <1>3, <1>4, <1>5 DEF WarmDecides

LEMMA QueuedFields ==
  ASSUME NEW o, NEW l \in Adapters, mirror \in SUBSET Ks, NEW w, w = QueuedExit(Quiet(o, l)),
         NEW h, h = w.live
  PROVE  /\ w = Quiet(o, h) /\ h \in Adapters /\ h.closing = l.closing \cup mirror
         /\ h.urgent = l.urgent \cup mirror /\ h.aborting = l.aborting /\ h.reversal = l.reversal
<1> DEFINE f == [l EXCEPT !.closing = @ \cup mirror, !.urgent = @ \cup mirror]
<1>1. w = Quiet(o, f)
  <2> DEFINE A == Quiet(o, l)
  <2>1. A.model = o /\ A.live = l /\ w = QueuedExit(A)
    BY QuietFields
  <2> HIDE DEF A
  <2> QED
    BY <2>1 DEF QueuedExit
<1>2. h = f
  BY <1>1, QuietFields
<1>3. /\ f \in Adapters /\ f.closing = l.closing \cup mirror
      /\ f.urgent = l.urgent \cup mirror /\ f.aborting = l.aborting /\ f.reversal = l.reversal
  BY DEF Adapters
<1> QED
  BY <1>1, <1>2, <1>3

\* A missed parent is undone; a reversal that waits is of an earlier day.
LEMMA WarmUndone ==
  ASSUME NEW o \in Machines, Starts(o), o.campaign.id = o.day,
         NEW h, h.reversal # NoReversal => h.reversal.id # o.day,
         NEW w, w = WarmStep(Quiet(o, h), ParentDec(o)),
         NEW n, n = [o EXCEPT !.campaign = NoCampaign]
  PROVE  w = Quiet(n, h)
<1> DEFINE A == Quiet(o, h)
           d == ParentDec(o)
<1>1. d.kind = "paper_parent" /\ d.id = o.day
  BY DecisionFields DEF ParentDec
<1>2. A.ok /\ A.model = o /\ A.live = h /\ w = WarmStep(A, d)
  BY QuietFields
<1> HIDE DEF A, d
<1>3. w = AbandonParent(o, h, o.day)
  BY <1>1, <1>2, WarmParents
<1>4. h.reversal.id # o.day
  <2>1. o.day # -1
    BY MachineFacts
  <2> QED
    BY <2>1 DEF NoReversal
<1>5. IsOf(o, "paper") /\ o.campaign.id = o.day
  BY DEF Starts, IsOf
<1> QED
  BY <1>3, <1>4, <1>5 DEF AbandonParent

LEMMA WarmExit ==
  ASSUME NEW n, NEW l, WarmReady(n, l), Occupied(n), NEW o,
         NEW v, v = WarmStep(Quiet(o, l), ExitDec(n)), NEW h, h = v.live
  PROVE  /\ v = Quiet(o, h) /\ h \in Adapters /\ h.reversal = l.reversal
         /\ h.aborting = l.aborting /\ mirror \subseteq h.closing
<1>1. l \in Adapters /\ mirror \in SUBSET Ks /\ (IsOf(n, "historical") => mirror = {})
  BY WarmFacts
<1> DEFINE A == Quiet(o, l)
           d == ExitDec(n)
<1>2. A.ok /\ A.model = o /\ A.live = l /\ v = WarmStep(A, d) /\ A = Quiet(o, l)
  BY QuietFields
<1>3. d.kind = IF n.campaign.origin = "historical" THEN "historical_exit" ELSE "campaign_exit"
  BY DecisionFields DEF ExitDec
<1> HIDE DEF A, d
<1>4. CASE n.campaign.origin = "historical"
  <2>1. v = A
    BY <1>2, <1>3, <1>4, WarmKeeps
  <2>2. mirror = {}
    BY <1>1, <1>4 DEF IsOf
  <2> QED
    BY <1>1, <1>2, <2>1, <2>2
<1>5. CASE n.campaign.origin # "historical"
  <2>1. v = QueuedExit(A)
    BY <1>2, <1>3, <1>5, WarmExits
  <2> QED
    BY <1>1, <1>2, <2>1, QueuedFields
<1> QED
  BY <1>4, <1>5

LEMMA WarmExitDecides ==
  ASSUME NEW n, NEW l, WarmReady(n, l), Occupied(n),
         NEW o, Passes(n, o, n.day + 1), ~Occupied(o),
         NEW v, v = WarmStep(Quiet(o, l), ExitDec(n))
  PROVE  WarmDecides(v)
<1> DEFINE h == v.live
<1>1. h = v.live
  OBVIOUS
<1> HIDE DEF h
<1>2. /\ v = Quiet(o, h) /\ h \in Adapters /\ h.reversal = l.reversal
      /\ h.aborting = l.aborting /\ mirror \subseteq h.closing
  BY <1>1, WarmExit
<1> QED
  BY <1>2, WarmIdle

\* A parent that was missed, over fields h that queue everything held.
LEMMA WarmParentDecides ==
  ASSUME NEW n, NEW l, WarmReady(n, l),
         NEW o, Passes(n, o, n.day + 1), Starts(o), o.campaign.id = n.day + 1,
         NEW h \in Adapters, h.reversal = l.reversal, h.aborting = l.aborting,
         mirror \subseteq h.closing,
         NEW v, v = WarmStep(Quiet(o, h), ParentDec(o))
  PROVE  WarmDecides(v)
<1>1. /\ n.day \in Nat
      /\ l.reversal # NoReversal => l.reversal.id \in Nat /\ l.reversal.id <= n.day
  BY WarmFacts
<1>2. o \in Machines /\ o.exit = "none" /\ o.day = n.day + 1 /\ o.verified = n.verified
      /\ o.funded = n.funded
  BY DEF Passes
<1>3. h.reversal # NoReversal => h.reversal.id # o.day
  BY <1>1, <1>2
<1> DEFINE m == [o EXCEPT !.campaign = NoCampaign]
<1>4. m = [o EXCEPT !.campaign = NoCampaign]
  OBVIOUS
<1>5. Passes(n, m, n.day + 1) /\ ~Occupied(m)
  <2> DEFINE z == NoCampaign
  <2>1. m = [o EXCEPT !.campaign = z] /\ z \in Campaigns \cup {NoCampaign} /\ z = NoCampaign
    OBVIOUS
  <2> HIDE DEF z, m
  <2>2. /\ m \in Machines /\ m.campaign = z /\ m.exit = o.exit /\ m.day = o.day
        /\ m.verified = o.verified /\ m.funded = o.funded
        /\ Occupied(m) <=> z # NoCampaign
    BY <1>2, <2>1, SetCampaign
  <2> QED
    BY <1>2, <2>1, <2>2 DEF Passes
<1> HIDE DEF m
<1>6. v = Quiet(m, h)
  BY <1>2, <1>3, <1>4, WarmUndone
<1> QED
  BY <1>5, <1>6, WarmIdle

\* A missed add-on is undone.
LEMMA WarmDiscards ==
  ASSUME NEW n, NEW l, WarmReady(n, l),
         NEW o, Passes(n, o, n.day + 1), Adds(n, o), NEW k \in Ks,
         IsLatestUnfilled(o, k), k \notin mirror,
         NEW p, p = DiscardUnfilledAddon(o, k),
         NEW v, v = Quiet(p, l)
  PROVE  WarmDecides(v)
<1>1. /\ Sound(n, l, slots, {}, begun) /\ Between(n, l, Held(slots), mirror)
      /\ Occupied(n) => l.urgent = {}
      /\ slots \in [Ks -> Trades] /\ begun \in SUBSET Held(slots)
      /\ Held(slots) = mirror /\ n \in Machines /\ model.day <= n.day + 1
  BY WarmFacts DEF WarmReady
<1>2. Sound(o, l, slots, {}, begun)
  BY <1>1, AddsSound
<1>3. /\ HasUnit(o, k) /\ k # 0 /\ o.campaign.units[k].origin = "paper"
  BY SlotSets DEF IsLatestUnfilled
<1>4. Sound(p, l, slots, {}, begun) /\ Shrinks(o, l, p, l) /\ AllLive(p, DOMAIN o.campaign.units \ {k})
  <2> DEFINE z == {}
  <2>1. z \in SUBSET Ks /\ k \notin Held(slots) \cup z /\ Sound(o, l, slots, z, begun)
    BY <1>1, <1>2
  <2> HIDE DEF z
  <2>2. Sound(p, l, slots, z, begun) /\ Shrinks(o, l, p, l)
        /\ AllLive(p, DOMAIN o.campaign.units \ {k})
    BY <1>1, <1>3, <2>1, DiscardSound
  <2> QED
    BY <2>2 DEF z
<1>5. NoPapers(p)
  BY <1>4 DEF AllLive, NoPapers
<1>6. ~torn => Fresh(p, l, traded, Len(traded))
  <2> SUFFICES ASSUME ~torn PROVE Fresh(p, l, traded, Len(traded))
    OBVIOUS
  <2>1. Fresh(o, l, traded, Len(traded))
    BY <1>1, FreshAdds DEF WarmReady
  <2>2. Len(traded) \in Nat /\ \A i \in 1 .. Len(traded) : traded[i][2] \in Ks
    BY TradedFacts DEF WarmReady
  <2> QED
    BY <1>4, <2>1, <2>2, ShrinkFresh
<1>7. p.day = n.day + 1 /\ Occupied(n)
  BY <1>4 DEF Passes, Adds, Shrinks
<1>8. v.ok /\ v.model = p /\ v.live = l
  BY QuietFields
<1> QED
  BY <1>1, <1>4, <1>5, <1>6, <1>7, <1>8 DEF WarmDecides

LEMMA WarmAdds ==
  ASSUME NEW n, NEW l, WarmReady(n, l),
         NEW o, Passes(n, o, n.day + 1), Adds(n, o),
         NEW v, v = WarmStep(Quiet(o, l), AddonDec(n))
  PROVE  WarmDecides(v)
<1> DEFINE k == n.campaign.lifetime
           A == Quiet(o, l)
           d == AddonDec(n)
<1>1. /\ Sound(n, l, slots, {}, begun) /\ Between(n, l, Held(slots), mirror)
      /\ Occupied(n) => l.urgent = {}
      /\ begun \in SUBSET Held(slots) /\ Occupied(n)
      /\ n \in Machines /\ model.day <= n.day + 1
  BY WarmFacts DEF WarmReady, Adds
<1>2. /\ Sound(o, l, slots, {}, begun) /\ k \in Ks /\ k # 0
      /\ IsOf(n, "historical") => NoPapers(o)
      /\ IsOf(n, "live") => /\ IsOf(o, "live") /\ IsLatestUnfilled(o, k)
                            /\ k \notin mirror /\ 0 \in mirror
  BY <1>1, AddsSound
<1>3. /\ IsOf(n, "historical") \/ IsOf(n, "live")
      /\ IsOf(n, "historical") <=> n.campaign.origin = "historical"
  BY <1>1, OpenFacts
<1>4. A.ok /\ A.model = o /\ A.live = l /\ v = WarmStep(A, d) /\ A = Quiet(o, l)
  BY QuietFields
<1>5. /\ d.kind = IF n.campaign.origin = "historical" THEN "historical_addon" ELSE "paper_addon"
      /\ d.k = k
  BY DecisionFields DEF AddonDec, AddonDecision
<1> HIDE DEF A, d, k
<1>6. CASE IsOf(n, "historical")
  <2>1. v = A
    BY <1>3, <1>4, <1>5, <1>6, WarmKeeps
  <2>2. ~torn => Fresh(o, l, traded, Len(traded))
    BY <1>1, FreshAdds DEF WarmReady
  <2>3. o.day = n.day + 1
    BY DEF Passes
  <2> QED
    BY <1>1, <1>2, <1>4, <1>6, <2>1, <2>2, <2>3 DEF WarmDecides
<1>7. CASE IsOf(n, "live") /\ n.campaign.origin # "historical"
  <2> DEFINE p == DiscardUnfilledAddon(o, k)
  <2>1. v = UndoneIfLive(o, l, k, d.id)
    BY <1>4, <1>5, <1>7, WarmAddons
  <2>2. v = Quiet(p, l)
    BY <1>2, <1>7, <2>1 DEF UndoneIfLive, Undone
  <2>3. p = DiscardUnfilledAddon(o, k)
    OBVIOUS
  <2> HIDE DEF p
  <2> QED
    BY <1>2, <1>7, <2>2, <2>3, WarmDiscards
<1> QED
  BY <1>3, <1>6, <1>7

LEMMA WarmOpens ==
  ASSUME NEW n, NEW l, WarmReady(n, l), NEW x, Opens(n, x),
         NEW v, v = WarmActed(Quiet(x.machine, l), x.decisions)
  PROVE  WarmDecides(v)
<1> DEFINE o == x.machine
           q == x.decisions
           A == Quiet(o, l)
<1>1. Passes(n, o, n.day + 1)
  BY DEF Opens
<1>2. A = Quiet(o, l) /\ v = WarmActed(A, q)
  OBVIOUS
<1>3. \/ q = <<>> /\ ~Occupied(n) /\ ~Occupied(o)
      \/ q = <<>> /\ Ages(n, o)
      \/ q = <<ExitDec(n)>> /\ Occupied(n) /\ ~Occupied(o)
      \/ q = <<ParentDec(o)>> /\ ~Occupied(n) /\ Starts(o) /\ o.campaign.id = n.day + 1
      \/ q = <<ExitDec(n), ParentDec(o)>> /\ Occupied(n) /\ Starts(o) /\ o.campaign.id = n.day + 1
      \/ q = <<AddonDec(n)>> /\ Adds(n, o)
  BY DEF Opens
<1> HIDE DEF o, q, A
<1>4. /\ q = <<>> => v = A
      /\ \A d : q = <<d>> => v = WarmStep(A, d)
      /\ \A d, e : q = <<d, e>> => v = WarmStep(WarmStep(A, d), e)
  BY <1>2, WarmActs
<1>11. /\ l \in Adapters
       /\ ~Occupied(n) => mirror \subseteq l.closing
  BY WarmFacts
<1>5. CASE q = <<>> /\ ~Occupied(n) /\ ~Occupied(o)
  BY <1>1, <1>2, <1>4, <1>5, <1>11, WarmIdle
<1>6. CASE q = <<>> /\ Ages(n, o)
  BY <1>1, <1>2, <1>4, <1>6, WarmAges
<1>7. CASE q = <<ExitDec(n)>> /\ Occupied(n) /\ ~Occupied(o)
  <2>1. v = WarmStep(Quiet(o, l), ExitDec(n))
    BY <1>2, <1>4, <1>7
  <2> QED
    BY <1>1, <1>7, <2>1, WarmExitDecides
<1>8. CASE q = <<ParentDec(o)>> /\ ~Occupied(n) /\ Starts(o) /\ o.campaign.id = n.day + 1
  <2>1. v = WarmStep(Quiet(o, l), ParentDec(o))
    BY <1>2, <1>4, <1>8
  <2> QED
    BY <1>1, <1>8, <1>11, <2>1, WarmParentDecides
<1>9. CASE /\ q = <<ExitDec(n), ParentDec(o)>> /\ Occupied(n) /\ Starts(o)
           /\ o.campaign.id = n.day + 1
  <2> DEFINE w == WarmStep(A, ExitDec(n))
             h == w.live
  <2>1. v = WarmStep(w, ParentDec(o)) /\ w = WarmStep(Quiet(o, l), ExitDec(n)) /\ h = w.live
    BY <1>2, <1>4, <1>9
  <2> HIDE DEF w, h
  <2>2. /\ w = Quiet(o, h) /\ h \in Adapters /\ h.reversal = l.reversal
        /\ h.aborting = l.aborting /\ mirror \subseteq h.closing
    BY <1>9, <2>1, WarmExit
  <2>3. v = WarmStep(Quiet(o, h), ParentDec(o))
    BY <2>1, <2>2
  <2> QED
    BY <1>1, <1>9, <2>2, <2>3, WarmParentDecides
<1>10. CASE q = <<AddonDec(n)>> /\ Adds(n, o)
  <2>1. v = WarmStep(Quiet(o, l), AddonDec(n))
    BY <1>2, <1>4, <1>10
  <2> QED
    BY <1>1, <1>10, <2>1, WarmAdds
<1> QED
  BY <1>3, <1>5, <1>6, <1>7, <1>8, <1>9, <1>10

LEMMA WarmPriced ==
  ASSUME NEW m, NEW l, WarmReady(m, l), NEW r \in {{}, {0}}, NEW n, n = ObserveHistoricalPrices(m, r)
  PROVE  WarmReady(n, l)
<1>1. /\ Sound(m, l, slots, {}, begun) /\ Between(m, l, Held(slots), mirror)
      /\ traded \in Seq(Nat \X Ks)
  BY DEF WarmReady
<1>2. /\ Sound(n, l, slots, {}, begun) /\ Between(n, l, Held(slots), mirror) /\ Shrinks(m, l, n, l)
  BY <1>1, PricedSound
<1>3. n.day = m.day
  BY <1>2 DEF Shrinks
<1>4. ~torn => Fresh(n, l, traded, Len(traded))
  BY <1>1, <1>2, TradedFacts, ShrinkFresh DEF WarmReady
<1> QED
  BY <1>2, <1>3, <1>4 DEF WarmReady

LEMMA WarmDailySound ==
  ASSUME WarmReady(model, live), NEW e \in Evidence, NEW v, v = OnDaily(model, live, e, TRUE)
  PROVE  WarmDecides(v)
<1> DEFINE n == ObserveHistoricalPrices(model, e.reached)
           x == Opening(model, e)
<1>1. WarmReady(n, live)
  BY EvidenceFacts, WarmPriced
<1>2. x = OpenedNow(n, e.back, e.recovered, e.candidate, e.fits)
  BY DEF Opening
<1>3. v = WarmActed(Quiet(x.machine, live), x.decisions)
  <2> DEFINE warm == TRUE
  <2>1. v = OnDaily(model, live, e, warm) /\ warm
    OBVIOUS
  <2>2. \A A, p : WarmActed(A, p) = Acted(A, p, warm)
    BY DEF WarmActed
  <2> HIDE DEF warm
  <2>3. v = WarmDaily(model, live, e, warm)
    BY <2>1, DailyUnfolds
  <2> QED
    BY <2>2, <2>3 DEF WarmDaily
<1> HIDE DEF n, x
<1>4. n \in Machines /\ n.exit = "none"
  BY <1>1, WarmFacts
<1>5. Opens(n, x)
  BY <1>2, <1>4, EvidenceFacts, OpenedCases
<1> QED
  BY <1>1, <1>3, <1>5, WarmOpens

WarmMinute(m, l, r) == Quiet(ObserveHistoricalPrices(m, r), l)

LEMMA WarmMinuteSound ==
  ASSUME WarmReady(model, live), NEW r \in {{}, {0}}, NEW v, v = WarmMinute(model, live, r)
  PROVE  WarmDecides(v)
<1> DEFINE n == ObserveHistoricalPrices(model, r)
<1>1. WarmReady(n, live)
  BY WarmPriced
<1>2. v = Quiet(n, live)
  BY DEF WarmMinute
<1> HIDE DEF n
<1>3. /\ Sound(n, live, slots, {}, begun) /\ Between(n, live, Held(slots), mirror)
      /\ Occupied(n) => live.urgent = {}
      /\ n.day \in Nat
  BY <1>1, WarmFacts
<1>4. NoPapers(n)
  BY <1>3, BetweenPapers
<1>5. v.ok /\ v.model = n /\ v.live = live
  BY <1>2, QuietFields
<1>6. model.day <= n.day
  BY <1>1, <1>3 DEF WarmReady
<1> QED
  BY <1>1, <1>3, <1>4, <1>5, <1>6 DEF WarmDecides, WarmReady

-----------------------------------------------------------------------------
(* The steps.                                                              *)

LEMMA StutterKeeps ==
  ASSUME IInv, UNCHANGED vars
  PROVE  IInv'
BY DEF IInv, TypeOK, Books, Placed, Counted, Acting, Enters, OneCampaignAtATime, OpenedOnce,
       Fresh, vars, stratVars, execVars, flowVars, feedVars, histVars

LEMMA TypedParts ==
  ASSUME IInv
  PROVE  /\ slots \in [Ks -> Trades] /\ begun \in SUBSET Held(slots) /\ begun \in SUBSET Ks
         /\ untold \in SUBSET Ks /\ gone \in SUBSET Held(slots) /\ Held(slots) \in SUBSET Ks
         /\ model \in Machines /\ live \in Adapters /\ model.day \in Nat
         /\ saved.model \in Machines /\ saved.live \in Adapters /\ saved.model.day \in Nat
         /\ traded \in Seq(Nat \X Ks) /\ Len(traded) \in Nat /\ DOMAIN traded = 1 .. Len(traded)
         /\ intents \in Seq(Intents) /\ kept \in Nat /\ mirror \in SUBSET Ks
<1>1. slots \in [Ks -> Trades] /\ Held(slots) \in SUBSET Ks
  BY TradeFacts DEF IInv, TypeOK
<1>2. model \in Machines /\ live \in Adapters /\ saved.model \in Machines /\ saved.live \in Adapters
  BY DEF IInv, TypeOK
<1>3. model.day \in Nat /\ saved.model.day \in Nat
  BY <1>2, MachineFacts
<1>4. traded \in Seq(Nat \X Ks) /\ Len(traded) \in Nat /\ DOMAIN traded = 1 .. Len(traded)
  BY TradedFacts DEF IInv, TypeOK
<1> QED
  BY <1>1, <1>2, <1>3, <1>4 DEF IInv, TypeOK, Books

\* A stop leaves what is durable.
LEMMA StopKeeps ==
  ASSUME IInv, pc # "down", Stop, raised' \in {"none", "redelivery"}
  PROVE  IInv'
<1>1. /\ pc' = "down" /\ intents' = <<>> /\ due' = FALSE /\ fresh' = TRUE
      /\ model' = saved.model /\ live' = saved.live /\ gap' = saved.gap /\ mirror' = {}
      /\ owed' = {} /\ doubt' = FALSE
      /\ torn' = (torn \/ kept # Len(traded))
      /\ UNCHANGED <<saved, slots, begun, untold, gone, traded, kept>>
  BY DEF Stop
<1>2. {day', tick', sinceDay', sinceTick'} \subseteq Nat
  <2>1. {day, tick, sinceDay, sinceTick} \subseteq Nat /\ saved.model.day \in Nat
    BY TypedParts DEF IInv, TypeOK
  <2>2. ReplayStart \in Nat
    BY <2>1 DEF ReplayStart
  <2>3. day' = ReplayStart /\ tick' = 0
    BY DEF Stop, MoveTo
  <2>4. sinceDay' \in Nat /\ sinceTick' \in Nat
    BY <2>1 DEF Stop, LiveFrom, NextMinute, After
  <2> QED
    BY <2>2, <2>3, <2>4
<1>3. TypeOK'
  <2>1. torn' \in BOOLEAN
    BY <1>1
  <2>2. /\ model' \in Machines /\ live' \in Adapters /\ mirror' \subseteq Ks /\ gap' \in BOOLEAN
        /\ saved'.model \in Machines /\ saved'.live \in Adapters /\ saved'.gap \in BOOLEAN
        /\ slots' \in [Ks -> Trades] /\ traded' \in Seq(Nat \X Ks) /\ kept' \in Nat
    BY <1>1 DEF IInv, TypeOK
  <2>3. /\ begun' \subseteq Ks /\ untold' \subseteq Ks /\ gone' \subseteq Ks /\ owed' \subseteq Ks
        /\ pc' \in Stages /\ intents' \in Seq(Intents)
    BY <1>1 DEF IInv, TypeOK, Stages
  <2>4. doubt' \in BOOLEAN /\ due' \in BOOLEAN /\ fresh' \in BOOLEAN
    BY <1>1
  <2> QED
    BY <1>2, <2>1, <2>2, <2>3, <2>4 DEF TypeOK
<1>4. Books'
  BY <1>1 DEF IInv, Books, OneCampaignAtATime
<1>5. Placed'
  BY <1>1 DEF Placed, Ran
<1>6. Counted'
  <2>1. /\ saved.model.day <= saved.model.day /\ kept <= Len(traded)
        /\ \A i \in DOMAIN traded : traded[i][1] <= saved.model.day
    BY TypedParts DEF IInv, Counted
  <2>2. ASSUME ~torn'
        PROVE  /\ OpenedOnce /\ kept = Len(traded)
               /\ Fresh(saved.model, saved.live, traded, kept)
    BY <1>1, <2>2 DEF IInv, Counted
  <2>3. ~torn' => OpenedOnce'
    BY <1>1, <2>2 DEF OpenedOnce
  <2> QED
    BY <1>1, <2>1, <2>2, <2>3 DEF Counted
<1>7. /\ saved'.live.urgent = {}
      /\ Sound(saved'.model, saved'.live, slots', untold', begun')
      /\ Sound(model', live', slots', untold', begun')
  BY <1>1 DEF IInv
<1> QED
  BY <1>3, <1>4, <1>5, <1>6, <1>7 DEF IInv

LEMMA DowntimeKeeps ==
  ASSUME IInv, Downtime
  PROVE  IInv'
<1>1. /\ UNCHANGED <<stratVars, saved, execVars, flowVars, day, tick, histVars>>
      /\ sinceDay' \in Nat /\ sinceTick' \in Nat
  <2>1. {day, tick, sinceDay, sinceTick} \subseteq Nat
    BY DEF IInv, TypeOK
  <2> QED
    BY <2>1 DEF Downtime, LiveFrom, NextMinute, After
<1> QED
  BY <1>1 DEF IInv, TypeOK, Books, Placed, Counted, Acting, Enters, OneCampaignAtATime, OpenedOnce,
       Fresh, stratVars, execVars, flowVars, histVars

LEMMA VenueClosesKeeps ==
  ASSUME IInv, NEW k \in Ks, VenueCloses(k)
  PROVE  IInv'
<1>1. /\ slots[k] # NoTrade /\ gone' = gone \cup {k}
      /\ UNCHANGED <<stratVars, saved, slots, begun, untold, owed, doubt, flowVars, feedVars, histVars>>
  BY DEF VenueCloses
<1>2. gone' \subseteq Held(slots) /\ gone' \subseteq Ks
  BY <1>1, TypedParts, TradeFacts
<1> QED
  BY <1>1, <1>2 DEF IInv, TypeOK, Books, Placed, Counted, Acting, Enters, OneCampaignAtATime,
       OpenedOnce, Fresh, stratVars, flowVars, feedVars, histVars

LEMMA CrashKeeps ==
  ASSUME IInv, Crash
  PROVE  IInv'
<1>1. pc # "down" /\ Stop /\ raised' \in {"none", "redelivery"}
  BY DEF Crash, IInv
<1> QED
  BY <1>1, StopKeeps

Waiting == {"idle", "venue", "retry", "decide"}

\* The loop moves on, and nothing else happens.
LEMMA MoveKeeps ==
  ASSUME IInv, pc \in Waiting, pc' \in Waiting,
         pc' \in {"idle", "venue"} => pc \in {"idle", "venue"},
         UNCHANGED <<stratVars, saved, slots, begun, untold, gone, owed, histVars, intents, due, fresh>>,
         doubt' \in BOOLEAN, {day', tick', sinceDay', sinceTick'} \subseteq Nat
  PROVE  IInv'
<1>1. TypeOK'
  BY DEF IInv, TypeOK, Waiting, Stages, stratVars, histVars
<1>2. Books'
  BY DEF IInv, Books, OneCampaignAtATime
<1>3. Placed'
  BY DEF IInv, Placed, Waiting, Ran, stratVars
<1>4. Counted'
  BY DEF IInv, Counted, OpenedOnce, Fresh, Waiting, stratVars, histVars
<1> QED
  BY <1>1, <1>2, <1>3, <1>4 DEF IInv, stratVars, histVars

LEMMA FeedTyped ==
  ASSUME IInv, UNCHANGED feedVars
  PROVE  {day', tick', sinceDay', sinceTick'} \subseteq Nat
BY DEF IInv, TypeOK, feedVars

LEMMA AdvanceTyped ==
  ASSUME IInv, Advance
  PROVE  {day', tick', sinceDay', sinceTick'} \subseteq Nat
<1>1. {day, tick, sinceDay, sinceTick} \subseteq Nat
  BY DEF IInv, TypeOK
<1> QED
  BY <1>1 DEF Advance, MoveTo, LiveFrom, After

LEMMA BarArrivesKeeps ==
  ASSUME IInv, BarArrives
  PROVE  IInv'
<1>1. /\ pc = "idle" /\ pc' \in {"retry", "venue"}
      /\ UNCHANGED <<stratVars, saved, execVars, histVars, intents, due, fresh, feedVars>>
  BY DEF BarArrives, Goto
<1>2. doubt' \in BOOLEAN
  BY <1>1 DEF IInv, TypeOK, execVars
<1>3. {day', tick', sinceDay', sinceTick'} \subseteq Nat
  BY <1>1, FeedTyped
<1>4. UNCHANGED <<slots, begun, untold, gone, owed>>
  BY <1>1 DEF execVars
<1> QED
  BY <1>1, <1>2, <1>3, <1>4, MoveKeeps DEF Waiting

LEMMA RetryDoneKeeps ==
  ASSUME IInv, RetryDone
  PROVE  IInv'
<1>1. /\ pc = "retry" /\ pc' = "decide"
      /\ UNCHANGED <<stratVars, saved, execVars, histVars, intents, due, fresh, feedVars>>
  BY DEF RetryDone, Goto
<1>2. doubt' \in BOOLEAN
  BY <1>1 DEF IInv, TypeOK, execVars
<1>3. {day', tick', sinceDay', sinceTick'} \subseteq Nat
  BY <1>1, FeedTyped
<1>4. UNCHANGED <<slots, begun, untold, gone, owed>>
  BY <1>1 DEF execVars
<1> QED
  BY <1>1, <1>2, <1>3, <1>4, MoveKeeps DEF Waiting

LEMMA VenueKeeps ==
  ASSUME IInv, VenueUnclear \/ VenueAgrees
  PROVE  IInv'
<1>1. /\ pc = "venue" /\ pc' = "retry" /\ doubt' \in BOOLEAN
      /\ UNCHANGED <<stratVars, saved, slots, begun, untold, gone, owed, histVars, intents, due,
                     fresh, feedVars>>
  BY DEF VenueUnclear, VenueAgrees, Goto
<1>2. {day', tick', sinceDay', sinceTick'} \subseteq Nat
  BY <1>1, FeedTyped
<1> QED
  BY <1>1, <1>2, MoveKeeps DEF Waiting

LEMMA ReplaySeenKeeps ==
  ASSUME IInv, ReplaySeen
  PROVE  IInv'
<1>1. /\ pc = "idle" /\ Advance
      /\ UNCHANGED <<stratVars, saved, execVars, flowVars, histVars>>
  BY DEF ReplaySeen
<1>2. pc' = "idle" /\ UNCHANGED <<intents, due, fresh, slots, begun, untold, gone, owed>>
      /\ doubt' \in BOOLEAN
  BY <1>1 DEF IInv, TypeOK, execVars, flowVars
<1>3. {day', tick', sinceDay', sinceTick'} \subseteq Nat
  BY <1>1, AdvanceTyped
<1> QED
  BY <1>1, <1>2, <1>3, MoveKeeps DEF Waiting

\* A replayed bar changes the ladder, and nothing else.
LEMMA ReplayKeeps ==
  ASSUME IInv, pc = "idle", NEW v, WarmDecides(v), WarmReady(model, live),
         NEW w, w = Settled(v.model, v.live, mirror),
         model' = w.model, live' = w.live, gap' \in BOOLEAN, Advance,
         UNCHANGED <<mirror, saved, execVars, flowVars, histVars>>
  PROVE  IInv'
<1>1. /\ slots \in [Ks -> Trades] /\ begun \in SUBSET Held(slots) /\ mirror = Held(slots)
      /\ traded \in Seq(Nat \X Ks)
  BY DEF WarmReady
<1>2. /\ Sound(v.model, v.live, slots, {}, begun) /\ NoPapers(v.model)
      /\ Occupied(v.model) => v.live.urgent = {}
      /\ model.day <= v.model.day
      /\ ~torn => Fresh(v.model, v.live, traded, Len(traded))
  BY DEF WarmDecides
<1>3. /\ Sound(w.model, w.live, slots, {}, begun) /\ Shrinks(v.model, v.live, w.model, w.live)
      /\ Between(w.model, w.live, mirror, mirror)
  BY <1>1, <1>2, SettledBetween
<1>4. untold = {}
  BY DEF IInv, Placed
<1>5. w.model \in Machines /\ w.live \in Adapters
  BY <1>3, IdleFields
<1>6. model.day <= w.model.day /\ saved.model.day <= w.model.day
  <2>1. v.model.day = w.model.day
    BY <1>3 DEF Shrinks
  <2>2. saved.model.day <= model.day /\ saved.model.day \in Nat /\ model.day \in Nat
    BY TypedParts DEF IInv, Counted
  <2>3. w.model.day \in Nat
    BY <1>5, MachineFacts
  <2> QED
    BY <1>2, <2>1, <2>2, <2>3
<1>7. ~torn => Fresh(w.model, w.live, traded, Len(traded))
  BY <1>1, <1>2, <1>3, TradedFacts, ShrinkFresh
<1>8. TypeOK'
  <2>1. {day', tick', sinceDay', sinceTick'} \subseteq Nat
    BY AdvanceTyped
  <2> QED
    BY <1>5, <2>1 DEF IInv, TypeOK, execVars, flowVars, histVars
<1>9. Books'
  BY DEF IInv, Books, OneCampaignAtATime, execVars
<1>10. Placed'
  <2>1. Held(slots) \cup untold = mirror
    BY <1>1, <1>4
  <2> QED
    BY <1>1, <1>3, <1>4, <2>1 DEF Placed, Ran, execVars, flowVars
<1>11. Counted'
  BY <1>6, <1>7 DEF IInv, Counted, OpenedOnce, flowVars, histVars
<1>12. Sound(model', live', slots', untold', begun')
  BY <1>3, <1>4 DEF execVars
<1> QED
  BY <1>8, <1>9, <1>10, <1>11, <1>12 DEF IInv, execVars, histVars

LEMMA IsReady ==
  ASSUME IInv, pc \in {"idle", "decide"}
  PROVE  Ready /\ (pc = "idle" => WarmReady(model, live))
<1>1. /\ slots \in [Ks -> Trades] /\ begun \in SUBSET Held(slots) /\ mirror \in SUBSET Ks
      /\ traded \in Seq(Nat \X Ks) /\ model.day \in Nat /\ saved.model.day \in Nat
      /\ DOMAIN traded = 1 .. Len(traded)
  BY TypedParts
<1>2. /\ untold = {} /\ (pc = "idle" => mirror = Held(slots))
      /\ Between(model, live, Held(slots) \cup untold, mirror)
  BY DEF IInv, Placed, Ran
<1>3. Sound(model, live, slots, {}, begun) /\ Between(model, live, Held(slots), mirror)
  <2>1. Held(slots) \cup untold = Held(slots)
    BY <1>2
  <2> QED
    BY <1>2, <2>1 DEF IInv
<1>4. /\ \A i \in DOMAIN traded : traded[i][1] <= saved.model.day
      /\ saved.model.day <= model.day
      /\ ~torn => Fresh(model, live, traded, Len(traded))
  BY DEF IInv, Counted
<1>5. \A i \in DOMAIN traded : traded[i][1] <= model.day
  <2> SUFFICES ASSUME NEW i \in DOMAIN traded PROVE traded[i][1] <= model.day
    OBVIOUS
  <2>1. traded[i][1] \in Nat
    BY <1>1, TradedFacts
  <2> QED
    BY <1>1, <1>4, <2>1
<1> QED
  BY <1>1, <1>2, <1>3, <1>4, <1>5 DEF Ready, WarmReady

LEMMA ReplayMinuteKeeps ==
  ASSUME IInv, NEW r \in {{}, {0}}, ReplayMinute(r)
  PROVE  IInv'
<1> DEFINE v == WarmMinute(model, live, r)
           w == Settled(v.model, v.live, mirror)
<1>1. OnMinute(model, live, Minute(day, tick), r, TRUE) = v
  BY DEF OnMinute, WarmMinute
<1>2. /\ pc = "idle" /\ model' = w.model /\ live' = w.live /\ Advance
      /\ UNCHANGED <<mirror, gap, saved, execVars, flowVars, histVars>>
  BY <1>1 DEF ReplayMinute, Land
<1>3. WarmReady(model, live)
  BY <1>2, IsReady
<1>4. WarmDecides(v)
  BY <1>3, WarmMinuteSound
<1>5. w = Settled(v.model, v.live, mirror) /\ gap' \in BOOLEAN
      /\ UNCHANGED <<mirror, saved, execVars, flowVars, histVars>>
  BY <1>2 DEF IInv, TypeOK
<1> HIDE DEF v, w
<1> QED
  BY <1>2, <1>3, <1>4, <1>5, ReplayKeeps

LEMMA ReplayDailyKeeps ==
  ASSUME IInv, NEW e \in Evidence, ReplayDaily(e)
  PROVE  IInv'
<1> DEFINE v == OnDaily(model, live, e, TRUE)
           w == Settled(v.model, v.live, mirror)
<1>1. pc = "idle"
  BY DEF ReplayDaily
<1>2. WarmReady(model, live)
  BY <1>1, IsReady
<1>3. WarmDecides(v)
  BY <1>2, WarmDailySound
<1>4. /\ model' = w.model /\ live' = w.live /\ gap' = FALSE /\ Advance
      /\ UNCHANGED <<mirror, saved, execVars, flowVars, histVars>>
  <2>1. v.ok
    BY <1>3 DEF WarmDecides
  <2> QED
    BY <2>1 DEF ReplayDaily, Unless, Land
<1>5. w = Settled(v.model, v.live, mirror) /\ gap' \in BOOLEAN
  BY <1>4
<1> HIDE DEF v, w
<1> QED
  BY <1>1, <1>2, <1>3, <1>4, <1>5, ReplayKeeps

LEMMA ReplayIncompleteKeeps ==
  ASSUME IInv, ReplayIncomplete
  PROVE  IInv'
<1> DEFINE v == Quiet(model, live)
           w == Settled(v.model, v.live, mirror)
<1>1. v.ok /\ v.model = model /\ v.live = live
  BY QuietFields
<1>2. /\ pc = "idle" /\ model' = w.model /\ live' = w.live /\ gap' = TRUE /\ Advance
      /\ UNCHANGED <<mirror, saved, execVars, flowVars, histVars>>
  BY <1>1 DEF ReplayIncomplete, Land
<1>3. WarmReady(model, live)
  BY <1>2, IsReady
<1>4. WarmDecides(v)
  <2>1. /\ Sound(model, live, slots, {}, begun) /\ Between(model, live, Held(slots), mirror)
        /\ Occupied(model) => live.urgent = {}
        /\ model.day \in Nat
    BY <1>3, WarmFacts
  <2>2. NoPapers(model)
    BY <2>1, BetweenPapers
  <2> QED
    BY <1>1, <1>3, <2>1, <2>2 DEF WarmDecides, WarmReady
<1>5. w = Settled(v.model, v.live, mirror) /\ gap' \in BOOLEAN
  BY <1>2
<1> HIDE DEF v, w
<1> QED
  BY <1>2, <1>3, <1>4, <1>5, ReplayKeeps

LEMMA SameAdapter ==
  ASSUME NEW l \in Adapters, NEW f \in Adapters, f.urgent = l.urgent, f.closing = l.closing,
         f.aborting = l.aborting, f.reversal = l.reversal
  PROVE  f = l
<1>1. l.urgent \in SUBSET Ks
  BY AdapterFacts
<1>2. [l EXCEPT !.urgent = l.urgent] = l /\ [f EXCEPT !.urgent = l.urgent] = f
  BY DEF Adapters
<1>3. /\ [l EXCEPT !.urgent = l.urgent] = [urgent |-> l.urgent, closing |-> l.closing,
                                           aborting |-> l.aborting, reversal |-> l.reversal]
      /\ [f EXCEPT !.urgent = l.urgent] = [urgent |-> l.urgent, closing |-> f.closing,
                                           aborting |-> f.aborting, reversal |-> f.reversal]
  BY <1>1, SetFields
<1> QED
  BY <1>2, <1>3

\* The verdict of a live bar.
LEMMA DecidedKeeps ==
  ASSUME IInv, pc = "decide", NEW v, Decides(v), NEW g \in BOOLEAN, NEW must \in BOOLEAN,
         Decided(v, g, must)
  PROVE  IInv'
<1>1. /\ slots \in [Ks -> Trades] /\ begun \in SUBSET Held(slots) /\ mirror \in SUBSET Ks
      /\ traded \in Seq(Nat \X Ks) /\ model.day \in Nat /\ saved.model.day \in Nat
      /\ Len(traded) \in Nat /\ DOMAIN traded = 1 .. Len(traded)
  BY TypedParts
<1>2. /\ v.ok /\ v.out \in Seq(Intents) /\ Sound(v.model, v.live, slots, {}, begun)
      /\ Occupied(v.model) \/ v.out # <<>> => v.live.urgent = {}
      /\ Planned(v.out, v.model, v.live, v.model, v.live, slots)
      /\ Entering(v.out) => slots[v.out[Len(v.out)].k] = NoTrade
      /\ model.day <= v.model.day
      /\ ~torn => Fresh(v.model, v.live, traded, Len(traded))
  BY DEF Decides
<1>3. /\ model' = v.model /\ live' = v.live /\ gap' = g /\ intents' = v.out
      /\ due' = (must \/ g \/ fresh \/ v.out # <<>>)
      /\ IF due' THEN Save(v.model, v.live, g) ELSE UNCHANGED <<saved, kept>>
      /\ fresh' = FALSE /\ pc' = "submit"
      /\ UNCHANGED <<mirror, execVars, feedVars, traded, torn, raised>>
  BY <1>2 DEF Decided, Unless, Land
<1>4. /\ untold = {} /\ raised \in {"none", "redelivery"} /\ saved.live.urgent = {}
      /\ UNCHANGED <<slots, begun, untold, gone, owed, doubt>>
  BY <1>3 DEF IInv, Placed, Ran, execVars
<1>5. v.model \in Machines /\ v.live \in Adapters /\ v.model.day \in Nat
  BY <1>2, IdleFields, MachineFacts
<1> DEFINE f == [v.live EXCEPT !.urgent = {}]
<1>6. /\ f \in Adapters /\ f.urgent = {} /\ f.closing = v.live.closing
      /\ f.aborting = v.live.aborting /\ f.reversal = v.live.reversal
  BY <1>5, CalmFields
<1>9. due' \in BOOLEAN
  <2>1. due' = (must \/ g \/ fresh \/ v.out # <<>>)
    BY <1>3
  <2>2. fresh \in BOOLEAN
    BY DEF IInv, TypeOK
  <2> QED
    BY <2>1, <2>2
<1>10. /\ intents' \in Seq(Intents) /\ pc' \in Stages /\ fresh' \in BOOLEAN /\ gap' \in BOOLEAN
       /\ model' \in Machines /\ live' \in Adapters
       /\ UNCHANGED <<mirror, execVars, feedVars, traded, torn, raised>>
  BY <1>2, <1>3, <1>5 DEF Stages
<1>7. CASE due'
  <2>0. Save(v.model, v.live, g)
    BY <1>3, <1>7
  <2>1. /\ saved'.model = v.model /\ saved'.live = f /\ saved'.gap = g /\ kept' = Len(traded)
    BY <2>0 DEF Save, Snapshot
  <2> HIDE DEF f
  <2>2. Sound(v.model, f, slots, {}, begun)
    BY <1>2, <1>6, UrgentSound
  <2>3. Planned(v.out, v.model, v.live, v.model, f, slots)
    <3>1. CASE v.out = <<>>
      BY <1>2, <3>1 DEF Planned
    <3>2. CASE v.out # <<>>
      <4>1. v.live.urgent = {}
        BY <1>2, <3>2
      <4>2. f = v.live
        BY <1>5, <1>6, <4>1, SameAdapter
      <4> QED
        BY <1>2, <4>2
    <3> QED
      BY <3>1, <3>2
  <2>4. TypeOK'
    <3>1. saved'.model \in Machines /\ saved'.live \in Adapters /\ saved'.gap \in BOOLEAN
      BY <1>5, <1>6, <2>1
    <3>2. kept' \in Nat
      BY <1>1, <2>1
    <3> QED
      BY <1>9, <1>10, <3>1, <3>2 DEF IInv, TypeOK, execVars, feedVars
  <2>5. Acting'
    BY <1>2, <1>3, <1>4, <1>7, <2>1, <2>3 DEF Acting, Enters, Entering
  <2>6. Placed'
    BY <1>3, <1>4, <2>5 DEF Placed, Ran
  <2>7. Counted'
    <3>1. saved'.model.day <= model'.day /\ kept' <= Len(traded')
      BY <1>1, <1>3, <1>5, <2>1
    <3>2. \A i \in DOMAIN traded' : traded'[i][1] <= saved'.model.day
      <4> SUFFICES ASSUME NEW i \in DOMAIN traded PROVE traded[i][1] <= v.model.day
        BY <1>3, <2>1
      <4>1. traded[i][1] \in Nat /\ traded[i][1] <= saved.model.day /\ saved.model.day <= model.day
        BY <1>1, TradedFacts DEF IInv, Counted
      <4> QED
        BY <1>1, <1>2, <1>5, <4>1
    <3>3. ASSUME ~torn
          PROVE  /\ OpenedOnce' /\ Fresh(saved'.model, saved'.live, traded', kept')
                 /\ Fresh(model', live', traded', Len(traded'))
      <4>1. OpenedOnce'
        BY <1>3, <3>3 DEF IInv, Counted, OpenedOnce
      <4>2. Fresh(v.model, f, traded, Len(traded))
        BY <1>2, <1>6, <3>3 DEF Fresh
      <4> QED
        BY <1>2, <1>3, <2>1, <3>3, <4>1, <4>2
    <3> QED
      BY <1>3, <2>1, <3>1, <3>2, <3>3 DEF Counted
  <2>8. Books'
    BY <1>4 DEF IInv, Books, OneCampaignAtATime
  <2> QED
    BY <1>2, <1>3, <1>4, <1>6, <2>1, <2>2, <2>4, <2>6, <2>7, <2>8 DEF IInv
<1>8. CASE ~due'
  <2>1. v.out = <<>> /\ UNCHANGED <<saved, kept>>
    BY <1>3, <1>8
  <2>2. Planned(v.out, v.model, v.live, saved.model, saved.live, slots)
    BY <1>2, <2>1 DEF Planned
  <2>3. Sound(saved.model, saved.live, slots, untold, begun)
    BY DEF IInv
  <2>4. TypeOK'
    BY <1>9, <1>10, <2>1 DEF IInv, TypeOK, execVars, feedVars
  <2>5. Acting'
    BY <1>2, <1>3, <1>4, <1>8, <2>1, <2>2 DEF Acting, Enters
  <2>6. Placed'
    BY <1>3, <1>4, <2>5 DEF Placed, Ran
  <2>7. Counted'
    <3>1. saved'.model.day <= model'.day /\ kept' <= Len(traded')
      BY <1>1, <1>2, <1>3, <1>5, <2>1 DEF IInv, Counted
    <3>2. \A i \in DOMAIN traded' : traded'[i][1] <= saved'.model.day
      BY <1>3, <2>1 DEF IInv, Counted
    <3>3. ASSUME ~torn
          PROVE  /\ OpenedOnce' /\ Fresh(saved'.model, saved'.live, traded', kept')
                 /\ Fresh(model', live', traded', Len(traded')) /\ kept' = Len(traded')
      <4>1. OpenedOnce'
        BY <1>3, <3>3 DEF IInv, Counted, OpenedOnce
      <4> QED
        BY <1>2, <1>3, <2>1, <3>3, <4>1 DEF IInv, Counted
    <3> QED
      BY <1>3, <2>1, <3>1, <3>2, <3>3 DEF Counted
  <2>8. Books'
    BY <1>4 DEF IInv, Books, OneCampaignAtATime
  <2> QED
    BY <1>2, <1>3, <1>4, <2>1, <2>3, <2>4, <2>6, <2>7, <2>8 DEF IInv
<1> QED
  BY <1>7, <1>8

LEMMA DecideMinuteKeeps ==
  ASSUME IInv, NEW r \in {{}, {0}}, NEW hole \in BOOLEAN, DecideMinute(r, hole)
  PROVE  IInv'
<1> DEFINE v == OnMinute(model, live, Minute(day, tick), r, FALSE)
           g == gap \/ hole
           must == r # {}
<1>1. pc = "decide" /\ Decided(v, g, must)
  BY DEF DecideMinute
<1>2. g \in BOOLEAN /\ must \in BOOLEAN
  OBVIOUS
<1>3. Ready
  BY <1>1, IsReady
<1>4. Decides(v)
  BY <1>3, MinuteSound
<1> HIDE DEF v, g, must
<1> QED
  BY <1>1, <1>2, <1>4, DecidedKeeps

LEMMA DecideDailyKeeps ==
  ASSUME IInv, NEW e \in Evidence, DecideDaily(e)
  PROVE  IInv'
<1> DEFINE v == OnDaily(model, live, e, FALSE)
           g == FALSE
           must == TRUE
<1>1. pc = "decide" /\ day = model.day /\ Decided(v, g, must)
  BY DEF DecideDaily, Chained
<1>2. g \in BOOLEAN /\ must \in BOOLEAN
  OBVIOUS
<1>3. Ready
  BY <1>1, IsReady
<1>4. Decides(v)
  BY <1>1, <1>3, DailySound
<1> HIDE DEF v, g, must
<1> QED
  BY <1>1, <1>2, <1>4, DecidedKeeps

LEMMA SkipDailyKeeps ==
  ASSUME IInv, SkipDaily
  PROVE  IInv'
<1> DEFINE v == Quiet(model, live)
           g == TRUE
           must == TRUE
<1>1. pc = "decide" /\ Decided(v, g, must)
  BY DEF SkipDaily
<1>2. g \in BOOLEAN /\ must \in BOOLEAN
  OBVIOUS
<1>3. Ready
  BY <1>1, IsReady
<1>4. v.ok /\ v.model = model /\ v.live = live /\ v.out = <<>>
  BY QuietFields
<1>5. NoPapers(model)
  BY <1>3, BetweenPapers DEF Ready
<1>6. Planned(<<>>, model, live, model, live, slots) /\ <<>> \in Seq(Intents) /\ ~Entering(<<>>)
  BY <1>5, PlannedNothing
<1>7. model.day <= model.day
  BY TypedParts
<1> HIDE DEF v, g, must
<1>8. Decides(v)
  <2>1. Occupied(model) => live.urgent = {}
    BY <1>3 DEF Ready, Between
  <2> QED
    BY <1>3, <1>4, <1>6, <1>7, <2>1 DEF Decides, Ready
<1> QED
  BY <1>1, <1>2, <1>8, DecidedKeeps

-----------------------------------------------------------------------------

LEMMA CalmSame ==
  ASSUME NEW l \in Adapters, l.urgent = {}, NEW f, f = [l EXCEPT !.urgent = {}]
  PROVE  f = l
<1>1. /\ f \in Adapters /\ f.urgent = {} /\ f.closing = l.closing /\ f.aborting = l.aborting
      /\ f.reversal = l.reversal
  BY CalmFields
<1>2. f.urgent = l.urgent
  BY <1>1
<1> QED
  BY <1>1, <1>2, SameAdapter

LEMMA InitKeeps ==
  ASSUME Init
  PROVE  IInv
<1>1. /\ model \in {Blank} \cup {Seeded(s) : s \in Sides}
      /\ live = NewAdapter /\ mirror = {} /\ gap = FALSE
      /\ slots = [k \in Ks |-> NoTrade]
      /\ begun = {} /\ untold = {} /\ gone = {} /\ owed = {} /\ doubt = FALSE
      /\ pc = "down" /\ intents = <<>> /\ due = FALSE /\ fresh = TRUE
      /\ day = 0 /\ tick = 0 /\ sinceDay = 0 /\ sinceTick = 0
      /\ traded = <<>> /\ kept = 0 /\ torn = FALSE /\ raised = "none"
      /\ saved.model = model /\ saved.gap = gap /\ saved.live = [live EXCEPT !.urgent = {}]
  BY DEF Init, Snapshot
<1>2. /\ live \in Adapters /\ live.urgent = {} /\ live.closing = {} /\ live.aborting = {}
      /\ live.reversal = NoReversal
  BY <1>1 DEF NewAdapter, Adapters
<1>3. saved.live = live
  <2>1. saved.live = [live EXCEPT !.urgent = {}]
    BY <1>1
  <2> QED
    BY <1>2, <2>1, CalmSame
<1>4. Held(slots) = {} /\ slots \in [Ks -> Trades]
  BY <1>1 DEF Held, Trades
<1>5. Blank \in Machines /\ ~Occupied(Blank) /\ Blank.exit = "none" /\ Blank.day = 0
  BY DEF Blank, Machines, Occupied, Candidates
<1>6. ASSUME NEW s \in Sides, model = Seeded(s)
      PROVE  Sound(model, live, slots, {}, {}) /\ model.day = 0
  <2> DEFINE c == NewCampaign(0, s, "historical")
  <2>1. c \in Campaigns /\ c.id = 0 /\ c.origin = "historical" /\ c.lifetime = 1
        /\ DOMAIN c.units = {0} /\ c.units[0].origin = "historical"
    BY NewFacts DEF Origins
  <2> HIDE DEF c
  <2>2. model \in Machines /\ model.campaign = c /\ model.exit = "none" /\ model.day = 0 /\ Occupied(model)
    <3>1. model = [Blank EXCEPT !.campaign = c]
      BY <1>6 DEF Seeded, c
    <3>2. c \in Campaigns \cup {NoCampaign}
      BY <2>1
    <3>3. model \in Machines /\ model.campaign = c /\ model.exit = "none" /\ model.day = 0
      BY <1>5, <3>1, <3>2, SetCampaign
    <3> QED
      BY <2>1, <3>3, MachineFacts
  <2>3. Rested(model)
    BY <2>1, <2>2 DEF Rested
  <2> QED
    BY <1>2, <1>4, <2>1, <2>2, <2>3 DEF Sound, Waits, IsOf
<1>7. ASSUME model = Blank
      PROVE  Sound(model, live, slots, {}, {}) /\ model.day = 0
  BY <1>2, <1>4, <1>5, <1>7, IdleSound
<1>8. Sound(model, live, slots, {}, {}) /\ model.day = 0
  BY <1>1, <1>6, <1>7
<1>9. model \in Machines
  BY <1>8, IdleFields
<1>10. TypeOK
  <2>1. traded \in Seq(Nat \X Ks) /\ intents \in Seq(Intents) /\ pc \in Stages
    BY <1>1 DEF Stages
  <2>2. /\ mirror \subseteq Ks /\ gap \in BOOLEAN /\ saved.gap \in BOOLEAN
        /\ begun \subseteq Ks /\ untold \subseteq Ks /\ gone \subseteq Ks /\ owed \subseteq Ks
        /\ doubt \in BOOLEAN /\ due \in BOOLEAN /\ fresh \in BOOLEAN
    BY <1>1
  <2>3. /\ {day, tick, sinceDay, sinceTick} \subseteq Nat
        /\ kept \in Nat
    BY <1>1
  <2>5. torn \in BOOLEAN
    BY <1>1
  <2>6. raised \in {"none", "redelivery", "startup", "handler"}
    BY <1>1
  <2>4. saved.model \in Machines /\ saved.live \in Adapters /\ live \in Adapters
    BY <1>1, <1>2, <1>3, <1>9
  <2> QED
    BY <1>4, <1>9, <2>1, <2>2, <2>3, <2>4, <2>5, <2>6 DEF TypeOK
<1>11. Books
  BY <1>1, <1>4 DEF Books, OneCampaignAtATime
<1>12. Placed
  BY <1>1, <1>3 DEF Placed, Ran
<1>13. Counted
  <2>1. Len(traded) = 0 /\ DOMAIN traded = {}
    BY <1>1
  <2>2. Fresh(model, live, traded, 0)
    BY DEF Fresh
  <2> QED
    BY <1>1, <1>3, <1>8, <2>1, <2>2 DEF Counted, OpenedOnce
<1> QED
  BY <1>1, <1>2, <1>3, <1>8, <1>10, <1>11, <1>12, <1>13 DEF IInv

LEMMA FreesCampaign ==
  ASSUME NEW s, NEW s2, NEW ks, Frees(s, s2, ks), \A j, k \in Held(s) : s[j].id = s[k].id
  PROVE  \A j, k \in Held(s2) : s2[j].id = s2[k].id
BY DEF Frees

\* What a restart hears, when the aborts that are done have been settled.
BootSettled == Settled(saved.model, saved.live, Held(slots))
BootHeard == Told(BootSettled.model, BootSettled.live, untold, Held(slots))
BootStarted == Started(BootHeard.model, BootHeard.live, slots)

LEMMA BootedFields ==
  Booted.heard = BootHeard /\ Booted.verdict = IF BootHeard.ok THEN BootStarted ELSE BootHeard
BY DEF Booted, BootSettled, BootHeard, BootStarted

LEMMA BootFacts ==
  ASSUME IInv, BootHeard.ok
  PROVE  /\ Sound(BootHeard.model, BootHeard.live, slots, {}, begun)
         /\ Shrinks(saved.model, saved.live, BootHeard.model, BootHeard.live)
         /\ StartedWell(BootHeard.model, BootHeard.live, slots, begun, BootStarted)
<1> DEFINE m == saved.model
           l == saved.live
           w == BootSettled
           h == BootHeard
           v == BootStarted
<1>1. /\ slots \in [Ks -> Trades] /\ untold \in SUBSET Ks /\ begun \in SUBSET Held(slots)
      /\ Sound(m, l, slots, untold, begun) /\ untold \cap Held(slots) = {} /\ l.urgent = {}
  BY TypedParts DEF IInv, Books
<1>2. /\ w = Settled(m, l, Held(slots)) /\ h = Told(w.model, w.live, untold, Held(slots)) /\ h.ok
      /\ v = Started(h.model, h.live, slots)
  BY DEF BootSettled, BootHeard, BootStarted
<1> HIDE DEF m, l, w, h, v
<1>3. /\ Sound(h.model, h.live, slots, {}, begun) /\ Shrinks(m, l, h.model, h.live)
      /\ StartedWell(h.model, h.live, slots, begun, v)
  BY <1>1, <1>2, BootSound
<1> QED
  BY <1>3 DEF m, l, h, v

LEMMA RestartRefusedKeeps ==
  ASSUME IInv, RestartRefused
  PROVE  IInv'
<1>1. ~BootHeard.ok
  <2> SUFFICES ASSUME BootHeard.ok PROVE FALSE
    OBVIOUS
  <2>1. StartedWell(BootHeard.model, BootHeard.live, slots, begun, BootStarted)
    BY BootFacts
  <2>2. Booted.verdict.ok
    BY <2>1, BootedFields DEF StartedWell
  <2>3. Restorable(saved.model)
    BY RestedRestores DEF IInv, Sound
  <2> QED
    BY <2>2, <2>3 DEF RestartRefused
<1>2. /\ raised' = "redelivery"
      /\ UNCHANGED <<stratVars, saved, execVars, flowVars, feedVars, traded, kept, torn>>
  BY <1>1, BootedFields DEF RestartRefused
<1> QED
  BY <1>2 DEF IInv, TypeOK, Books, Placed, Counted, Acting, Enters, OneCampaignAtATime, OpenedOnce,
       Fresh, stratVars, execVars, flowVars, feedVars

\* The ladder that starts knows of every trade that has been opened.
LEMMA RestartKeeps ==
  ASSUME IInv, Restart
  PROVE  IInv'
<1> DEFINE h == BootHeard
           v == BootStarted
<1>1. h.ok /\ Booted.verdict = v /\ Booted.heard = h
  BY BootedFields DEF Restart
<1>2. /\ pc = "down" /\ pc' = "idle" /\ model' = v.model /\ live' = v.live
      /\ IF untold = {} THEN UNCHANGED <<saved, kept>> ELSE Save(h.model, h.live, gap)
      /\ untold' = {} /\ mirror' = Held(slots) /\ owed' = begun \ gone /\ doubt' = (gone # {})
      /\ UNCHANGED <<gap, slots, begun, gone, intents, due, fresh, feedVars, traded, torn, raised>>
  BY <1>1 DEF Restart, Land
<1>3. /\ Sound(h.model, h.live, slots, {}, begun)
      /\ Shrinks(saved.model, saved.live, h.model, h.live)
      /\ StartedWell(h.model, h.live, slots, begun, v)
  BY <1>1, BootFacts
<1> HIDE DEF h, v
<1>4. /\ Sound(v.model, v.live, slots, {}, begun) /\ Shrinks(h.model, h.live, v.model, v.live)
      /\ Between(v.model, v.live, Held(slots), Held(slots))
  BY <1>3 DEF StartedWell
<1>5. /\ h.model \in Machines /\ h.live \in Adapters /\ v.model \in Machines /\ v.live \in Adapters
  BY <1>3, <1>4, IdleFields
<1>6. h.model.day = saved.model.day /\ v.model.day = saved.model.day /\ saved.model.day \in Nat
  BY <1>3, <1>4, TypedParts DEF Shrinks
<1>7. /\ Len(traded) \in Nat /\ \A i \in 1 .. Len(traded) : traded[i][2] \in Ks
      /\ \A i \in DOMAIN traded : traded[i][1] <= saved.model.day
      /\ saved.model.day <= saved.model.day
  BY TypedParts, TradedFacts DEF IInv, Counted
<1>8. ASSUME ~torn
      PROVE  /\ kept = Len(traded) /\ OpenedOnce /\ Fresh(saved.model, saved.live, traded, Len(traded))
             /\ Fresh(h.model, h.live, traded, Len(traded))
             /\ Fresh(v.model, v.live, traded, Len(traded))
  <2>1. kept = Len(traded) /\ OpenedOnce /\ Fresh(saved.model, saved.live, traded, kept)
    BY <1>2, <1>8 DEF IInv, Counted
  <2>2. Fresh(h.model, h.live, traded, Len(traded))
    BY <1>3, <1>7, <2>1, ShrinkFresh
  <2>3. Fresh(v.model, v.live, traded, Len(traded))
    BY <1>4, <1>7, <2>2, ShrinkFresh
  <2> QED
    BY <2>1, <2>2, <2>3
<1>9. /\ saved'.model \in Machines /\ saved'.live \in Adapters /\ saved'.gap \in BOOLEAN /\ kept' \in Nat
      /\ saved'.live.urgent = {} /\ Sound(saved'.model, saved'.live, slots, {}, begun)
      /\ saved'.model.day = saved.model.day /\ kept' <= Len(traded)
      /\ ~torn => kept' = Len(traded) /\ Fresh(saved'.model, saved'.live, traded, kept')
  <2>1. CASE untold = {}
    <3>1. UNCHANGED <<saved, kept>>
      BY <1>2, <2>1
    <3>2. /\ saved.model \in Machines /\ saved.live \in Adapters /\ saved.gap \in BOOLEAN /\ kept \in Nat
          /\ saved.live.urgent = {} /\ Sound(saved.model, saved.live, slots, {}, begun)
          /\ kept <= Len(traded)
      BY <2>1 DEF IInv, TypeOK, Counted
    <3> QED
      BY <1>8, <3>1, <3>2
  <2>2. CASE untold # {}
    <3> DEFINE f == [h.live EXCEPT !.urgent = {}]
    <3>1. Save(h.model, h.live, gap)
      BY <1>2, <2>2
    <3>2. saved'.model = h.model /\ saved'.live = f /\ saved'.gap = gap /\ kept' = Len(traded)
      BY <3>1 DEF Save, Snapshot
    <3>3. /\ f \in Adapters /\ f.urgent = {} /\ f.closing = h.live.closing
          /\ f.aborting = h.live.aborting /\ f.reversal = h.live.reversal
      BY <1>5, CalmFields
    <3> HIDE DEF f
    <3>4. Sound(h.model, f, slots, {}, begun)
      BY <1>3, <3>3, UrgentSound
    <3>5. ~torn => Fresh(h.model, f, traded, Len(traded))
      BY <1>8, <3>3 DEF Fresh
    <3>6. gap \in BOOLEAN
      BY DEF IInv, TypeOK
    <3> QED
      BY <1>5, <1>6, <1>7, <3>2, <3>3, <3>4, <3>5, <3>6
  <2> QED
    BY <2>1, <2>2
<1>10. TypeOK'
  <2>1. /\ model' \in Machines /\ live' \in Adapters /\ mirror' \subseteq Ks /\ untold' \subseteq Ks
        /\ owed' \subseteq Ks /\ pc' \in Stages
    BY <1>2, <1>5, TypedParts DEF Stages
  <2>2. doubt' \in BOOLEAN
    BY <1>2
  <2> QED
    BY <1>2, <1>9, <2>1, <2>2 DEF IInv, TypeOK, feedVars
<1>11. Books'
  BY <1>2, TypedParts DEF IInv, Books, OneCampaignAtATime
<1>12. Placed'
  <2>1. Held(slots) \cup untold' = Held(slots)
    BY <1>2
  <2> QED
    BY <1>2, <1>4, <2>1 DEF Placed, Ran
<1>13. Counted'
  BY <1>2, <1>6, <1>7, <1>8, <1>9 DEF Counted, OpenedOnce
<1> QED
  BY <1>2, <1>4, <1>9, <1>10, <1>11, <1>12, <1>13 DEF IInv

\* The closes that the venue's history explains.
LEMMA ClosureBookedKeeps ==
  ASSUME IInv, NEW ks, ClosureBooked(ks)
  PROVE  IInv'
<1>1. /\ pc = "venue" /\ ks \subseteq gone /\ pc' = "deliver"
      /\ slots' = [k \in Ks |-> IF k \in ks THEN NoTrade ELSE slots[k]]
      /\ begun' = begun \ ks /\ owed' = owed \ ks /\ gone' = gone \ ks
      /\ untold' = untold \cup ks /\ doubt' = (gone # ks)
      /\ UNCHANGED <<stratVars, saved, histVars, intents, due, fresh, feedVars>>
  BY DEF ClosureBooked, Goto
<1>2. /\ slots \in [Ks -> Trades] /\ begun \in SUBSET Held(slots) /\ untold \in SUBSET Ks
      /\ gone \in SUBSET Held(slots) /\ ks \in SUBSET Held(slots) /\ ks \in SUBSET Ks
  BY <1>1, TypedParts
<1>3. Frees(slots, slots', ks)
  BY <1>1, <1>2, FreesMany
<1>4. Held(slots') = Held(slots) \ ks /\ slots' \in [Ks -> Trades]
  BY <1>3 DEF Frees
<1>5. /\ Sound(model, live, slots', untold', begun')
      /\ Sound(saved.model, saved.live, slots', untold', begun')
  <2>1. Sound(model, live, slots, untold, begun) /\ Sound(saved.model, saved.live, slots, untold, begun)
    BY DEF IInv
  <2> DEFINE s2 == slots'
  <2>2. Frees(slots, s2, ks)
    BY <1>3
  <2> HIDE DEF s2
  <2>3. /\ Sound(model, live, s2, untold \cup ks, begun \ ks)
        /\ Sound(saved.model, saved.live, s2, untold \cup ks, begun \ ks)
    BY <1>2, <2>1, <2>2, BookSound
  <2> QED
    BY <1>1, <2>3 DEF s2
<1>6. TypeOK'
  <2>1. doubt' \in BOOLEAN
    BY <1>1
  <2>2. begun' \subseteq Ks /\ untold' \subseteq Ks /\ gone' \subseteq Ks /\ owed' \subseteq Ks /\ pc' \in Stages
    BY <1>1, <1>2 DEF IInv, TypeOK, Stages
  <2> QED
    BY <1>1, <1>4, <2>1, <2>2 DEF IInv, TypeOK, stratVars, feedVars, histVars
<1>7. untold = {} /\ mirror = Held(slots) /\ Between(model, live, Held(slots) \cup untold, mirror)
  BY <1>1 DEF IInv, Placed, Ran
<1>8. Held(slots') \cup untold' = Held(slots) /\ Held(slots) \cup untold = Held(slots)
  BY <1>1, <1>2, <1>4, <1>7
<1>9. Books'
  <2>1. untold' \cap Held(slots') = {} /\ begun' \subseteq Held(slots') /\ gone' \subseteq Held(slots')
        /\ owed' \subseteq begun'
    BY <1>1, <1>2, <1>4, <1>7 DEF IInv, Books
  <2>2. \A j, k \in Held(slots') : slots'[j].id = slots'[k].id
    BY <1>3, FreesCampaign DEF IInv, Books, OneCampaignAtATime
  <2> QED
    BY <2>1, <2>2 DEF Books, OneCampaignAtATime
<1>10. Placed'
  <2>1. Between(model', live', Held(slots') \cup untold', mirror')
    BY <1>1, <1>7, <1>8 DEF stratVars
  <2>2. mirror' = Held(slots') \cup untold'
    BY <1>1, <1>7, <1>8 DEF stratVars
  <2> QED
    BY <1>1, <2>1, <2>2 DEF Placed, Ran
<1>11. Counted'
  BY <1>1 DEF IInv, Counted, OpenedOnce, Fresh, stratVars, histVars
<1> QED
  BY <1>1, <1>5, <1>6, <1>9, <1>10, <1>11 DEF IInv, stratVars, histVars

\* The closes that the strategy is told of: what is left is between bars.
LEMMA DeliveredBetween ==
  ASSUME NEW m, NEW l, NEW s \in [Ks -> Trades], NEW u \in SUBSET Ks, NEW b \in SUBSET Held(s),
         Sound(m, l, s, u, b), u \cap Held(s) = {},
         NEW p, p = Held(s) \cup u, Between(m, l, p, p),
         NEW v, v = Told(m, l, u, Held(s))
  PROVE  /\ v.ok /\ Sound(v.model, v.live, s, {}, b) /\ Shrinks(m, l, v.model, v.live)
         /\ Between(v.model, v.live, Held(s), Held(s))
<1>1. u \subseteq Answerable(m, l)
  <2>1. CASE ~Occupied(m)
    BY <2>1 DEF Between, Answerable
  <2>2. CASE Occupied(m)
    <3>1. IsOf(m, "historical") \/ IsOf(m, "live")
      <4>1. m.campaign.origin \in Origins /\ ~IsOf(m, "paper")
        BY <2>2, MachineFacts, CampaignFacts DEF Sound, Rested, Between
      <4> QED
        BY <2>2, <4>1 DEF IsOf, Origins
    <3> QED
      BY <2>2, <3>1 DEF Between, Answerable
  <2> QED
    BY <2>1, <2>2
<1>2. /\ v.ok /\ Sound(v.model, v.live, s, {}, b) /\ Shrinks(m, l, v.model, v.live)
      /\ ~Occupied(m) => /\ v.model = m /\ v.live.closing = l.closing \ u
                         /\ v.live.aborting = l.aborting /\ v.live.urgent = l.urgent
      /\ Occupied(m) /\ 0 \notin u =>
           /\ Trims(m, v.model, u) /\ v.live.closing = l.closing
           /\ v.live.aborting = l.aborting \ u /\ v.live.urgent = l.urgent
      /\ Occupied(m) /\ 0 \in u =>
           /\ ~Occupied(v.model) /\ v.live.closing = Held(s)
           /\ v.live.aborting = l.aborting \ (u \ {0})
  BY <1>1, ToldSound
<1>3. Between(v.model, v.live, Held(s), Held(s))
  <2>1. CASE ~Occupied(m)
    <3>1. ~Occupied(v.model) /\ v.live.closing = Held(s)
      BY <1>2, <2>1 DEF Between
    <3> QED
      BY <3>1 DEF Between, IsOf
  <2>2. CASE Occupied(m) /\ 0 \in u
    BY <1>2, <2>2 DEF Between, IsOf
  <2>3. CASE Occupied(m) /\ 0 \notin u
    <3>1. /\ Occupied(v.model) /\ v.model.campaign.origin = m.campaign.origin
          /\ DOMAIN v.model.campaign.units = DOMAIN m.campaign.units \ u
          /\ \A k \in DOMAIN v.model.campaign.units :
               v.model.campaign.units[k] = m.campaign.units[k]
          /\ v.live.aborting = l.aborting \ u /\ v.live.urgent = l.urgent
      BY <1>2, <2>3 DEF Trims
    <3>2. p \ u = Held(s)
      OBVIOUS
    <3>3. l.urgent = {} /\ ~IsOf(m, "paper")
      BY <2>3 DEF Between
    <3>4. IsOf(v.model, "historical") => Held(s) = {}
      BY <2>3, <3>1, <3>2 DEF Between, IsOf
    <3>5. IsOf(v.model, "live") =>
            /\ DOMAIN v.model.campaign.units = Held(s) /\ v.live.aborting \subseteq Held(s)
            /\ \A k \in Held(s) : v.model.campaign.units[k].origin = "live"
      BY <2>3, <3>1, <3>2 DEF Between, IsOf
    <3> QED
      BY <2>3, <3>1, <3>3, <3>4, <3>5 DEF Between, IsOf
  <2> QED
    BY <2>1, <2>2, <2>3
<1> QED
  BY <1>2, <1>3

LEMMA DeliverKeeps ==
  ASSUME IInv, Deliver
  PROVE  IInv'
<1> DEFINE v == Told(model, live, untold, Held(slots))
           p == Held(slots) \cup untold
           f == [v.live EXCEPT !.urgent = {}]
<1>1. /\ slots \in [Ks -> Trades] /\ untold \in SUBSET Ks /\ begun \in SUBSET Held(slots)
      /\ Sound(model, live, slots, untold, begun) /\ untold \cap Held(slots) = {}
  BY TypedParts DEF IInv, Books
<1>2. Between(model, live, p, p)
  BY DEF IInv, Placed, Ran, Deliver
<1> HIDE DEF p
<1>3. p = Held(slots) \cup untold
  BY DEF p
<1>4. v = Told(model, live, untold, Held(slots))
  OBVIOUS
<1>5. Deliver
  OBVIOUS
<1> HIDE DEF v
<1>6. /\ v.ok /\ Sound(v.model, v.live, slots, {}, begun) /\ Shrinks(model, live, v.model, v.live)
      /\ Between(v.model, v.live, Held(slots), Held(slots))
  BY <1>1, <1>2, <1>3, <1>4, DeliveredBetween
<1>7. /\ pc = "deliver" /\ pc' = "retry" /\ model' = v.model /\ live' = v.live
      /\ mirror' = Held(slots) /\ Save(v.model, v.live, gap) /\ untold' = {}
      /\ UNCHANGED <<gap, slots, begun, gone, owed, doubt, traded, torn, raised, intents, due, fresh,
                     feedVars>>
  BY <1>5, <1>6 DEF Deliver, Unless, Land, Goto, v
<1>8. saved'.model = v.model /\ saved'.live = f /\ saved'.gap = gap /\ kept' = Len(traded)
  BY <1>7 DEF Save, Snapshot
<1>9. v.model \in Machines /\ v.live \in Adapters
  BY <1>6, IdleFields
<1>10. /\ f \in Adapters /\ f.urgent = {} /\ f.closing = v.live.closing
       /\ f.aborting = v.live.aborting /\ f.reversal = v.live.reversal
  BY <1>9, CalmFields
<1> HIDE DEF f
<1>11. Sound(v.model, f, slots, {}, begun)
  BY <1>6, <1>10, UrgentSound
<1>12. /\ Len(traded) \in Nat /\ \A i \in 1 .. Len(traded) : traded[i][2] \in Ks
       /\ v.model.day = model.day /\ v.model.day <= v.model.day
       /\ \A i \in DOMAIN traded : traded[i][1] <= v.model.day
  <2>1. v.model.day = model.day /\ model.day \in Nat /\ saved.model.day \in Nat
    BY <1>6, TypedParts DEF Shrinks
  <2>2. /\ Len(traded) \in Nat /\ DOMAIN traded = 1 .. Len(traded)
        /\ \A i \in 1 .. Len(traded) : traded[i][1] \in Nat /\ traded[i][2] \in Ks
    BY TypedParts, TradedFacts
  <2>3. /\ \A i \in DOMAIN traded : traded[i][1] <= saved.model.day
        /\ saved.model.day <= model.day
    BY DEF IInv, Counted
  <2> QED
    BY <2>1, <2>2, <2>3
<1>13. ASSUME ~torn
       PROVE  /\ OpenedOnce /\ Fresh(v.model, v.live, traded, Len(traded))
              /\ Fresh(v.model, f, traded, Len(traded))
  <2>1. OpenedOnce /\ Fresh(model, live, traded, Len(traded))
    BY <1>7, <1>13 DEF IInv, Counted
  <2>2. Fresh(v.model, v.live, traded, Len(traded))
    BY <1>6, <1>12, <2>1, ShrinkFresh
  <2> QED
    BY <1>10, <2>1, <2>2 DEF Fresh
<1>14. TypeOK'
  <2>1. /\ model' \in Machines /\ live' \in Adapters /\ mirror' \subseteq Ks /\ untold' \subseteq Ks
        /\ pc' \in Stages /\ kept' \in Nat
        /\ saved'.model \in Machines /\ saved'.live \in Adapters /\ saved'.gap \in BOOLEAN
    BY <1>7, <1>8, <1>9, <1>10, <1>12, TypedParts DEF Stages, IInv, TypeOK
  <2> QED
    BY <1>7, <2>1 DEF IInv, TypeOK, feedVars
<1>15. Books'
  BY <1>7 DEF IInv, Books, OneCampaignAtATime
<1>16. Placed'
  <2>1. Held(slots) \cup untold' = Held(slots)
    BY <1>7
  <2> QED
    BY <1>6, <1>7, <2>1 DEF Placed, Ran
<1>17. Counted'
  BY <1>7, <1>8, <1>12, <1>13 DEF Counted, OpenedOnce
<1> QED
  BY <1>6, <1>7, <1>8, <1>10, <1>11, <1>14, <1>15, <1>16, <1>17 DEF IInv

\* A close that is owed goes through, is refused, or has no answer.
LEMMA RetryAcceptedKeeps ==
  ASSUME IInv, NEW k \in owed, RetryAccepted(k)
  PROVE  IInv'
<1>1. /\ pc = "retry" /\ slots[k] # NoTrade /\ k \notin gone
      /\ slots' = [slots EXCEPT ![k] = NoTrade]
      /\ begun' = begun \ {k} /\ owed' = owed \ {k}
      /\ UNCHANGED <<stratVars, saved, flowVars, feedVars, histVars, untold, gone, doubt>>
  BY DEF RetryAccepted, Retried, CloseAccepted, Sendable
<1>2. /\ slots \in [Ks -> Trades] /\ begun \in SUBSET Held(slots) /\ untold \in SUBSET Ks
      /\ gone \in SUBSET Held(slots) /\ k \in begun /\ k \in Held(slots) /\ k \in Ks
      /\ Held(slots) \in SUBSET Ks
  BY TypedParts DEF IInv, Books
<1>3. Frees(slots, slots', {k})
  BY <1>1, <1>2, FreesOne
<1>4. Held(slots') = Held(slots) \ {k} /\ slots' \in [Ks -> Trades]
  BY <1>3 DEF Frees
<1>5. /\ Sound(model, live, slots', untold', begun')
      /\ Sound(saved.model, saved.live, slots', untold', begun')
  <2>1. /\ Sound(model, live, slots, untold, begun)
        /\ Sound(saved.model, saved.live, slots, untold, begun)
    BY DEF IInv
  <2>2. Leaving(model, live, slots, k) /\ Leaving(saved.model, saved.live, slots, k)
    BY <1>2, <2>1 DEF Sound
  <2> DEFINE s2 == slots'
  <2>3. Frees(slots, s2, {k})
    BY <1>3
  <2> HIDE DEF s2
  <2>4. /\ Sound(model, live, s2, untold, begun \ {k})
        /\ Sound(saved.model, saved.live, s2, untold, begun \ {k})
    BY <1>2, <2>1, <2>2, <2>3, CloseSound
  <2> QED
    BY <1>1, <2>4 DEF s2
<1>6. TypeOK'
  BY <1>1, <1>4 DEF IInv, TypeOK, stratVars, flowVars, feedVars, histVars
<1>7. Books'
  <2>1. /\ untold' \cap Held(slots') = {} /\ begun' \subseteq Held(slots')
        /\ gone' \subseteq Held(slots') /\ owed' \subseteq begun'
    BY <1>1, <1>2, <1>4 DEF IInv, Books
  <2>2. \A i, j \in Held(slots') : slots'[i].id = slots'[j].id
    BY <1>3, FreesCampaign DEF IInv, Books, OneCampaignAtATime
  <2> QED
    BY <2>1, <2>2 DEF Books, OneCampaignAtATime
<1>8. Placed'
  <2>1. untold = {} /\ Between(model, live, Held(slots) \cup untold, mirror)
    BY <1>1 DEF IInv, Placed, Ran
  <2>2. Between(model, live, Held(slots') \cup untold', mirror)
    BY <1>1, <1>4, <2>1 DEF Between
  <2> QED
    BY <1>1, <2>1, <2>2 DEF Placed, Ran, stratVars, flowVars
<1>9. Counted'
  BY <1>1 DEF IInv, Counted, OpenedOnce, Fresh, stratVars, flowVars, histVars
<1> QED
  BY <1>1, <1>5, <1>6, <1>7, <1>8, <1>9 DEF IInv, stratVars, histVars

LEMMA RetryExecutedKeeps ==
  ASSUME IInv, NEW k \in owed, RetryExecuted(k)
  PROVE  IInv'
<1>1. /\ slots[k] # NoTrade /\ begun' = begun \cup {k} /\ owed' = owed \cup {k}
      /\ gone' = gone \cup {k}
      /\ UNCHANGED <<stratVars, saved, flowVars, feedVars, histVars, slots, untold, doubt>>
  BY DEF RetryExecuted, Retried, CloseFails, Sendable
<1>2. k \in begun /\ k \in Held(slots) /\ k \in Ks /\ k \in owed
  BY TypedParts DEF IInv, Books
<1>3. begun' = begun /\ owed' = owed /\ gone' \subseteq Held(slots) /\ gone' \subseteq Ks
  BY <1>1, <1>2, TypedParts
<1>4. TypeOK'
  BY <1>1, <1>3 DEF IInv, TypeOK, stratVars, flowVars, feedVars, histVars
<1>5. Books'
  BY <1>1, <1>3 DEF IInv, Books, OneCampaignAtATime
<1>6. Placed'
  BY <1>1 DEF IInv, Placed, Acting, Enters, stratVars, flowVars
<1>7. Counted'
  BY <1>1 DEF IInv, Counted, Enters, OpenedOnce, Fresh, stratVars, flowVars, histVars
<1> QED
  BY <1>1, <1>3, <1>4, <1>5, <1>6, <1>7 DEF IInv, stratVars, histVars

LEMMA SubmitFacts ==
  ASSUME IInv, pc \in Ran
  PROVE  /\ untold = {} /\ intents \in Seq(Intents) /\ slots \in [Ks -> Trades]
         /\ begun \in SUBSET Held(slots) /\ gone \in SUBSET Held(slots) /\ owed \in SUBSET begun
         /\ Sound(model, live, slots, {}, begun) /\ Sound(saved.model, saved.live, slots, {}, begun)
         /\ Occupied(model) => live.urgent = {}
         /\ Planned(intents, model, live, saved.model, saved.live, slots)
         /\ Entering(intents) => due
         /\ pc = "submit" /\ Entering(intents) => slots[intents[Len(intents)].k] = NoTrade
         /\ pc = "filled" =>
              intents # <<>> /\ Head(intents).kind = "entry" /\ slots[Head(intents).k] # NoTrade
<1>1. untold = {} /\ Acting
  BY DEF IInv, Placed, Ran
<1>2. Sound(model, live, slots, {}, begun) /\ Sound(saved.model, saved.live, slots, {}, begun)
  BY <1>1 DEF IInv
<1>3. owed \in SUBSET begun
  BY DEF IInv, Books
<1> QED
  BY <1>1, <1>2, <1>3, TypedParts DEF Acting, Enters, Entering

\* An intent has been dealt with, and no trade has been opened.
LEMMA SubmitKeeps ==
  ASSUME IInv, pc = "submit", NEW m, NEW l, model' = m, live' = l, intents' \in Seq(Intents),
         UNCHANGED <<mirror, gap, saved, pc, due, fresh, feedVars, kept, torn, raised, traded, untold>>,
         Sound(m, l, slots', {}, begun'), Sound(saved.model, saved.live, slots', {}, begun'),
         slots' \in [Ks -> Trades], Held(slots') \subseteq Held(slots),
         \A k \in Held(slots') : slots'[k] = slots[k],
         begun' \subseteq Held(slots'), gone' \subseteq Held(slots'), owed' \subseteq begun',
         doubt' \in BOOLEAN,
         Occupied(m) => l.urgent = {},
         Planned(intents', m, l, saved.model, saved.live, slots'),
         m.day = model.day, ~torn => Fresh(m, l, traded, Len(traded)),
         Entering(intents') =>
           Entering(intents) /\ intents'[Len(intents')] = intents[Len(intents)]
  PROVE  IInv'
<1>1. /\ untold = {}
      /\ Entering(intents) => due
      /\ Entering(intents) => slots[intents[Len(intents)].k] = NoTrade
  BY SubmitFacts DEF Ran
<1>2. m \in Machines /\ l \in Adapters /\ Held(slots') \subseteq Ks
  BY IdleFields, TradeFacts
<1>3. TypeOK'
  BY <1>2 DEF IInv, TypeOK, feedVars
<1>4. Books'
  BY <1>1 DEF IInv, Books, OneCampaignAtATime
<1>5. Acting'
  <2>1. ASSUME Entering(intents')
        PROVE  due' /\ slots'[intents'[Len(intents')].k] = NoTrade
    <3> DEFINE i == intents[Len(intents)]
    <3>1. slots[i.k] = NoTrade /\ intents'[Len(intents')] = i /\ due
      BY <1>1, <2>1
    <3>2. i \in Intents
      <4>1. intents \in Seq(Intents) /\ intents # <<>>
        BY <2>1, TypedParts DEF Entering
      <4> QED
        BY <4>1
    <3> HIDE DEF i
    <3>3. i.k \in Ks
      BY <3>2 DEF Intents
    <3>4. i.k \notin Held(slots)
      BY <3>1 DEF Held
    <3>5. slots'[i.k] = NoTrade
      BY <3>3, <3>4 DEF Held
    <3> QED
      BY <3>1, <3>5
  <2> QED
    BY <2>1 DEF Acting, Enters, Entering
<1>6. Placed'
  BY <1>1, <1>5 DEF Placed, Ran
<1>7. Counted'
  <2>1. ASSUME ~torn, ~due \/ Enters'
        PROVE  kept = Len(traded)
    <3>1. Enters' => Enters
      BY DEF Enters, Entering
    <3> QED
      BY <2>1, <3>1 DEF IInv, Counted
  <2>2. ~torn => OpenedOnce /\ Fresh(saved.model, saved.live, traded, kept)
    BY DEF IInv, Counted
  <2>3. /\ kept <= Len(traded) /\ \A i \in DOMAIN traded : traded[i][1] <= saved.model.day
        /\ saved.model.day <= m.day
    BY DEF IInv, Counted
  <2> QED
    BY <2>1, <2>2, <2>3 DEF Counted, OpenedOnce
<1> QED
  BY <1>1, <1>3, <1>4, <1>6, <1>7 DEF IInv

LEMMA EmptyJoin ==
  ASSUME NEW q \in Seq(Intents)
  PROVE  q \o <<>> = q
OBVIOUS

\* What is left after the first of the intents, an exit.
LEMMA TailFacts ==
  ASSUME NEW q \in Seq(Intents), q # <<>>, Head(q).kind = "exit",
         NEW m, NEW l, NEW n, NEW f, NEW s, Planned(q, m, l, n, f, s)
  PROVE  /\ Tail(q) \in Seq(Intents) /\ Planned(Tail(q), m, l, n, f, s)
         /\ Entering(Tail(q)) => Entering(q) /\ Tail(q)[Len(Tail(q))] = q[Len(q)]
         /\ Head(q) \in Intents /\ Head(q).k \in Ks /\ Head(q).abort \in BOOLEAN
<1>1. Head(q) \in Intents
  OBVIOUS
<1>2. Head(q).k \in Ks /\ Head(q).abort \in BOOLEAN
  BY <1>1 DEF Intents
<1> QED
  BY <1>1, <1>2, PlannedTail DEF Entering

LEMMA ExitAcceptedKeeps ==
  ASSUME IInv, ExitAccepted
  PROVE  IInv'
<1> DEFINE i == Head(intents)
           k == Head(intents).k
           v == ExitReported(model, live, i)
           s2 == slots'
<1>1. /\ pc = "submit" /\ intents # <<>> /\ Head(intents).kind = "exit"
      /\ slots[k] # NoTrade /\ k \notin gone /\ s2 = [slots EXCEPT ![k] = NoTrade]
      /\ begun' = begun \ {k} /\ owed' = owed \ {k}
      /\ model' = v.model /\ live' = v.live /\ intents' = Tail(intents) \o v.out
      /\ UNCHANGED <<mirror, gap, saved, pc, due, fresh, feedVars, kept, torn, raised, traded, untold,
                     gone, doubt>>
  BY DEF ExitAccepted, NextIntent, CloseAccepted, Sendable, Reported, Land
<1>2. /\ untold = {} /\ intents \in Seq(Intents) /\ slots \in [Ks -> Trades]
      /\ begun \in SUBSET Held(slots) /\ gone \in SUBSET Held(slots) /\ owed \in SUBSET begun
      /\ Sound(model, live, slots, {}, begun) /\ Sound(saved.model, saved.live, slots, {}, begun)
      /\ Occupied(model) => live.urgent = {}
      /\ Planned(intents, model, live, saved.model, saved.live, slots)
  BY <1>1, SubmitFacts DEF Ran
<1>3. i.k = k /\ k \in Ks /\ i.abort \in BOOLEAN
  BY <1>1, <1>2, TailFacts
<1>4. k \in Held(slots)
  BY <1>1, <1>3 DEF Held
<1>5. /\ ExitWell(i, model, live, saved.model, saved.live, slots)
      /\ \A j \in DOMAIN intents : intents[j].kind # "entry"
  BY <1>1, <1>2, <1>4, NoEntries
<1>6. Frees(slots, s2, {k})
  BY <1>1, <1>2, <1>3, FreesOne
<1> HIDE DEF s2
<1>7. v = ExitReported(model, live, i)
  OBVIOUS
<1> HIDE DEF v, i
<1>8. /\ v.ok /\ v.out = <<>> /\ Sound(v.model, v.live, s2, {}, begun \ {i.k})
      /\ Shrinks(model, live, v.model, v.live) /\ ExitDone(model, live, v.model, v.live, i)
  <2> DEFINE n == saved.model
             f == saved.live
  <2>1. i.k \in Held(slots) /\ Frees(slots, s2, {i.k})
    BY <1>3, <1>4, <1>6
  <2>2. /\ slots \in [Ks -> Trades] /\ begun \in SUBSET Held(slots)
        /\ Sound(model, live, slots, {}, begun) /\ i.abort \in BOOLEAN
        /\ ExitWell(i, model, live, n, f, slots)
    BY <1>2, <1>3, <1>5
  <2> HIDE DEF n, f
  <2> QED
    BY <1>7, <2>1, <2>2, ExitReportedSound
<1>9. Sound(saved.model, saved.live, s2, {}, begun \ {k})
  <2>1. Leaving(saved.model, saved.live, slots, k)
    BY <1>3, <1>4, <1>5 DEF ExitWell
  <2> DEFINE u == {}
  <2>2. u \in SUBSET Ks /\ Sound(saved.model, saved.live, slots, u, begun)
    BY <1>2
  <2> HIDE DEF u
  <2>3. Sound(saved.model, saved.live, s2, u, begun \ {k})
    BY <1>2, <1>4, <1>6, <2>1, <2>2, CloseSound
  <2> QED
    BY <2>3 DEF u
<1>10. Planned(intents, v.model, v.live, saved.model, saved.live, s2)
  <2>1. Frees(slots, s2, {i.k})
    BY <1>3, <1>6
  <2> QED
    BY <1>2, <1>5, <1>8, <2>1, PlannedClosed
<1>11. /\ Tail(intents) \in Seq(Intents)
       /\ Planned(Tail(intents), v.model, v.live, saved.model, saved.live, s2)
       /\ Entering(Tail(intents)) =>
            Entering(intents) /\ Tail(intents)[Len(Tail(intents))] = intents[Len(intents)]
  BY <1>1, <1>2, <1>10, TailFacts
<1>12. intents' = Tail(intents)
  BY <1>1, <1>8, <1>11, EmptyJoin
<1>13. Occupied(v.model) => v.live.urgent = {}
  BY <1>2, <1>8 DEF ExitDone
<1>14. v.model.day = model.day /\ (~torn => Fresh(v.model, v.live, traded, Len(traded)))
  <2>1. Len(traded) \in Nat /\ \A j \in 1 .. Len(traded) : traded[j][2] \in Ks
    BY TypedParts, TradedFacts
  <2>2. ~torn => Fresh(model, live, traded, Len(traded))
    BY <1>1 DEF IInv, Counted
  <2>3. ~torn => Fresh(v.model, v.live, traded, Len(traded))
    BY <1>8, <2>1, <2>2, ShrinkFresh
  <2> QED
    BY <1>8, <2>3 DEF Shrinks
<1>15. /\ s2 \in [Ks -> Trades] /\ Held(s2) = Held(slots) \ {k} /\ \A j \in Held(s2) : s2[j] = slots[j]
  BY <1>6 DEF Frees
<1>16. begun' \subseteq Held(s2) /\ gone' \subseteq Held(s2) /\ owed' \subseteq begun'
  BY <1>1, <1>2, <1>15
<1>17. doubt' \in BOOLEAN
  BY <1>1 DEF IInv, TypeOK
<1>18. /\ Sound(v.model, v.live, slots', {}, begun')
       /\ Sound(saved.model, saved.live, slots', {}, begun')
  BY <1>1, <1>3, <1>8, <1>9 DEF s2
<1>19. /\ slots' \in [Ks -> Trades] /\ Held(slots') \subseteq Held(slots)
       /\ \A j \in Held(slots') : slots'[j] = slots[j]
       /\ begun' \subseteq Held(slots') /\ gone' \subseteq Held(slots')
       /\ Planned(intents', v.model, v.live, saved.model, saved.live, slots')
  BY <1>11, <1>12, <1>15, <1>16 DEF s2
<1>20. /\ intents' \in Seq(Intents)
       /\ Entering(intents') =>
            Entering(intents) /\ intents'[Len(intents')] = intents[Len(intents)]
  BY <1>11, <1>12
<1> HIDE DEF k
<1> QED
  BY <1>1, <1>13, <1>14, <1>16, <1>17, <1>18, <1>19, <1>20, SubmitKeeps

\* Nothing to close, or the close is already with the venue.
LEMMA ExitIdleKeeps ==
  ASSUME IInv, ExitIdle
  PROVE  IInv'
<1>1. /\ pc = "submit" /\ intents # <<>> /\ Head(intents).kind = "exit"
      /\ UNCHANGED <<slots, begun, untold, gone, owed, doubt>>
      /\ model' = model /\ live' = live /\ intents' = Tail(intents) \o <<>>
      /\ UNCHANGED <<mirror, gap, saved, pc, due, fresh, feedVars, kept, torn, raised, traded>>
  BY QuietFields DEF ExitIdle, NextIntent, NoClose, Reported, Land, execVars
<1>2. /\ untold = {} /\ intents \in Seq(Intents) /\ slots \in [Ks -> Trades]
      /\ begun \in SUBSET Held(slots) /\ gone \in SUBSET Held(slots) /\ owed \in SUBSET begun
      /\ Sound(model, live, slots, {}, begun) /\ Sound(saved.model, saved.live, slots, {}, begun)
      /\ Occupied(model) => live.urgent = {}
      /\ Planned(intents, model, live, saved.model, saved.live, slots)
  BY <1>1, SubmitFacts DEF Ran
<1>3. /\ Tail(intents) \in Seq(Intents)
      /\ Planned(Tail(intents), model, live, saved.model, saved.live, slots)
      /\ Entering(Tail(intents)) =>
           Entering(intents) /\ Tail(intents)[Len(Tail(intents))] = intents[Len(intents)]
  BY <1>1, <1>2, TailFacts
<1>4. intents' = Tail(intents)
  BY <1>1, <1>3, EmptyJoin
<1>5. ~torn => Fresh(model, live, traded, Len(traded))
  BY <1>1 DEF IInv, Counted
<1>6. doubt' \in BOOLEAN
  BY <1>1 DEF IInv, TypeOK
<1>7. /\ intents' \in Seq(Intents)
      /\ Planned(intents', model, live, saved.model, saved.live, slots')
      /\ Entering(intents') =>
           Entering(intents) /\ intents'[Len(intents')] = intents[Len(intents)]
  BY <1>1, <1>3, <1>4
<1>8. /\ Sound(model, live, slots', {}, begun') /\ Sound(saved.model, saved.live, slots', {}, begun')
      /\ slots' \in [Ks -> Trades] /\ Held(slots') \subseteq Held(slots)
      /\ \A j \in Held(slots') : slots'[j] = slots[j]
      /\ begun' \subseteq Held(slots') /\ gone' \subseteq Held(slots') /\ owed' \subseteq begun'
  BY <1>1, <1>2
<1>9. model.day = model.day
  OBVIOUS
<1> QED
  BY <1>1, <1>2, <1>5, <1>6, <1>7, <1>8, <1>9, SubmitKeeps

LEMMA BeginSound ==
  ASSUME NEW m, NEW l, NEW s, NEW u, NEW b, Sound(m, l, s, u, b), NEW k, Leaving(m, l, s, k)
  PROVE  Sound(m, l, s, u, b \cup {k})
<1>1. \A j \in b \cup {k} : Leaving(m, l, s, j)
  BY DEF Sound
<1> QED
  BY <1>1 DEF Sound

\* The close has no answer, or is refused.
LEMMA ExitFailsKeeps ==
  ASSUME IInv, NEW x \in BOOLEAN, ExitFails(x)
  PROVE  IInv'
<1> DEFINE k == Head(intents).k
<1>1. /\ pc = "submit" /\ intents # <<>> /\ Head(intents).kind = "exit"
      /\ slots[k] # NoTrade /\ begun' = begun \cup {k} /\ owed' = owed \cup {k}
      /\ gone' = IF x THEN gone \cup {k} ELSE gone
      /\ UNCHANGED <<slots, untold, doubt>>
      /\ model' = model /\ live' = live /\ intents' = Tail(intents) \o <<>>
      /\ UNCHANGED <<mirror, gap, saved, pc, due, fresh, feedVars, kept, torn, raised, traded>>
  BY QuietFields DEF ExitFails, NextIntent, CloseFails, Sendable, Reported, Land
<1>2. /\ untold = {} /\ intents \in Seq(Intents) /\ slots \in [Ks -> Trades]
      /\ begun \in SUBSET Held(slots) /\ gone \in SUBSET Held(slots) /\ owed \in SUBSET begun
      /\ Sound(model, live, slots, {}, begun) /\ Sound(saved.model, saved.live, slots, {}, begun)
      /\ Occupied(model) => live.urgent = {}
      /\ Planned(intents, model, live, saved.model, saved.live, slots)
  BY <1>1, SubmitFacts DEF Ran
<1>3. /\ Tail(intents) \in Seq(Intents)
      /\ Planned(Tail(intents), model, live, saved.model, saved.live, slots)
      /\ Entering(Tail(intents)) =>
           Entering(intents) /\ Tail(intents)[Len(Tail(intents))] = intents[Len(intents)]
      /\ k \in Ks
  BY <1>1, <1>2, TailFacts
<1>4. k \in Held(slots)
  BY <1>1, <1>3 DEF Held
<1>5. ExitWell(Head(intents), model, live, saved.model, saved.live, slots)
  BY <1>1, <1>2, <1>4, NoEntries
<1>6. Leaving(saved.model, saved.live, slots, k) /\ Leaving(model, live, slots, k)
  BY <1>4, <1>5 DEF ExitWell, Leaving
<1>7. /\ Sound(model, live, slots, {}, begun \cup {k})
      /\ Sound(saved.model, saved.live, slots, {}, begun \cup {k})
  <2> DEFINE u == {}
  <2>1. Sound(model, live, slots, u, begun) /\ Sound(saved.model, saved.live, slots, u, begun)
    BY <1>2
  <2> HIDE DEF u, k
  <2>2. /\ Sound(model, live, slots, u, begun \cup {k})
        /\ Sound(saved.model, saved.live, slots, u, begun \cup {k})
    BY <1>6, <2>1, BeginSound
  <2> QED
    BY <2>2 DEF u
<1>8. intents' = Tail(intents)
  BY <1>1, <1>3, EmptyJoin
<1>9. ~torn => Fresh(model, live, traded, Len(traded))
  BY <1>1 DEF IInv, Counted
<1>10. doubt' \in BOOLEAN
  BY <1>1 DEF IInv, TypeOK
<1>11. /\ intents' \in Seq(Intents)
       /\ Planned(intents', model, live, saved.model, saved.live, slots')
       /\ Entering(intents') =>
            Entering(intents) /\ intents'[Len(intents')] = intents[Len(intents)]
  BY <1>1, <1>3, <1>8
<1>12. gone' \in SUBSET Held(slots)
  BY <1>1, <1>2, <1>4
<1> HIDE DEF k
<1>13. /\ Sound(model, live, slots', {}, begun') /\ Sound(saved.model, saved.live, slots', {}, begun')
       /\ slots' \in [Ks -> Trades] /\ Held(slots') \subseteq Held(slots)
       /\ \A j \in Held(slots') : slots'[j] = slots[j]
       /\ begun' \subseteq Held(slots') /\ gone' \subseteq Held(slots') /\ owed' \subseteq begun'
  BY <1>1, <1>2, <1>4, <1>7, <1>12
<1>14. model.day = model.day
  OBVIOUS
<1> QED
  BY <1>1, <1>2, <1>9, <1>10, <1>11, <1>13, <1>14, SubmitKeeps

\* An entry is the only intent that is left.
LEMMA LastIntent ==
  ASSUME NEW q \in Seq(Intents), q # <<>>, Head(q).kind = "entry",
         NEW m, NEW l, NEW n, NEW f, NEW s, Planned(q, m, l, n, f, s)
  PROVE  /\ Len(q) = 1 /\ DOMAIN q = {1} /\ q[1] = Head(q) /\ Head(q) \in Intents /\ Tail(q) = <<>>
         /\ EntryWell(Head(q), m, l, n, f) /\ Entering(q)
<1>1. q[1] = Head(q) /\ 1 \in DOMAIN q /\ Head(q) \in Intents /\ DOMAIN q = 1 .. Len(q)
  OBVIOUS
<1>2. 1 = Len(q) /\ EntryWell(q[1], m, l, n, f)
  BY <1>1 DEF Planned
<1>3. Tail(q) = <<>>
  <2> DEFINE r == Tail(q)
  <2>1. r \in Seq(Intents) /\ Len(r) = 0
    BY <1>2
  <2> HIDE DEF r
  <2>2. r = <<>>
    BY <2>1
  <2> QED
    BY <2>2 DEF r
<1> QED
  BY <1>1, <1>2, <1>3 DEF Entering

\* An entry that is refused, or whose answer is lost.
LEMMA EntryNotFilledKeeps ==
  ASSUME IInv, NEW unclear \in BOOLEAN, EntryNotFilled(unclear)
  PROVE  IInv'
<1> DEFINE i == Head(intents)
           v == Undone(model, live, i.k, i.id)
<1>1. pc = "submit" /\ intents # <<>> /\ i.kind = "entry"
  BY DEF EntryNotFilled, NextIntent
<1>2. /\ untold = {} /\ intents \in Seq(Intents) /\ slots \in [Ks -> Trades]
      /\ begun \in SUBSET Held(slots) /\ gone \in SUBSET Held(slots) /\ owed \in SUBSET begun
      /\ Sound(model, live, slots, {}, begun) /\ Sound(saved.model, saved.live, slots, {}, begun)
      /\ Occupied(model) => live.urgent = {}
      /\ Planned(intents, model, live, saved.model, saved.live, slots)
      /\ Entering(intents) => slots[intents[Len(intents)].k] = NoTrade
  BY <1>1, SubmitFacts DEF Ran
<1>3. /\ Len(intents) = 1 /\ i \in Intents /\ intents[1] = i /\ Tail(intents) = <<>>
      /\ EntryWell(i, model, live, saved.model, saved.live) /\ Entering(intents)
  BY <1>1, <1>2, LastIntent
<1>4. EntryWell(i, model, live, model, live)
  BY <1>3 DEF EntryWell
<1>5. i.k \notin Held(slots)
  BY <1>2, <1>3 DEF Held
<1>6. v = Undone(model, live, i.k, i.id)
  OBVIOUS
<1> HIDE DEF v
<1>7. /\ v.ok /\ Sound(v.model, v.live, slots, {}, begun) /\ Shrinks(model, live, v.model, v.live)
      /\ NoPapers(v.model) /\ v.live.urgent = live.urgent /\ v.out = <<>>
  <2> HIDE DEF i
  <2> QED
    BY <1>1, <1>2, <1>3, <1>4, <1>5, <1>6, UndoneSound
<1>8. /\ doubt' = (doubt \/ unclear) /\ model' = v.model /\ live' = v.live
      /\ intents' = Tail(intents) \o v.out
      /\ UNCHANGED <<mirror, gap, saved, pc, due, fresh, feedVars, kept, torn, raised, slots, begun,
                     untold, gone, owed, traded>>
  BY <1>7 DEF EntryNotFilled, Unless, Reported, Land, v
<1>9. intents' = <<>>
  BY <1>3, <1>7, <1>8
<1>10. /\ Planned(<<>>, v.model, v.live, saved.model, saved.live, slots)
       /\ <<>> \in Seq(Intents) /\ ~Entering(<<>>)
  <2> DEFINE n == saved.model
             f == saved.live
  <2> HIDE DEF n, f
  <2>1. Planned(<<>>, v.model, v.live, n, f, slots) /\ <<>> \in Seq(Intents) /\ ~Entering(<<>>)
    BY <1>7, PlannedNothing
  <2> QED
    BY <2>1 DEF n, f
<1>11. Occupied(v.model) => v.live.urgent = {}
  BY <1>2, <1>7 DEF Shrinks
<1>12. v.model.day = model.day /\ (~torn => Fresh(v.model, v.live, traded, Len(traded)))
  <2>1. Len(traded) \in Nat /\ \A j \in 1 .. Len(traded) : traded[j][2] \in Ks
    BY TypedParts, TradedFacts
  <2>2. ~torn => Fresh(model, live, traded, Len(traded))
    BY <1>1 DEF IInv, Counted
  <2>3. ~torn => Fresh(v.model, v.live, traded, Len(traded))
    BY <1>7, <2>1, <2>2, ShrinkFresh
  <2> QED
    BY <1>7, <2>3 DEF Shrinks
<1>13. doubt' \in BOOLEAN
  <2>1. doubt \in BOOLEAN
    BY DEF IInv, TypeOK
  <2> QED
    BY <1>8, <2>1
<1>14. /\ intents' \in Seq(Intents) /\ ~Entering(intents')
       /\ Planned(intents', v.model, v.live, saved.model, saved.live, slots')
  BY <1>8, <1>9, <1>10
<1>15. /\ Sound(v.model, v.live, slots', {}, begun')
       /\ Sound(saved.model, saved.live, slots', {}, begun')
       /\ slots' \in [Ks -> Trades] /\ Held(slots') \subseteq Held(slots)
       /\ \A j \in Held(slots') : slots'[j] = slots[j]
       /\ begun' \subseteq Held(slots') /\ gone' \subseteq Held(slots') /\ owed' \subseteq begun'
  BY <1>2, <1>7, <1>8
<1> HIDE DEF i
<1> QED
  BY <1>1, <1>8, <1>11, <1>12, <1>13, <1>14, <1>15, SubmitKeeps

Distinct(T) == \A i, j \in DOMAIN T : T[i] = T[j] => i = j

\* The trade of an undecided unit of campaign c is none that has been opened.
LEMMA FreshOpens ==
  ASSUME NEW m, NEW l, NEW T \in Seq(Nat \X Ks), Fresh(m, l, T, Len(T)), Occupied(m),
         NEW k, k \in DOMAIN m.campaign.units, m.campaign.units[k].origin = "paper",
         Distinct(T),
         NEW c \in Nat \X Ks, c[1] = m.campaign.id, c[2] = k,
         NEW U, U = Append(T, c)
  PROVE  Distinct(U)
<1>1. /\ Len(T) \in Nat /\ DOMAIN T = 1 .. Len(T) /\ DOMAIN U = 1 .. Len(T) + 1
      /\ \A i \in DOMAIN T : U[i] = T[i]
      /\ U[Len(T) + 1] = c
  OBVIOUS
<1>2. \A i \in DOMAIN T : T[i] # c
  <2> SUFFICES ASSUME NEW i \in DOMAIN T, T[i] = c PROVE FALSE
    OBVIOUS
  <2>1. T[i][1] = m.campaign.id /\ T[i][2] = k
    OBVIOUS
  <2> QED
    BY <1>1, <2>1 DEF Fresh
<1>3. \A i \in DOMAIN U : i \in DOMAIN T \/ i = Len(T) + 1
  BY <1>1
<1>4. ASSUME NEW i \in DOMAIN U, NEW j \in DOMAIN U, U[i] = U[j]
      PROVE  i = j
  <2>1. CASE i \in DOMAIN T /\ j \in DOMAIN T
    BY <1>1, <1>4, <2>1 DEF Distinct
  <2>2. CASE i = Len(T) + 1 /\ j \in DOMAIN T
    BY <1>1, <1>2, <1>4, <2>2
  <2>3. CASE i \in DOMAIN T /\ j = Len(T) + 1
    BY <1>1, <1>2, <1>4, <2>3
  <2>4. CASE i = Len(T) + 1 /\ j = Len(T) + 1
    BY <2>4
  <2> QED
    BY <1>3, <2>1, <2>2, <2>3, <2>4
<1> QED
  BY <1>4 DEF Distinct

LEMMA FreshAppends ==
  ASSUME NEW m, NEW l, NEW T \in Seq(Nat \X Ks), NEW n \in Nat, n <= Len(T), Fresh(m, l, T, n),
         NEW c, NEW U, U = Append(T, c)
  PROVE  Fresh(m, l, U, n)
<1>1. \A i \in 1 .. n : U[i] = T[i]
  OBVIOUS
<1> QED
  BY <1>1 DEF Fresh

\* A trade is opened: it is no trade that has been opened before.
LEMMA OpenedKeeps ==
  ASSUME IInv, pc = "submit", intents # <<>>, NEW i, i = Head(intents), i.kind = "entry",
         slots[i.k] = NoTrade, NEW t, t.id = i.id, t.side = i.side,
         t \in [id : Nat, side : Sides, far : BOOLEAN], Fills(slots, slots', i.k, t),
         NEW c, c = <<i.id, i.k>>, traded' = Append(traded, c), pc' = "filled",
         UNCHANGED <<stratVars, saved, begun, untold, gone, owed, doubt, intents, due, fresh,
                     feedVars, kept, torn, raised>>
  PROVE  IInv'
<1> DEFINE k == i.k
           s2 == slots'
           T == traded'
<1>1. /\ pc = "submit" /\ intents # <<>> /\ i.kind = "entry" /\ slots[k] = NoTrade
      /\ Fills(slots, s2, k, t) /\ T = Append(traded, c) /\ pc' = "filled"
      /\ UNCHANGED <<stratVars, saved, begun, untold, gone, owed, doubt, intents, due, fresh,
                     feedVars, kept, torn, raised>>
  OBVIOUS
<1>2. /\ untold = {} /\ intents \in Seq(Intents) /\ slots \in [Ks -> Trades]
      /\ begun \in SUBSET Held(slots) /\ gone \in SUBSET Held(slots) /\ owed \in SUBSET begun
      /\ Sound(model, live, slots, {}, begun) /\ Sound(saved.model, saved.live, slots, {}, begun)
      /\ Occupied(model) => live.urgent = {}
      /\ Planned(intents, model, live, saved.model, saved.live, slots)
      /\ Entering(intents) => due
  BY <1>1, SubmitFacts DEF Ran
<1>3. /\ Len(intents) = 1 /\ DOMAIN intents = {1} /\ i \in Intents /\ intents[1] = i
      /\ EntryWell(i, model, live, saved.model, saved.live) /\ Entering(intents)
  BY <1>1, <1>2, LastIntent
<1>4. /\ k \in Ks /\ HasUnit(model, k) /\ model.campaign.units[k].origin = "paper"
      /\ i.id = model.campaign.id /\ i.side = model.campaign.side
      /\ saved.model = model /\ saved.live = live
  <2>1. k \in Ks
    BY <1>3 DEF Intents
  <2> QED
    BY <1>3, <2>1 DEF EntryWell
<1>5. Occupied(model) /\ k \in DOMAIN model.campaign.units /\ model.campaign.id \in Nat /\ model.campaign.side \in Sides
      /\ model.campaign.id <= model.day
  <2>1. Occupied(model) /\ k \in DOMAIN model.campaign.units
    BY <1>4 DEF HasUnit
  <2>2. model.campaign \in Campaigns /\ model.campaign.id <= model.day
    BY <1>2, <2>1, MachineFacts DEF Sound, Rested
  <2> QED
    BY <2>1, <2>2, CampaignFacts
<1>6. c[1] = model.campaign.id /\ c[2] = k /\ c \in Nat \X Ks
  BY <1>4, <1>5
<1> HIDE DEF k, s2, T
<1>7. /\ s2 \in [Ks -> Trades] /\ Held(s2) = Held(slots) \cup {k}
      /\ \A j \in Held(s2) : s2[j].id = model.campaign.id
      /\ s2[k] # NoTrade
      /\ Sound(model, live, s2, {}, begun)
  <2> DEFINE u == {}
  <2>1. u \in SUBSET Ks /\ Sound(model, live, slots, u, begun)
    BY <1>2
  <2>2. t \in Trades /\ t # NoTrade
    <3>1. t.id \in Nat
      BY <1>4, <1>5
    <3>2. t.id # NoTrade.id
      BY <3>1 DEF NoTrade
    <3> QED
      BY <3>2 DEF Trades
  <2> HIDE DEF u
  <2>3. /\ s2 \in [Ks -> Trades] /\ Held(s2) = Held(slots) \cup {k}
        /\ \A j \in Held(s2) : s2[j].id = model.campaign.id
        /\ s2[k] # NoTrade
        /\ Sound(model, live, s2, u, begun)
    <3>1. slots[k] = NoTrade /\ slots \in [Ks -> Trades] /\ begun \in SUBSET Held(slots)
      BY <1>1, <1>2
    <3>2. t.id = model.campaign.id /\ t.side = model.campaign.side /\ Fills(slots, s2, k, t)
      BY <1>1, <1>4
    <3>3. k \in Ks /\ HasUnit(model, k) /\ model.campaign.units[k].origin = "paper"
      BY <1>4
    <3>4. Filled(model, live, slots, u, begun, k, s2)
      BY <2>1, <2>2, <3>1, <3>2, <3>3, FillSound
    <3> QED
      BY <3>4 DEF Filled
  <2> QED
    BY <2>3 DEF u
<1>8. /\ Len(traded) \in Nat /\ DOMAIN traded = 1 .. Len(traded) /\ traded \in Seq(Nat \X Ks)
      /\ T \in Seq(Nat \X Ks) /\ Len(T) = Len(traded) + 1 /\ T[Len(traded) + 1] = c
      /\ DOMAIN T = 1 .. Len(T) /\ \A j \in DOMAIN traded : T[j] = traded[j]
      /\ kept \in Nat /\ model.day \in Nat
  <2>1. traded \in Seq(Nat \X Ks) /\ kept \in Nat /\ model.day \in Nat
    BY TypedParts
  <2> QED
    BY <1>1, <1>6, <2>1
<1>9. TypeOK'
  <2>1. pc' \in Stages
    BY <1>1 DEF Stages
  <2> QED
    BY <1>1, <1>7, <1>8, <2>1 DEF IInv, TypeOK, stratVars, feedVars, s2, T
<1>10. Books'
  <2>1. /\ untold' \cap Held(s2) = {} /\ begun' \subseteq Held(s2) /\ gone' \subseteq Held(s2)
        /\ owed' \subseteq begun'
    BY <1>1, <1>2, <1>7
  <2>2. \A j, h \in Held(s2) : s2[j].id = s2[h].id
    BY <1>7
  <2> QED
    BY <2>1, <2>2 DEF Books, OneCampaignAtATime, s2
<1>11. Planned(intents, model, live, saved.model, saved.live, s2)
  <2>1. \A j \in DOMAIN intents : intents[j].kind # "exit"
    BY <1>1, <1>3
  <2> QED
    BY <1>2, <2>1 DEF Planned
<1>12. Acting'
  <2>1. Head(intents').kind = "entry" /\ slots'[Head(intents').k] # NoTrade /\ intents' # <<>>
    BY <1>1, <1>7 DEF s2, k
  <2>2. Planned(intents', model', live', saved'.model, saved'.live, slots')
    BY <1>1, <1>11 DEF s2, stratVars
  <2>3. due' /\ (Occupied(model') => live'.urgent = {})
    BY <1>1, <1>2, <1>3 DEF stratVars
  <2> QED
    BY <1>1, <2>1, <2>2, <2>3 DEF Acting
<1>13. Placed'
  BY <1>1, <1>2, <1>12 DEF Placed, Ran
<1>14. Counted'
  <2>1. \A j \in DOMAIN T : T[j][1] <= model.day
    <3>1. \A j \in DOMAIN traded : traded[j][1] <= model.day
      BY <1>4 DEF IInv, Counted
    <3>2. c[1] <= model.day
      BY <1>5, <1>6
    <3>3. \A j \in DOMAIN T : j \in DOMAIN traded \/ j = Len(traded) + 1
      BY <1>8
    <3> QED
      BY <1>8, <3>1, <3>2, <3>3
  <2>2. saved'.model = model /\ model' = model /\ model.day <= model.day /\ saved'.live = live
    BY <1>1, <1>4, <1>8 DEF stratVars
  <2>3. ASSUME ~torn
        PROVE  /\ kept = Len(traded)
               /\ Distinct(T)
               /\ Fresh(model, live, T, kept)
    <3>1. /\ kept = Len(traded) /\ OpenedOnce
          /\ Fresh(model, live, traded, Len(traded))
      <4>1. Enters
        BY <1>3 DEF Enters, Entering
      <4> QED
        BY <1>1, <2>3, <4>1 DEF IInv, Counted
    <3>2. Distinct(T)
      <4>1. Distinct(traded)
        BY <3>1 DEF OpenedOnce, Distinct
      <4>2. /\ traded \in Seq(Nat \X Ks) /\ Fresh(model, live, traded, Len(traded))
            /\ T = Append(traded, c) /\ model.campaign.units[k].origin = "paper"
        BY <1>1, <1>4, <1>8, <3>1
      <4> QED
        BY <1>5, <1>6, <4>1, <4>2, FreshOpens
    <3>3. Fresh(model, live, T, Len(traded))
      <4> DEFINE n == Len(traded)
      <4>1. n \in Nat /\ n <= Len(traded) /\ Fresh(model, live, traded, n)
        BY <1>8, <3>1
      <4> HIDE DEF n
      <4>2. Fresh(model, live, T, n)
        BY <1>1, <1>8, <4>1, FreshAppends
      <4> QED
        BY <4>2 DEF n
    <3> QED
      BY <3>1, <3>2, <3>3
  <2>4. kept' = kept /\ kept <= Len(T) /\ torn' = torn
    <3>1. kept <= Len(traded)
      BY DEF IInv, Counted
    <3> QED
      BY <1>1, <1>8, <3>1
  <2>5. <<Head(intents').id, Head(intents').k>> = c
    BY <1>1
  <2>6. traded' = T
    BY DEF T
  <2>7. ~torn' => OpenedOnce'
    BY <2>3, <2>4, <2>6 DEF OpenedOnce, Distinct
  <2>8. ASSUME ~torn'
        PROVE  /\ Len(T) = kept' + 1 /\ T[Len(T)] = c
               /\ Fresh(saved'.model, saved'.live, T, kept')
    BY <1>8, <2>2, <2>3, <2>4, <2>8
  <2>9. /\ kept' <= Len(T) /\ \A j \in DOMAIN T : T[j][1] <= saved'.model.day
        /\ saved'.model.day <= model'.day
    BY <2>1, <2>2, <2>4
  <2>10. pc' = "filled"
    BY <1>1
  <2> HIDE DEF OpenedOnce
  <2> QED
    BY <2>5, <2>6, <2>7, <2>8, <2>9, <2>10 DEF Counted
<1>15. Sound(model', live', slots', untold', begun') /\ Sound(saved'.model, saved'.live, slots', untold', begun')
  BY <1>1, <1>2, <1>4, <1>7 DEF s2, stratVars
<1> QED
  BY <1>1, <1>9, <1>10, <1>13, <1>14, <1>15 DEF IInv

LEMMA EntryFillsKeeps ==
  ASSUME IInv, NEW far \in BOOLEAN, EntryFills(far)
  PROVE  IInv'
<1> DEFINE i == Head(intents)
           t == [id |-> i.id, side |-> i.side, far |-> far]
           c == <<i.id, i.k>>
<1>1. /\ pc = "submit" /\ intents # <<>> /\ i.kind = "entry" /\ slots[i.k] = NoTrade
      /\ slots' = [slots EXCEPT ![i.k] = t] /\ traded' = Append(traded, c) /\ pc' = "filled"
      /\ UNCHANGED <<stratVars, saved, begun, untold, gone, owed, doubt, intents, due, fresh,
                     feedVars, kept, torn, raised>>
  BY DEF EntryFills, NextIntent
<1>2. i \in Intents /\ slots \in [Ks -> Trades]
  <2>1. intents \in Seq(Intents) /\ slots \in [Ks -> Trades]
    BY TypedParts
  <2> QED
    BY <1>1, <2>1
<1> HIDE DEF i
<1>3. i.k \in Ks /\ i.id \in Nat /\ i.side \in Sides
  BY <1>1, <1>2 DEF Intents
<1>4. /\ t.id = i.id /\ t.side = i.side /\ t \in [id : Nat, side : Sides, far : BOOLEAN]
  BY <1>3
<1> HIDE DEF t
<1>5. t \in Trades
  BY <1>4 DEF Trades
<1>6. Fills(slots, slots', i.k, t)
  BY <1>1, <1>2, <1>3, <1>5 DEF Fills
<1>7. i = Head(intents) /\ c = <<i.id, i.k>>
  BY DEF i
<1> HIDE DEF c
<1> QED
  BY <1>1, <1>4, <1>6, <1>7, OpenedKeeps

\* The trade that is confirmed is no unit that may still be opened.
LEMMA FilledFresh ==
  ASSUME NEW n, NEW f, NEW s \in [Ks -> Trades], NEW b, Sound(n, f, s, {}, b), Occupied(n),
         NoPapers(n), NEW k \in Held(s),
         NEW T \in Seq(Nat \X Ks), NEW j \in Nat, Len(T) = j + 1, Fresh(n, f, T, j), T[Len(T)][2] = k
  PROVE  Fresh(n, f, T, Len(T))
<1>1. /\ n \in Machines /\ n.campaign \in Campaigns /\ 0 \in DOMAIN n.campaign.units
      /\ n.campaign.origin \in Origins
  BY MachineFacts, CampaignFacts DEF Sound, Rested
<1>2. ~IsOf(n, "paper") /\ ~IsOf(n, "historical")
  <2>1. IsOf(n, "paper") => n.campaign.units[0].origin = "paper"
    BY <1>1 DEF IsOf, Sound, Rested
  <2> QED
    BY <1>1, <2>1 DEF NoPapers, Sound
<1>3. IsOf(n, "live")
  BY <1>1, <1>2 DEF IsOf, Origins
<1>4. k \in DOMAIN n.campaign.units /\ k < n.campaign.lifetime
  BY <1>3 DEF Sound, Rested
<1>5. n.campaign.units[k].origin = "live"
  <2>1. n.campaign.units[k] \in Units
    BY <1>1, <1>4, CampaignFacts
  <2>2. n.campaign.units[k].origin \in Origins
    BY <2>1 DEF Units
  <2>3. n.campaign.units[k].origin # "historical" /\ n.campaign.units[k].origin # "paper"
    BY <1>3, <1>4 DEF NoPapers, Sound, Rested, IsOf
  <2> QED
    BY <2>2, <2>3 DEF Origins
<1>6. f.reversal = NoReversal
  BY <1>2 DEF Sound, Waits
<1>7. \A i \in 1 .. Len(T) : i \in 1 .. j \/ i = Len(T)
  OBVIOUS
<1>8. ASSUME NEW i \in 1 .. Len(T), T[i][1] = n.campaign.id
      PROVE  /\ T[i][2] < n.campaign.lifetime
             /\ T[i][2] \in DOMAIN n.campaign.units => n.campaign.units[T[i][2]].origin = "live"
  <2>1. CASE i \in 1 .. j
    BY <1>8, <2>1 DEF Fresh
  <2>2. CASE i = Len(T)
    BY <1>4, <1>5, <2>2
  <2> QED
    BY <1>7, <2>1, <2>2
<1> QED
  BY <1>6, <1>8 DEF Fresh

\* A fill that is reported leaves a campaign.
LEMMA ReportedCampaign ==
  ASSUME NEW m \in Machines, NEW l, NEW i, i.k \in Ks, HasUnit(m, i.k), NEW far \in BOOLEAN,
         NEW v, v = EntryReported(m, l, i, far)
  PROVE  Occupied(v.model)
<1> DEFINE n == ConfirmOwnedFill(m, i.k, far)
<1>1. Occupied(n)
  BY ConfirmFacts
<1>2. v.model = n
  <2> HIDE DEF n
  <2>1. EntryReported(m, l, i, far).model = n
    BY DEF EntryReported, Verdict, n
  <2> QED
    BY <2>1
<1> QED
  BY <1>1, <1>2

LEMMA FillReportedKeeps ==
  ASSUME IInv, FillReported
  PROVE  IInv'
<1> DEFINE i == Head(intents)
           far == slots[i.k].far
           v == EntryReported(model, live, i, far)
<1>1. pc = "filled"
  BY DEF FillReported
<1>2. /\ untold = {} /\ intents \in Seq(Intents) /\ slots \in [Ks -> Trades]
      /\ begun \in SUBSET Held(slots) /\ gone \in SUBSET Held(slots) /\ owed \in SUBSET begun
      /\ Sound(model, live, slots, {}, begun) /\ Sound(saved.model, saved.live, slots, {}, begun)
      /\ Occupied(model) => live.urgent = {}
      /\ Planned(intents, model, live, saved.model, saved.live, slots)
      /\ Entering(intents) => due
      /\ intents # <<>> /\ i.kind = "entry" /\ slots[i.k] # NoTrade
  BY <1>1, SubmitFacts DEF Ran
<1>3. /\ Len(intents) = 1 /\ i \in Intents /\ intents[1] = i /\ Tail(intents) = <<>>
      /\ EntryWell(i, model, live, saved.model, saved.live) /\ Entering(intents)
  BY <1>2, LastIntent
<1>4. /\ EntryWell(i, model, live, model, live) /\ saved.model = model /\ saved.live = live
      /\ HasUnit(model, i.k) /\ i.k \in Ks
  BY <1>3 DEF EntryWell, Intents
<1>5. i.k \in Held(slots) /\ far \in BOOLEAN
  <2>1. i.k \in Held(slots)
    BY <1>2, <1>4 DEF Held
  <2> QED
    BY <1>2, <2>1, TradeFacts
<1>6. v = EntryReported(model, live, i, slots[i.k].far)
  OBVIOUS
<1> HIDE DEF v
<1>7. /\ v.ok /\ Sound(v.model, v.live, slots, {}, begun) /\ Shrinks(model, live, v.model, v.live)
      /\ NoPapers(v.model) /\ v.live.urgent = live.urgent
      /\ v.out \in Seq(Intents) /\ \A j \in DOMAIN v.out : v.out[j].kind # "entry"
      /\ Planned(v.out, v.model, v.live, model, live, slots)
  <2>1. /\ slots \in [Ks -> Trades] /\ begun \in SUBSET Held(slots)
        /\ Sound(model, live, slots, {}, begun)
        /\ i \in Intents /\ i.kind = "entry" /\ EntryWell(i, model, live, model, live)
        /\ i.k \in Held(slots)
    BY <1>2, <1>3, <1>4, <1>5
  <2> HIDE DEF i, far
  <2>2. Reports(model, live, slots, begun, v)
    BY <1>6, <2>1, FillReportedSound
  <2> QED
    BY <2>2 DEF Reports
<1>8. Occupied(v.model)
  <2>1. model \in Machines
    BY TypedParts
  <2> HIDE DEF i, far
  <2> QED
    BY <1>4, <1>5, <1>6, <2>1, ReportedCampaign DEF far
<1>9. /\ pc' = "submit" /\ model' = v.model /\ live' = v.live
      /\ intents' = Tail(intents) \o v.out
      /\ UNCHANGED <<mirror, gap, saved, execVars, due, fresh, feedVars, histVars>>
  BY <1>7 DEF FillReported, Unless, Land, v
<1>10. intents' = v.out /\ ~Entering(v.out)
  <2>1. ~Entering(v.out)
    BY <1>7 DEF Entering
  <2>2. <<>> \o v.out = v.out
    <3> DEFINE q == v.out
    <3>1. q \in Seq(Intents)
      BY <1>7
    <3> HIDE DEF q
    <3>2. <<>> \o q = q
      BY <3>1
    <3> QED
      BY <3>2 DEF q
  <2> QED
    BY <1>3, <1>9, <2>1, <2>2
<1>11. v.model \in Machines /\ v.live \in Adapters
  BY <1>7, IdleFields
<1>12. TypeOK'
  BY <1>7, <1>9, <1>10, <1>11 DEF IInv, TypeOK, Stages, execVars, feedVars, histVars
<1>13. Books'
  BY <1>9 DEF IInv, Books, OneCampaignAtATime, execVars
<1>14. Acting'
  <2>1. Planned(intents', model', live', saved'.model, saved'.live, slots')
    BY <1>4, <1>7, <1>9, <1>10 DEF execVars
  <2>2. Occupied(model') => live'.urgent = {}
    BY <1>2, <1>7, <1>9 DEF Shrinks
  <2>3. ~Enters'
    BY <1>10 DEF Enters, Entering
  <2> QED
    BY <1>9, <2>1, <2>2, <2>3 DEF Acting
<1>15. Placed'
  BY <1>2, <1>9, <1>14 DEF Placed, Ran, execVars
<1>16. Counted'
  <2>1. /\ traded \in Seq(Nat \X Ks) /\ kept \in Nat /\ Len(traded) \in Nat
        /\ \A j \in 1 .. kept : kept <= Len(traded) => traded[j][2] \in Ks
    <3>1. traded \in Seq(Nat \X Ks) /\ kept \in Nat
      BY TypedParts
    <3> QED
      BY <3>1, TradedFacts
  <2>2. /\ kept <= Len(traded) /\ \A j \in DOMAIN traded : traded[j][1] <= saved.model.day
        /\ saved.model.day <= model.day
    BY DEF IInv, Counted
  <2>3. v.model.day = model.day
    BY <1>7 DEF Shrinks
  <2>4. ASSUME ~torn
        PROVE  /\ OpenedOnce /\ Fresh(saved.model, saved.live, traded, kept)
               /\ Fresh(v.model, v.live, traded, Len(traded))
    <3>1. /\ OpenedOnce /\ Len(traded) = kept + 1 /\ traded[Len(traded)] = <<i.id, i.k>>
          /\ Fresh(saved.model, saved.live, traded, kept)
      BY <1>1, <2>4 DEF IInv, Counted
    <3>2. Fresh(v.model, v.live, traded, kept)
      <4>1. Fresh(model, live, traded, kept)
        BY <1>4, <3>1
      <4>2. \A j \in 1 .. kept : traded[j][2] \in Ks
        BY <2>1, <2>2
      <4> QED
        BY <1>7, <2>1, <4>1, <4>2, ShrinkFresh
    <3>3. traded[Len(traded)][2] = i.k
      BY <3>1
    <3>4. Fresh(v.model, v.live, traded, Len(traded))
      <4> HIDE DEF i
      <4> QED
        BY <1>2, <1>5, <1>7, <1>8, <2>1, <3>1, <3>2, <3>3, FilledFresh
    <3> QED
      BY <3>1, <3>4
  <2>5. due /\ ~Enters'
    BY <1>2, <1>3, <1>10 DEF Enters, Entering
  <2> QED
    BY <1>9, <2>2, <2>3, <2>4, <2>5 DEF Counted, OpenedOnce, histVars
<1> QED
  BY <1>2, <1>7, <1>9, <1>12, <1>13, <1>15, <1>16 DEF IInv, execVars, histVars

\* The end of the bar: the mirror is refreshed, and the snapshot saved when it is due.
LEMMA BarEndsKeeps ==
  ASSUME IInv, BarEnds
  PROVE  IInv'
<1> DEFINE h == Held(slots)
           v == Settled(model, live, h)
           f == [v.live EXCEPT !.urgent = {}]
<1>1. /\ pc = "submit" /\ intents = <<>> /\ pc' = "idle" /\ model' = v.model /\ live' = v.live
      /\ mirror' = Held(slots)
      /\ IF due THEN Save(v.model, v.live, gap) ELSE UNCHANGED <<saved, kept>>
      /\ due' = FALSE /\ Advance
      /\ UNCHANGED <<gap, execVars, intents, fresh, traded, torn, raised>>
  BY DEF BarEnds, Land
<1>2. /\ untold = {} /\ slots \in [Ks -> Trades] /\ begun \in SUBSET Held(slots)
      /\ Sound(model, live, slots, {}, begun) /\ Sound(saved.model, saved.live, slots, {}, begun)
      /\ Occupied(model) => live.urgent = {}
      /\ Planned(intents, model, live, saved.model, saved.live, slots)
  BY <1>1, SubmitFacts DEF Ran
<1>3. NoPapers(model)
  BY <1>1, <1>2 DEF Planned, NoPapers
<1>4. v = Settled(model, live, h) /\ h = Held(slots)
  OBVIOUS
<1> HIDE DEF v, h
<1>5. /\ Sound(v.model, v.live, slots, {}, begun) /\ Shrinks(model, live, v.model, v.live)
      /\ Between(v.model, v.live, h, h)
  BY <1>2, <1>3, <1>4, SettledBetween
<1>6. v.model \in Machines /\ v.live \in Adapters
  BY <1>5, IdleFields
<1>7. /\ f \in Adapters /\ f.urgent = {} /\ f.closing = v.live.closing
      /\ f.aborting = v.live.aborting /\ f.reversal = v.live.reversal
  BY <1>6, CalmFields
<1> HIDE DEF f
<1>8. Sound(v.model, f, slots, {}, begun)
  BY <1>5, <1>7, UrgentSound
<1>9. /\ Len(traded) \in Nat /\ \A j \in 1 .. Len(traded) : traded[j][2] \in Ks
      /\ v.model.day = model.day /\ v.model.day <= v.model.day
      /\ saved.model.day <= v.model.day /\ kept <= Len(traded)
      /\ \A j \in DOMAIN traded : traded[j][1] <= saved.model.day
      /\ \A j \in DOMAIN traded : traded[j][1] <= v.model.day
  <2>1. v.model.day = model.day /\ model.day \in Nat /\ saved.model.day \in Nat
    BY <1>5, TypedParts DEF Shrinks
  <2>2. /\ Len(traded) \in Nat /\ DOMAIN traded = 1 .. Len(traded)
        /\ \A j \in 1 .. Len(traded) : traded[j][1] \in Nat /\ traded[j][2] \in Ks
    BY TypedParts, TradedFacts
  <2>3. /\ \A j \in DOMAIN traded : traded[j][1] <= saved.model.day
        /\ saved.model.day <= model.day /\ kept <= Len(traded)
    BY DEF IInv, Counted
  <2> QED
    BY <2>1, <2>2, <2>3
<1>10. ASSUME ~torn
       PROVE  /\ OpenedOnce /\ Fresh(v.model, v.live, traded, Len(traded))
              /\ Fresh(v.model, f, traded, Len(traded))
              /\ Fresh(saved.model, saved.live, traded, kept)
              /\ ~due => kept = Len(traded)
  <2>1. /\ OpenedOnce /\ Fresh(model, live, traded, Len(traded))
        /\ Fresh(saved.model, saved.live, traded, kept)
        /\ ~due => kept = Len(traded)
    BY <1>1, <1>10 DEF IInv, Counted
  <2>2. Fresh(v.model, v.live, traded, Len(traded))
    BY <1>5, <1>9, <2>1, ShrinkFresh
  <2> QED
    BY <1>7, <2>1, <2>2 DEF Fresh
<1>11. /\ saved'.model \in Machines /\ saved'.live \in Adapters /\ saved'.gap \in BOOLEAN
       /\ kept' \in Nat
       /\ saved'.live.urgent = {} /\ Sound(saved'.model, saved'.live, slots, {}, begun)
       /\ saved'.model.day <= v.model.day /\ kept' <= Len(traded)
       /\ \A j \in DOMAIN traded : traded[j][1] <= saved'.model.day
       /\ ~torn => kept' = Len(traded) /\ Fresh(saved'.model, saved'.live, traded, kept')
  <2>1. CASE due
    <3>1. Save(v.model, v.live, gap)
      BY <1>1, <2>1
    <3>2. saved'.model = v.model /\ saved'.live = f /\ saved'.gap = gap /\ kept' = Len(traded)
      BY <3>1 DEF Save, Snapshot, f
    <3>3. gap \in BOOLEAN
      BY DEF IInv, TypeOK
    <3> QED
      BY <1>6, <1>7, <1>8, <1>9, <1>10, <3>2, <3>3
  <2>2. CASE ~due
    <3>1. UNCHANGED <<saved, kept>>
      BY <1>1, <2>2
    <3>2. /\ saved.model \in Machines /\ saved.live \in Adapters /\ saved.gap \in BOOLEAN
          /\ kept \in Nat /\ saved.live.urgent = {}
      BY DEF IInv, TypeOK
    <3> QED
      BY <1>2, <1>9, <1>10, <2>2, <3>1, <3>2
  <2> QED
    BY <2>1, <2>2
<1>12. TypeOK'
  <2>1. {day', tick', sinceDay', sinceTick'} \subseteq Nat
    BY <1>1, AdvanceTyped
  <2>2. /\ model' \in Machines /\ live' \in Adapters /\ mirror' \subseteq Ks /\ pc' \in Stages
        /\ due' \in BOOLEAN
    BY <1>1, <1>6, TypedParts DEF Stages
  <2> QED
    BY <1>1, <1>11, <2>1, <2>2 DEF IInv, TypeOK, execVars
<1>13. Books'
  BY <1>1 DEF IInv, Books, OneCampaignAtATime, execVars
<1>14. Placed'
  <2>1. Held(slots) \cup untold = Held(slots)
    BY <1>2
  <2> QED
    BY <1>1, <1>2, <1>4, <1>5, <2>1 DEF Placed, Ran, execVars
<1>15. Counted'
  BY <1>1, <1>9, <1>10, <1>11 DEF Counted, OpenedOnce
<1> QED
  BY <1>1, <1>2, <1>5, <1>11, <1>12, <1>13, <1>14, <1>15 DEF IInv, execVars

LEMMA ReachesSmall ==
  ASSUME NEW r \in Reaches
  PROVE  r \in {{}, {0}}
BY DEF Reaches

LEMMA ReplayStepKeeps ==
  ASSUME IInv, Replay
  PROVE  IInv'
<1>1. CASE \E r \in Reaches : ReplayMinute(r)
  <2> PICK r \in Reaches : ReplayMinute(r)
    BY <1>1
  <2> QED
    BY ReachesSmall, ReplayMinuteKeeps
<1>2. CASE \E e \in Evidences(model) : ReplayDaily(e)
  <2> PICK e \in Evidences(model) : ReplayDaily(e)
    BY <1>2
  <2>1. e \in Evidence
    BY DEF Evidences
  <2> QED
    BY <2>1, ReplayDailyKeeps
<1>3. CASE ReplayIncomplete
  BY <1>3, ReplayIncompleteKeeps
<1>4. CASE ReplaySeen
  BY <1>4, ReplaySeenKeeps
<1> QED
  BY <1>1, <1>2, <1>3, <1>4 DEF Replay

LEMMA VenueStepKeeps ==
  ASSUME IInv, Venue
  PROVE  IInv'
<1>1. CASE VenueUnclear \/ VenueAgrees
  BY <1>1, VenueKeeps
<1>2. CASE \E ks \in SUBSET gone : ClosureBooked(ks)
  BY <1>2, ClosureBookedKeeps
<1>3. CASE Deliver
  BY <1>3, DeliverKeeps
<1>4. CASE \E k \in owed : RetryAccepted(k) \/ RetryExecuted(k)
  BY <1>4, RetryAcceptedKeeps, RetryExecutedKeeps
<1>5. CASE RetryDone
  BY <1>5, RetryDoneKeeps
<1> QED
  BY <1>1, <1>2, <1>3, <1>4, <1>5 DEF Venue

LEMMA DecideStepKeeps ==
  ASSUME IInv, Decide
  PROVE  IInv'
<1>1. CASE \E r \in Reaches, hole \in BOOLEAN : DecideMinute(r, hole)
  <2> PICK r \in Reaches, hole \in BOOLEAN : DecideMinute(r, hole)
    BY <1>1
  <2> QED
    BY ReachesSmall, DecideMinuteKeeps
<1>2. CASE \E e \in Evidences(model) : DecideDaily(e)
  <2> PICK e \in Evidences(model) : DecideDaily(e)
    BY <1>2
  <2>1. e \in Evidence
    BY DEF Evidences
  <2> QED
    BY <2>1, DecideDailyKeeps
<1>3. CASE SkipDaily
  BY <1>3, SkipDailyKeeps
<1> QED
  BY <1>1, <1>2, <1>3 DEF Decide

LEMMA SubmitStepKeeps ==
  ASSUME IInv, Submit
  PROVE  IInv'
<1>1. CASE ExitAccepted
  BY <1>1, ExitAcceptedKeeps
<1>2. CASE ExitIdle
  BY <1>2, ExitIdleKeeps
<1>3. CASE \E x \in BOOLEAN : ExitFails(x)
  BY <1>3, ExitFailsKeeps
<1>4. CASE \E far \in BOOLEAN : EntryFills(far)
  BY <1>4, EntryFillsKeeps
<1>5. CASE FillReported
  BY <1>5, FillReportedKeeps
<1>6. CASE \E u \in BOOLEAN : EntryNotFilled(u)
  BY <1>6, EntryNotFilledKeeps
<1>7. CASE BarEnds
  BY <1>7, BarEndsKeeps
<1> QED
  BY <1>1, <1>2, <1>3, <1>4, <1>5, <1>6, <1>7 DEF Submit

\* Every step keeps the invariant.
LEMMA NextKeeps ==
  ASSUME IInv, [Next]_vars
  PROVE  IInv'
<1>1. CASE Restart
  BY <1>1, RestartKeeps
<1>2. CASE RestartRefused
  BY <1>2, RestartRefusedKeeps
<1>3. CASE Downtime
  BY <1>3, DowntimeKeeps
<1>4. CASE Crash
  BY <1>4, CrashKeeps
<1>5. CASE Replay
  BY <1>5, ReplayStepKeeps
<1>6. CASE BarArrives
  BY <1>6, BarArrivesKeeps
<1>7. CASE Venue
  BY <1>7, VenueStepKeeps
<1>8. CASE Decide
  BY <1>8, DecideStepKeeps
<1>9. CASE Submit
  BY <1>9, SubmitStepKeeps
<1>10. CASE \E k \in Ks : VenueCloses(k)
  BY <1>10, VenueClosesKeeps
<1>11. CASE UNCHANGED vars
  BY <1>11, StutterKeeps
<1> QED
  BY <1>1, <1>2, <1>3, <1>4, <1>5, <1>6, <1>7, <1>8, <1>9, <1>10, <1>11 DEF Next

-----------------------------------------------------------------------------

\* The inductive invariant holds in every reachable state.
THEOREM Invariance == Spec => []IInv
BY InitKeeps, NextKeeps, PTL DEF Spec

\* No method of the ladder raises, and its checks at startup (_validate_ladder,
\* on_startup) hold, whatever order bars, results, closes and restarts come in;
\* but for the redelivery of a close that a crash interrupted.
THEOREM NeverRaisesInAnyOrder == Spec => []NeverRaises
<1>1. IInv => NeverRaises
  BY DEF IInv, NeverRaises
<1> QED
  BY <1>1, Invariance, PTL

\* Between two bars a trade that the executor holds for the ladder is a funded unit of
\* the campaign or queued for closure (_closing_slots).
THEOREM EveryOwnedTradeIsManaged == Spec => []OwnedIsManaged
<1>1. ASSUME IInv PROVE OwnedIsManaged
  <2>1. SUFFICES ASSUME pc = "idle", NEW k \in Held(slots)
                 PROVE  k \in live.closing
                        \/ (HasUnit(model, k) /\ model.campaign.units[k].origin = "live")
    BY DEF OwnedIsManaged
  <2>2. mirror = Held(slots) /\ untold = {}
    BY <1>1, <2>1 DEF IInv, Placed
  <2>3. Between(model, live, Held(slots) \cup untold, mirror)
    BY <1>1, <2>1 DEF IInv, Placed, Ran
  <2>4. CASE ~Occupied(model)
    BY <2>1, <2>2, <2>3, <2>4 DEF Between
  <2>5. CASE Occupied(model)
    <3>1. model \in Machines
      BY <1>1, TypedParts
    <3>2. model.campaign \in Campaigns /\ model.campaign.origin \in Origins
      BY <2>5, <3>1, MachineFacts, CampaignFacts
    <3>3. ~IsOf(model, "paper") /\ ~IsOf(model, "historical")
      BY <2>1, <2>2, <2>3 DEF Between
    <3>4. IsOf(model, "live")
      BY <2>5, <3>2, <3>3 DEF IsOf, Origins
    <3>5. k \in DOMAIN model.campaign.units /\ model.campaign.units[k].origin = "live"
      BY <2>1, <2>2, <2>3, <3>4 DEF Between
    <3> QED
      BY <2>5, <3>5 DEF HasUnit
  <2> QED
    BY <2>4, <2>5
<1> QED
  BY <1>1, Invariance, PTL

\* The fields keep what persistent_state can restore, and the trades of two campaigns
\* are never held together: a reversal waits for the close of the whole old stack.
THEOREM TheLadderStaysWhole == Spec => []LadderIsWhole
<1>1. IInv => LadderIsWhole
  BY DEF IInv, Books, LadderIsWhole
<1> QED
  BY <1>1, Invariance, PTL

\* A slot of a campaign is opened at most once, unless a stop separates a fill from
\* the snapshot that knows of it.
THEOREM OpenedOnceUnlessTorn == Spec => []OpenedOnceIfKept
<1>1. IInv => OpenedOnceIfKept
  BY DEF IInv, Counted, OpenedOnceIfKept
<1> QED
  BY <1>1, Invariance, PTL

=============================================================================
