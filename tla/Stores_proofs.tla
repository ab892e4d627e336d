----------------------------- MODULE Stores_proofs -----------------------------
(***************************************************************************)
(* Proofs about the two stores that several processes write at a time: the *)
(* rows of simulated runs (PaperRuns) and the history of the shadow's book *)
(* (ShadowBook).                                                           *)
(*                                                                         *)
(* PaperRuns, for any number of processes, timeframes, sizes and bars:     *)
(* what the database holds of a run is what the run made, the fills it     *)
(* holds are the position that is believed, and the database implements    *)
(* RunRecord.                                                              *)
(*                                                                         *)
(* A run has two names for a row: its number in the table, which other     *)
(* processes move, and its number among the run's own.  The invariant says *)
(* that the two agree for every stored row and its link (Kept), that an    *)
(* in-memory run before its flush has stored nothing (Absent), and that    *)
(* the numbers in a process's hand denote the last signal and the last     *)
(* order (HandInv).  A step of one run only adds rows of its own (Extends) *)
(* at the end of the tables, which changes no other run's numbers.         *)
(***************************************************************************)
EXTENDS PaperRuns, ShadowBook, FiniteSetTheorems, SequenceTheorems, WellFoundedInduction, TLAPS

-----------------------------------------------------------------------------
(* Induction is by least counterexample.                                   *)

\* A set of natural numbers has a least one.
LEMMA LeastNat ==
  ASSUME NEW T, T \subseteq Nat, T # {}
  PROVE  \E x \in T : \A y \in T : x <= y
<1> DEFINE R == OpToRel(<, Nat)
<1>1. \E x \in T : \A y \in T : ~ (<<y, x>> \in R)
  BY NatLessThanWellFounded, WFMin
<1>2. ASSUME NEW x \in Nat, NEW y \in Nat, ~(<<y, x>> \in R)
      PROVE  x <= y
  <2>1. y < x <=> <<y, x>> \in R
    <3>1. R = {ss \in Nat \X Nat : ss[1] < ss[2]}
      BY DEF OpToRel
    <3>2. <<y, x>> \in Nat \X Nat /\ <<y, x>>[1] = y /\ <<y, x>>[2] = x
      OBVIOUS
    <3> QED
      BY <3>1, <3>2
  <2> HIDE DEF R
  <2> QED
    BY <1>2, <2>1
<1> QED
  BY <1>1, <1>2

-----------------------------------------------------------------------------
(* A run's rows among those of a table.                                    *)

LEMMA RankType ==
  ASSUME NEW rows, NEW r, NEW n \in Nat
  PROVE  Rank(rows, r, n) \in Nat /\ Rank(rows, r, n) <= n
<1> DEFINE S == {j \in 1 .. n : rows[j].run = r}
<1>1. IsFiniteSet(1 .. n) /\ Cardinality(1 .. n) = n
  BY FS_Interval
<1>2. S \subseteq 1 .. n
  OBVIOUS
<1>3. IsFiniteSet(S) /\ Cardinality(S) <= n
  BY <1>1, <1>2, FS_Subset
<1>4. Cardinality(S) \in Nat
  BY <1>3, FS_CardinalityType
<1> QED
  BY <1>3, <1>4 DEF Rank

LEMMA RankNone ==
  ASSUME NEW rows, NEW r
  PROVE  Rank(rows, r, 0) = 0
<1>1. Rank(rows, r, 0) \in Nat /\ Rank(rows, r, 0) <= 0
  BY RankType
<1> QED
  BY <1>1

LEMMA RankNext ==
  ASSUME NEW rows, NEW r, NEW n \in Nat
  PROVE  Rank(rows, r, n + 1) = Rank(rows, r, n) + (IF rows[n + 1].run = r THEN 1 ELSE 0)
<1> DEFINE S == {j \in 1 .. n : rows[j].run = r}
           T == {j \in 1 .. n + 1 : rows[j].run = r}
<1>1. IsFiniteSet(S)
  <2>1. IsFiniteSet(1 .. n)
    BY FS_Interval
  <2> QED
    BY <2>1, FS_Subset
<1>2. 1 .. n + 1 = (1 .. n) \cup {n + 1} /\ n + 1 \notin 1 .. n
  OBVIOUS
<1>3. CASE rows[n + 1].run = r
  <2>1. T = S \cup {n + 1} /\ n + 1 \notin S
    BY <1>2, <1>3
  <2> HIDE DEF S, T
  <2>2. Cardinality(T) = Cardinality(S) + 1
    BY <1>1, <2>1, FS_AddElement
  <2> QED
    BY <1>3, <2>2 DEF Rank, S, T
<1>4. CASE rows[n + 1].run # r
  <2>1. T = S
    BY <1>2, <1>4
  <2>2. Rank(rows, r, n) = Cardinality(S) /\ Rank(rows, r, n + 1) = Cardinality(T)
    BY DEF Rank
  <2>3. Rank(rows, r, n) \in Nat
    BY RankType
  <2> HIDE DEF S, T
  <2> QED
    BY <1>4, <2>1, <2>2, <2>3
<1> QED
  BY <1>3, <1>4

LEMMA RankAgrees ==
  ASSUME NEW rows, NEW more, NEW r, NEW n, \A j \in 1 .. n : more[j] = rows[j]
  PROVE  Rank(more, r, n) = Rank(rows, r, n)
<1>1. {j \in 1 .. n : more[j].run = r} = {j \in 1 .. n : rows[j].run = r}
  OBVIOUS
<1> QED
  BY <1>1 DEF Rank

LEMMA RankMonotone ==
  ASSUME NEW rows, NEW r, NEW m \in Nat, NEW n \in Nat, m <= n
  PROVE  Rank(rows, r, m) <= Rank(rows, r, n)
<1> DEFINE S == {j \in 1 .. m : rows[j].run = r}
           T == {j \in 1 .. n : rows[j].run = r}
<1>1. S \subseteq T
  OBVIOUS
<1>2. IsFiniteSet(T)
  <2>1. IsFiniteSet(1 .. n)
    BY FS_Interval
  <2> QED
    BY <2>1, FS_Subset
<1>3. Cardinality(S) <= Cardinality(T)
  BY <1>1, <1>2, FS_Subset
<1> QED
  BY <1>3 DEF Rank

LEMMA RankLess ==
  ASSUME NEW rows, NEW r, NEW m \in Nat, NEW n \in Nat, m < n, rows[n].run = r
  PROVE  Rank(rows, r, m) < Rank(rows, r, n)
<1>1. n - 1 \in Nat /\ m <= n - 1 /\ n = (n - 1) + 1
  OBVIOUS
<1>2. Rank(rows, r, n) = Rank(rows, r, n - 1) + 1
  BY <1>1, RankNext
<1>3. Rank(rows, r, m) <= Rank(rows, r, n - 1)
  BY <1>1, RankMonotone
<1>4. Rank(rows, r, m) \in Nat /\ Rank(rows, r, n - 1) \in Nat
  BY <1>1, RankType
<1> QED
  BY <1>2, <1>3, <1>4

LEMMA RankReaches ==
  ASSUME NEW rows, NEW r, NEW n \in Nat, NEW k \in 1 .. Rank(rows, r, n)
  PROVE  \E i \in 1 .. n : rows[i].run = r /\ Rank(rows, r, i) = k
<1> DEFINE T == {i \in Nat : Rank(rows, r, i) >= k}
<1>1. Rank(rows, r, n) \in Nat
  BY RankType
<1>2. n \in T /\ T \subseteq Nat
  BY <1>1
<1>3. PICK i \in T : \A j \in T : i <= j
  <2> HIDE DEF T
  <2> QED
    BY <1>2, LeastNat
<1>4. i \in Nat /\ i <= n /\ Rank(rows, r, i) >= k /\ Rank(rows, r, i) \in Nat
  BY <1>2, <1>3, RankType
<1>5. i # 0
  BY <1>4, RankNone
<1>6. i - 1 \in Nat /\ i = (i - 1) + 1
  BY <1>4, <1>5
<1>7. ~(Rank(rows, r, i - 1) >= k) /\ Rank(rows, r, i - 1) \in Nat
  BY <1>3, <1>4, <1>6, RankType
<1>8. Rank(rows, r, i) = Rank(rows, r, i - 1) + (IF rows[i].run = r THEN 1 ELSE 0)
  BY <1>6, RankNext
<1> QED
  BY <1>4, <1>5, <1>7, <1>8

LEMMA NthIs ==
  ASSUME NEW rows, DOMAIN rows = 1 .. Len(rows), Len(rows) \in Nat,
         NEW r, NEW k \in 1 .. Rank(rows, r, Len(rows))
  PROVE  \E i \in DOMAIN rows :
           rows[i].run = r /\ Rank(rows, r, i) = k /\ Nth(rows, r, k) = rows[i]
<1>1. \E i \in DOMAIN rows : rows[i].run = r /\ Rank(rows, r, i) = k
  BY RankReaches
<1> QED
  BY <1>1 DEF Nth

\* Rows of others do not count, and a run's rows at the end count all.
LEMMA RankFlat ==
  ASSUME NEW rows, NEW r, NEW m \in Nat, NEW n \in Nat, m <= n,
         \A j \in m + 1 .. n : rows[j].run # r
  PROVE  Rank(rows, r, n) = Rank(rows, r, m)
<1>1. {j \in 1 .. n : rows[j].run = r} = {j \in 1 .. m : rows[j].run = r}
  OBVIOUS
<1> QED
  BY <1>1 DEF Rank

LEMMA RankTail ==
  ASSUME NEW rows, NEW r, NEW m \in Nat, NEW k \in Nat,
         \A j \in 1 .. m : rows[j].run # r,
         \A j \in m + 1 .. m + k : rows[j].run = r
  PROVE  Rank(rows, r, m + k) = k
<1>1. {j \in 1 .. m + k : rows[j].run = r} = m + 1 .. m + k
  OBVIOUS
<1>2. Cardinality(m + 1 .. m + k) = k
  BY FS_Interval
<1> QED
  BY <1>1, <1>2 DEF Rank

-----------------------------------------------------------------------------
(* Types.                                                                  *)

Asked == [tf : Tfs, kind : {"entry", "exit"}, side : {-1, 0, 1}]
Ordered == [tf : Tfs, qty : Int]
Items == Nat \cup Asked \cup Ordered \cup {"kill", "reject", "clamp"}
OwnRows == [item : Items, link : Nat]
DbRows == [run : Runs, item : Items, link : Nat]

Stages == {"new", "bar", "intent", "judge", "order", "fill", "mirror", "flush", "insert", "end",
           "over", "dead"}
Procs ==
  [pc : Stages, engine : {"none", "backtest", "paper", "inmemory"},
   strategy : {"none", "breakout", "burst"}, stop : BOOLEAN, bars : Nat, minute : Nat,
   bar : [tf : Tfs \cup {"1m"}, ts : Nat], todo : Seq(Asked), signal : Nat, order : Nat,
   offset : [Tables -> Nat], failed : BOOLEAN]

RowsOK ==
  /\ db \in [Tables -> Seq(DbRows)]
  /\ own \in [Runs -> [Tables -> Seq(OwnRows)]]

TypeOK ==
  /\ RowsOK
  /\ status \in [Runs -> {"new", "running", "done", "halted", "error"}]
  /\ proc \in [Runs -> Procs]
  /\ side \in [Runs -> [Tfs -> {-1, 0, 1}]]
  /\ held \in [Runs -> [Tfs -> Nat]]
  /\ position \in [Runs -> [Tfs -> Int]]

LEMMA ParentTable == ASSUME NEW t PROVE Parent(t) \in {"orders", "signals"} /\ Parent(t) \in Tables
BY DEF Parent, Tables

-----------------------------------------------------------------------------
(* What is stored of a run, row by row.                                    *)

\* The run's rows in the database are its own.
Kept(r) ==
  \A t \in Tables :
    /\ Rank(db[t], r, Len(db[t])) = Len(own[r][t])
    /\ \A i \in DOMAIN db[t] : db[t][i].run = r =>
         own[r][t][Rank(db[t], r, i)] = Row(db[t][i].item, Number(db[Parent(t)], r, db[t][i].link))

Absent(r) == \A t \in Tables : \A i \in DOMAIN db[t] : db[t][i].run # r

LEMMA StoredKept ==
  ASSUME RowsOK, NEW r \in Runs, Kept(r)
  PROVE  Stored(r) = own[r]
<1>1. ASSUME NEW t \in Tables
      PROVE  [k \in 1 .. Rank(db[t], r, Len(db[t])) |->
                Row(Nth(db[t], r, k).item, Number(db[Parent(t)], r, Nth(db[t], r, k).link))] = own[r][t]
  <2> DEFINE rows == db[t]
             mine == own[r][t]
  <2>1. rows \in Seq(DbRows) /\ mine \in Seq(OwnRows)
    BY DEF RowsOK
  <2>2. Len(rows) \in Nat /\ DOMAIN rows = 1 .. Len(rows)
    BY <2>1
  <2>3. Rank(rows, r, Len(rows)) = Len(mine)
    BY DEF Kept
  <2>4. ASSUME NEW k \in 1 .. Len(mine)
        PROVE  Row(Nth(rows, r, k).item, Number(db[Parent(t)], r, Nth(rows, r, k).link)) = mine[k]
    <3>1. k \in 1 .. Rank(rows, r, Len(rows))
      BY <2>3
    <3> HIDE DEF rows
    <3>2. PICK i \in DOMAIN rows :
            rows[i].run = r /\ Rank(rows, r, i) = k /\ Nth(rows, r, k) = rows[i]
      BY <2>2, <3>1, NthIs
    <3> QED
      BY <3>2 DEF Kept, rows
  <2>5. mine = [k \in 1 .. Len(mine) |-> mine[k]]
    BY <2>1
  <2> QED
    BY <2>3, <2>4, <2>5
<1>2. own[r] = [t \in Tables |-> own[r][t]]
  BY DEF RowsOK
<1> QED
  BY <1>1, <1>2 DEF Stored

LEMMA AbsentRank ==
  ASSUME RowsOK, NEW r \in Runs, Absent(r), NEW t \in Tables
  PROVE  Rank(db[t], r, Len(db[t])) = 0
<1>1. db[t] \in Seq(DbRows)
  BY DEF RowsOK
<1>2. Len(db[t]) \in Nat /\ DOMAIN db[t] = 1 .. Len(db[t])
  BY <1>1
<1>3. \A j \in 0 + 1 .. Len(db[t]) : db[t][j].run # r
  BY <1>2 DEF Absent
<1>4. Rank(db[t], r, Len(db[t])) = Rank(db[t], r, 0)
  BY <1>2, <1>3, RankFlat
<1> QED
  BY <1>4, RankNone

LEMMA AbsentKept ==
  ASSUME RowsOK, NEW r \in Runs, Absent(r), own[r] = NoRows
  PROVE  Kept(r)
BY AbsentRank DEF Kept, Absent, NoRows

LEMMA StoredAbsent ==
  ASSUME RowsOK, NEW r \in Runs, Absent(r)
  PROVE  Stored(r) = NoRows
<1>1. ASSUME NEW t \in Tables
      PROVE  [k \in 1 .. Rank(db[t], r, Len(db[t])) |->
                Row(Nth(db[t], r, k).item, Number(db[Parent(t)], r, Nth(db[t], r, k).link))] = <<>>
  BY AbsentRank
<1> QED
  BY <1>1 DEF Stored, NoRows

-----------------------------------------------------------------------------
(* A run adds rows.                                                        *)

Extends(r) ==
  \A t \in Tables :
    /\ Len(db[t]) <= Len(db'[t])
    /\ \A i \in 1 .. Len(db[t]) : db'[t][i] = db[t][i]
    /\ \A i \in Len(db[t]) + 1 .. Len(db'[t]) : db'[t][i].run = r

LEMMA Lengths ==
  ASSUME RowsOK, NEW t \in Tables
  PROVE  /\ Len(db[t]) \in Nat /\ DOMAIN db[t] = 1 .. Len(db[t])
         /\ \A r \in Runs : Len(own[r][t]) \in Nat /\ DOMAIN own[r][t] = 1 .. Len(own[r][t])
<1>1. db[t] \in Seq(DbRows) /\ \A r \in Runs : own[r][t] \in Seq(OwnRows)
  BY DEF RowsOK
<1> QED
  BY <1>1

LEMMA NextLengths ==
  ASSUME RowsOK', NEW t \in Tables
  PROVE  /\ Len(db'[t]) \in Nat /\ DOMAIN db'[t] = 1 .. Len(db'[t])
         /\ \A r \in Runs : Len(own'[r][t]) \in Nat /\ DOMAIN own'[r][t] = 1 .. Len(own'[r][t])
<1>1. db'[t] \in Seq(DbRows) /\ \A r \in Runs : own'[r][t] \in Seq(OwnRows)
  BY DEF RowsOK
<1> QED
  BY <1>1

LEMMA ExtendedRanks ==
  ASSUME RowsOK, RowsOK', NEW r \in Runs, Extends(r), NEW t \in Tables, NEW s
  PROVE  /\ \A n \in 0 .. Len(db[t]) : Rank(db'[t], s, n) = Rank(db[t], s, n)
         /\ s # r => \A n \in Len(db[t]) .. Len(db'[t]) :
                       Rank(db'[t], s, n) = Rank(db[t], s, Len(db[t]))
<1>1. Len(db[t]) \in Nat /\ Len(db'[t]) \in Nat /\ Len(db[t]) <= Len(db'[t])
  BY Lengths, NextLengths DEF Extends
<1>2. \A i \in 1 .. Len(db[t]) : db'[t][i] = db[t][i]
  BY DEF Extends
<1>3. ASSUME NEW n \in 0 .. Len(db[t])
      PROVE  Rank(db'[t], s, n) = Rank(db[t], s, n)
  <2>1. \A j \in 1 .. n : db'[t][j] = db[t][j]
    BY <1>1, <1>2
  <2> QED
    BY <2>1, RankAgrees
<1>4. ASSUME s # r, NEW n \in Len(db[t]) .. Len(db'[t])
      PROVE  Rank(db'[t], s, n) = Rank(db[t], s, Len(db[t]))
  <2>1. \A j \in Len(db[t]) + 1 .. n : db'[t][j].run # s
    BY <1>1, <1>4 DEF Extends
  <2>2. Rank(db'[t], s, n) = Rank(db'[t], s, Len(db[t]))
    BY <1>1, <2>1, RankFlat
  <2> QED
    BY <1>1, <1>3, <2>2
<1> QED
  BY <1>3, <1>4

LEMMA ExtendedRows ==
  ASSUME RowsOK, RowsOK', NEW r \in Runs, Extends(r), NEW t \in Tables
  PROVE  /\ DOMAIN db[t] = 1 .. Len(db[t]) /\ DOMAIN db'[t] = 1 .. Len(db'[t])
         /\ Len(db[t]) \in Nat /\ Len(db'[t]) \in Nat
         /\ \A i \in DOMAIN db[t] : i \in DOMAIN db'[t] /\ db'[t][i] = db[t][i]
         /\ \A i \in DOMAIN db'[t] : i \in DOMAIN db[t] \/ db'[t][i].run = r
<1>1. Len(db[t]) \in Nat /\ DOMAIN db[t] = 1 .. Len(db[t])
  BY Lengths
<1>2. Len(db'[t]) \in Nat /\ DOMAIN db'[t] = 1 .. Len(db'[t])
  BY NextLengths
<1> QED
  BY <1>1, <1>2 DEF Extends

\* The number of a row does not change, nor that of a row of nobody or of another run.
LEMMA NumberStays ==
  ASSUME RowsOK, RowsOK', NEW r \in Runs, Extends(r), NEW s \in Runs, NEW t \in Tables, NEW id,
         s # r \/ id = 0 \/ (id \in DOMAIN db[t] /\ db[t][id].run = s)
  PROVE  Number(db'[t], s, id) = Number(db[t], s, id)
<1>1. /\ DOMAIN db[t] = 1 .. Len(db[t]) /\ Len(db[t]) \in Nat
      /\ \A i \in DOMAIN db[t] : i \in DOMAIN db'[t] /\ db'[t][i] = db[t][i]
      /\ \A i \in DOMAIN db'[t] : i \in DOMAIN db[t] \/ db'[t][i].run = r
  BY ExtendedRows
<1>2. CASE id = 0
  BY <1>2 DEF Number
<1>3. CASE id # 0 /\ id \in DOMAIN db[t]
  <2>1. id \in DOMAIN db'[t] /\ db'[t][id] = db[t][id] /\ id \in 0 .. Len(db[t])
    BY <1>1, <1>3
  <2>2. Rank(db'[t], s, id) = Rank(db[t], s, id)
    BY <2>1, ExtendedRanks
  <2> QED
    BY <1>3, <2>1, <2>2 DEF Number
<1>4. CASE id # 0 /\ id \notin DOMAIN db[t]
  <2>1. s # r
    BY <1>4
  <2>2. ~(id \in DOMAIN db'[t] /\ db'[t][id].run = s)
    BY <1>1, <1>4, <2>1
  <2> QED
    BY <1>4, <2>2 DEF Number
<1> QED
  BY <1>2, <1>3, <1>4

\* Other runs do not notice.
LEMMA OthersKept ==
  ASSUME RowsOK, RowsOK', NEW r \in Runs, Extends(r), NEW s \in Runs, s # r, own'[s] = own[s]
  PROVE  (Kept(s) => Kept(s)') /\ (Absent(s) => Absent(s)')
<1>1. ASSUME NEW t \in Tables
      PROVE  /\ DOMAIN db[t] = 1 .. Len(db[t]) /\ DOMAIN db'[t] = 1 .. Len(db'[t])
             /\ Len(db[t]) \in Nat /\ Len(db'[t]) \in Nat
             /\ \A i \in DOMAIN db[t] : i \in DOMAIN db'[t] /\ db'[t][i] = db[t][i]
             /\ \A i \in DOMAIN db'[t] : i \in DOMAIN db[t] \/ db'[t][i].run = r
  BY ExtendedRows
<1>2. ASSUME Kept(s), NEW t \in Tables
      PROVE  /\ Rank(db'[t], s, Len(db'[t])) = Len(own'[s][t])
             /\ \A i \in DOMAIN db'[t] : db'[t][i].run = s =>
                  own'[s][t][Rank(db'[t], s, i)]
                    = Row(db'[t][i].item, Number(db'[Parent(t)], s, db'[t][i].link))
  <2>1. Rank(db'[t], s, Len(db'[t])) = Rank(db[t], s, Len(db[t]))
    <3>1. Len(db'[t]) \in Len(db[t]) .. Len(db'[t])
      BY <1>1 DEF Extends
    <3> QED
      BY <3>1, ExtendedRanks
  <2>2. ASSUME NEW i \in DOMAIN db'[t], db'[t][i].run = s
        PROVE  own'[s][t][Rank(db'[t], s, i)]
                    = Row(db'[t][i].item, Number(db'[Parent(t)], s, db'[t][i].link))
    <3>1. i \in DOMAIN db[t] /\ db'[t][i] = db[t][i] /\ i \in 0 .. Len(db[t])
      BY <1>1, <2>2
    <3>2. Rank(db'[t], s, i) = Rank(db[t], s, i)
      BY <3>1, ExtendedRanks
    <3>3. \A id : Number(db'[Parent(t)], s, id) = Number(db[Parent(t)], s, id)
      BY NumberStays, ParentTable
    <3>4. Number(db'[Parent(t)], s, db'[t][i].link) = Number(db[Parent(t)], s, db[t][i].link)
      BY <3>1, <3>3
    <3>5. own[s][t][Rank(db[t], s, i)] = Row(db[t][i].item, Number(db[Parent(t)], s, db[t][i].link))
      BY <1>2, <2>2, <3>1 DEF Kept
    <3> QED
      BY <3>1, <3>2, <3>4, <3>5
  <2> QED
    BY <1>2, <2>1, <2>2 DEF Kept
<1>3. ASSUME Absent(s) PROVE Absent(s)'
  BY <1>1, <1>3 DEF Absent
<1> QED
  BY <1>2, <1>3 DEF Kept

-----------------------------------------------------------------------------
(* A row is put.                                                           *)

\* The number under which the current row of a table is known.
Denotes(r, t, id) ==
  /\ own[r][t] # <<>>
  /\ IF Buffers(r) THEN id = Len(own[r][t])
     ELSE id \in DOMAIN db[t] /\ db[t][id].run = r /\ Rank(db[t], r, id) = Len(own[r][t])

\* What a row put for link is linked to among the run's own.
OwnLink(r, t, link) == IF Buffers(r) \/ link = 0 THEN link ELSE Len(own[r][Parent(t)])

Added(rec, t, row) == [rec EXCEPT ![t] = Append(@, row)]

LEMMA PutShape ==
  ASSUME RowsOK, NEW r \in Runs, NEW t \in Tables, NEW item \in Items, NEW link \in Nat,
         Put(r, t, item, link)
  PROVE  /\ db' \in [Tables -> Seq(DbRows)] /\ own' \in [Runs -> [Tables -> Seq(OwnRows)]]
         /\ Row(item, OwnLink(r, t, link)) \in OwnRows
         /\ own'[r] = Added(own[r], t, Row(item, OwnLink(r, t, link)))
         /\ \A s \in Runs \ {r} : own'[s] = own[s]
         /\ Buffers(r) => UNCHANGED db
         /\ ~Buffers(r) => db' = [db EXCEPT ![t] = Append(@, RowOf(r, item, link))]
         /\ Extends(r)
<1>1. OwnLink(r, t, link) \in Nat
  BY Lengths, ParentTable DEF OwnLink
<1>2. Row(item, OwnLink(r, t, link)) \in OwnRows /\ RowOf(r, item, link) \in DbRows
  BY <1>1 DEF Row, RowOf, OwnRows, DbRows
<1>3. own' = [own EXCEPT ![r][t] = Append(@, Row(item, OwnLink(r, t, link)))]
  BY DEF Put, OwnLink
<1>4. own[r] \in [Tables -> Seq(OwnRows)] /\ own \in [Runs -> [Tables -> Seq(OwnRows)]]
  BY DEF RowsOK
<1>5. own'[r] = Added(own[r], t, Row(item, OwnLink(r, t, link)))
  BY <1>3, <1>4 DEF Added
<1>6. Added(own[r], t, Row(item, OwnLink(r, t, link))) \in [Tables -> Seq(OwnRows)]
  <2>1. Append(own[r][t], Row(item, OwnLink(r, t, link))) \in Seq(OwnRows)
    BY <1>2, <1>4
  <2> QED
    BY <1>4, <2>1 DEF Added
<1>7. \A s \in Runs \ {r} : own'[s] = own[s]
  BY <1>3, <1>4
<1>8. own' \in [Runs -> [Tables -> Seq(OwnRows)]]
  <2>1. own' = [own EXCEPT ![r] = Added(own[r], t, Row(item, OwnLink(r, t, link)))]
    BY <1>3, <1>4 DEF Added
  <2> QED
    BY <1>4, <1>6, <2>1
<1>9. CASE Buffers(r)
  <2>1. UNCHANGED db
    BY <1>9 DEF Put
  <2>2. db' \in [Tables -> Seq(DbRows)]
    BY <2>1 DEF RowsOK
  <2>3. Extends(r)
    BY <2>1, Lengths DEF Extends
  <2> QED
    BY <1>2, <1>5, <1>7, <1>8, <1>9, <2>1, <2>2, <2>3
<1>10. CASE ~Buffers(r)
  <2>1. db' = [db EXCEPT ![t] = Append(@, RowOf(r, item, link))]
    BY <1>10 DEF Put
  <2>2. db \in [Tables -> Seq(DbRows)]
    BY DEF RowsOK
  <2>3. db' \in [Tables -> Seq(DbRows)]
    BY <1>2, <2>1, <2>2
  <2>4. ASSUME NEW u \in Tables
        PROVE  /\ Len(db[u]) <= Len(db'[u])
               /\ \A i \in 1 .. Len(db[u]) : db'[u][i] = db[u][i]
               /\ \A i \in Len(db[u]) + 1 .. Len(db'[u]) : db'[u][i].run = r
    <3>1. db[u] \in Seq(DbRows) /\ Len(db[u]) \in Nat
      BY <2>2
    <3>2. CASE u = t
      <4>1. db'[u] = Append(db[u], RowOf(r, item, link)) /\ RowOf(r, item, link).run = r
        BY <2>1, <2>2, <3>2 DEF RowOf
      <4> QED
        BY <1>2, <3>1, <4>1
    <3>3. CASE u # t
      <4>1. db'[u] = db[u]
        BY <2>1, <2>2, <3>3
      <4> QED
        BY <3>1, <4>1
    <3> QED
      BY <3>2, <3>3
  <2>5. Extends(r)
    BY <2>4 DEF Extends
  <2> QED
    BY <1>2, <1>5, <1>7, <1>8, <1>10, <2>1, <2>3, <2>5
<1> QED
  BY <1>9, <1>10

LEMMA PutKept ==
  ASSUME RowsOK, RowsOK', NEW r \in Runs, NEW t \in Tables, NEW item \in Items, NEW link \in Nat,
         Put(r, t, item, link), ~Buffers(r), Kept(r),
         link = 0 \/ (Parent(t) # t /\ Denotes(r, Parent(t), link))
  PROVE  Kept(r)'
<1> DEFINE l == OwnLink(r, t, link)
<1>1. /\ Row(item, l) \in OwnRows /\ own'[r] = Added(own[r], t, Row(item, l))
      /\ db' = [db EXCEPT ![t] = Append(@, RowOf(r, item, link))] /\ Extends(r)
  BY PutShape
<1>2. db \in [Tables -> Seq(DbRows)] /\ own[r] \in [Tables -> Seq(OwnRows)]
  BY DEF RowsOK
\* The numbers of the rows the run has linked are those they had.
<1>3. ASSUME NEW u \in Tables, NEW i \in DOMAIN db[u], db[u][i].run = r
      PROVE  /\ Rank(db'[u], r, i) = Rank(db[u], r, i) /\ Rank(db[u], r, i) \in 1 .. Len(own[r][u])
             /\ own[r][u][Rank(db[u], r, i)]
                  = Row(db[u][i].item, Number(db'[Parent(u)], r, db[u][i].link))
  <2>1. i \in Nat /\ i # 0 /\ i <= Len(db[u]) /\ Len(db[u]) \in Nat
    BY Lengths
  <2>2. Rank(db'[u], r, i) = Rank(db[u], r, i)
    BY <1>1, <2>1, ExtendedRanks
  <2>3. Rank(db[u], r, i) \in 1 .. Len(own[r][u])
    <3>1. Rank(db[u], r, i) <= Rank(db[u], r, Len(db[u])) /\ Rank(db[u], r, Len(db[u])) = Len(own[r][u])
      BY <2>1, RankMonotone DEF Kept
    <3>2. Rank(db[u], r, 0) < Rank(db[u], r, i) /\ Rank(db[u], r, 0) = 0
      BY <1>3, <2>1, RankLess, RankNone
    <3>3. Rank(db[u], r, i) \in Nat /\ Len(own[r][u]) \in Nat
      BY <2>1, RankType, Lengths
    <3> QED
      BY <3>1, <3>2, <3>3
  <2>4. own[r][u][Rank(db[u], r, i)] = Row(db[u][i].item, Number(db[Parent(u)], r, db[u][i].link))
    BY <1>3 DEF Kept
  <2> DEFINE id == db[u][i].link
             P == Parent(u)
  <2>5. own[r][u][Rank(db[u], r, i)] \in OwnRows
    BY <1>2, <2>3
  <2>6. Number(db[P], r, id) \in Nat
    BY <2>4, <2>5 DEF Row, OwnRows
  <2>7. id = 0 \/ (id \in DOMAIN db[P] /\ db[P][id].run = r)
    BY <2>6 DEF Number
  <2> HIDE DEF id, P
  <2>8. Number(db'[P], r, id) = Number(db[P], r, id)
    BY <1>1, <2>7, NumberStays, ParentTable DEF P
  <2> QED
    BY <2>2, <2>3, <2>4, <2>8 DEF id, P
<1>4. ASSUME NEW u \in Tables \ {t}
      PROVE  /\ Rank(db'[u], r, Len(db'[u])) = Len(own'[r][u])
             /\ \A i \in DOMAIN db'[u] : db'[u][i].run = r =>
                  own'[r][u][Rank(db'[u], r, i)]
                    = Row(db'[u][i].item, Number(db'[Parent(u)], r, db'[u][i].link))
  <2>1. db'[u] = db[u] /\ own'[r][u] = own[r][u]
    BY <1>1, <1>2 DEF Added
  <2>2. Rank(db[u], r, Len(db[u])) = Len(own[r][u])
    BY DEF Kept
  <2>3. ASSUME NEW i \in DOMAIN db[u], db[u][i].run = r
        PROVE  own[r][u][Rank(db[u], r, i)]
                    = Row(db[u][i].item, Number(db'[Parent(u)], r, db[u][i].link))
    BY <1>3, <2>3
  <2> QED
    BY <2>1, <2>2, <2>3
<1>5. /\ Rank(db'[t], r, Len(db'[t])) = Len(own'[r][t])
      /\ \A i \in DOMAIN db'[t] : db'[t][i].run = r =>
           own'[r][t][Rank(db'[t], r, i)]
             = Row(db'[t][i].item, Number(db'[Parent(t)], r, db'[t][i].link))
  <2> DEFINE n == Len(db[t])
             m == Len(own[r][t])
             row == RowOf(r, item, link)
  <2>1. db[t] \in Seq(DbRows) /\ own[r][t] \in Seq(OwnRows) /\ n \in Nat /\ m \in Nat
    BY <1>2
  <2>2. db'[t] = Append(db[t], row) /\ own'[r][t] = Append(own[r][t], Row(item, l))
    BY <1>1, <1>2 DEF Added
  <2>3. row.run = r /\ row.item = item /\ row.link = link
    BY DEF RowOf
  <2> HIDE DEF row
  <2>4. /\ Len(db'[t]) = n + 1 /\ DOMAIN db'[t] = 1 .. n + 1 /\ db'[t][n + 1] = row
        /\ \A i \in 1 .. n : db'[t][i] = db[t][i]
    BY <2>1, <2>2
  <2>5. /\ Len(own'[r][t]) = m + 1 /\ own'[r][t][m + 1] = Row(item, l)
        /\ \A i \in 1 .. m : own'[r][t][i] = own[r][t][i]
    <3> HIDE DEF l
    <3> QED
      BY <2>1, <2>2
  <2>6. Rank(db'[t], r, n) = m
    <3>1. n \in 0 .. n
      BY <2>1
    <3>2. Rank(db'[t], r, n) = Rank(db[t], r, n)
      BY <1>1, <3>1, ExtendedRanks
    <3> QED
      BY <3>2 DEF Kept
  <2>7. Rank(db'[t], r, n + 1) = m + 1
    <3>1. Rank(db'[t], r, n + 1) = Rank(db'[t], r, n) + (IF db'[t][n + 1].run = r THEN 1 ELSE 0)
      BY <2>1, RankNext
    <3> QED
      BY <2>1, <2>3, <2>4, <2>6, <3>1
  <2>8. l = Number(db'[Parent(t)], r, link)
    <3>1. CASE link = 0
      BY <3>1 DEF OwnLink, Number
    <3>2. CASE link # 0
      <4> DEFINE P == Parent(t)
      <4>1. P \in Tables /\ link \in DOMAIN db[P] /\ db[P][link].run = r
            /\ Rank(db[P], r, link) = Len(own[r][P])
        BY <3>2, ParentTable DEF Denotes
      <4>2. l = Len(own[r][P])
        BY <3>2 DEF OwnLink
      <4>3. Number(db'[P], r, link) = Number(db[P], r, link)
        BY <1>1, <4>1, NumberStays
      <4>4. Number(db[P], r, link) = Rank(db[P], r, link)
        BY <3>2, <4>1 DEF Number
      <4> QED
        BY <4>1, <4>2, <4>3, <4>4
    <3> QED
      BY <3>1, <3>2
  <2> HIDE DEF l
  <2>9. ASSUME NEW i \in DOMAIN db'[t], db'[t][i].run = r
        PROVE  own'[r][t][Rank(db'[t], r, i)]
                 = Row(db'[t][i].item, Number(db'[Parent(t)], r, db'[t][i].link))
    <3>1. CASE i = n + 1
      BY <2>3, <2>4, <2>5, <2>7, <2>8, <3>1
    <3>2. CASE i \in 1 .. n
      <4>1. i \in DOMAIN db[t] /\ db'[t][i] = db[t][i] /\ db[t][i].run = r
        BY <2>1, <2>4, <2>9, <3>2
      <4>2. /\ Rank(db'[t], r, i) \in 1 .. m
            /\ own[r][t][Rank(db'[t], r, i)]
                  = Row(db[t][i].item, Number(db'[Parent(t)], r, db[t][i].link))
        BY <1>3, <4>1
      <4> QED
        BY <2>5, <4>1, <4>2
    <3> QED
      BY <2>1, <2>4, <2>9, <3>1, <3>2
  <2> QED
    BY <2>4, <2>5, <2>7, <2>9
<1> QED
  BY <1>4, <1>5 DEF Kept

-----------------------------------------------------------------------------
(* A run's own record is sound.                                            *)

\* The types of its rows, table by table, on top of what RunRecord promises of it.
Sound(rec) ==
  /\ Records!Linked(rec)
  /\ \A i \in DOMAIN rec.signals : rec.signals[i].item \in Asked
  /\ \A i \in DOMAIN rec.orders : rec.orders[i].item \in Ordered
  /\ \A i \in DOMAIN rec.fills : rec.fills[i].item \in Nat
  /\ \A t \in {"bars", "signals", "snapshots"} : \A i \in DOMAIN rec[t] : rec[t][i].link = 0

\* A row that may be added to a record.
Fits(rec, t, item, link) ==
  /\ t = "signals" => item \in Asked
  /\ t = "orders" =>
       item \in Ordered /\ link \in DOMAIN rec.signals /\ rec.signals[link].item.tf = item.tf
  /\ t = "fills" =>
       item \in Nat /\ link \in DOMAIN rec.orders /\ rec.orders[link].item.qty \in {item, - item}
  /\ t = "events" => link \in 0 .. Len(rec.signals)
  /\ t \in {"bars", "signals", "snapshots"} => link = 0

LEMMA SoundGrows ==
  ASSUME NEW rec \in [Tables -> Seq(OwnRows)], Sound(rec), NEW t \in Tables, NEW item, NEW link,
         Row(item, link) \in OwnRows, Fits(rec, t, item, link)
  PROVE  Sound(Added(rec, t, Row(item, link)))
<1> DEFINE new == Added(rec, t, Row(item, link))
           row == Row(item, link)
<1>1. \A u \in Tables : rec[u] \in Seq(OwnRows) /\ Len(rec[u]) \in Nat /\ DOMAIN rec[u] = 1 .. Len(rec[u])
  OBVIOUS
<1>2. row.item = item /\ row.link = link /\ row \in OwnRows
  BY DEF Row
<1>3. \A u \in Tables : u # t => new[u] = rec[u]
  BY DEF Added
<1>4. new[t] = Append(rec[t], row)
  BY DEF Added
<1> HIDE DEF new, row
<1>5. /\ DOMAIN new[t] = 1 .. Len(rec[t]) + 1 /\ new[t][Len(rec[t]) + 1] = row
      /\ \A i \in DOMAIN rec[t] : new[t][i] = rec[t][i]
  BY <1>1, <1>2, <1>4
\* Old rows stay in their places; a new one of a table is the row.
<1>6. \A u \in Tables :
        /\ Len(new[u]) \in Nat /\ Len(rec[u]) <= Len(new[u]) /\ DOMAIN new[u] = 1 .. Len(new[u])
        /\ \A i \in DOMAIN rec[u] : i \in DOMAIN new[u] /\ new[u][i] = rec[u][i]
        /\ \A i \in DOMAIN new[u] : i \in DOMAIN rec[u] \/ (u = t /\ new[u][i] = row)
  <2> SUFFICES ASSUME NEW u \in Tables
               PROVE /\ Len(new[u]) \in Nat /\ Len(rec[u]) <= Len(new[u]) /\ DOMAIN new[u] = 1 .. Len(new[u])
                     /\ \A i \in DOMAIN rec[u] : i \in DOMAIN new[u] /\ new[u][i] = rec[u][i]
                     /\ \A i \in DOMAIN new[u] : i \in DOMAIN rec[u] \/ (u = t /\ new[u][i] = row)
    OBVIOUS
  <2>1. CASE u # t
    BY <1>1, <1>3, <2>1
  <2>2. CASE u = t
    <3>1. Len(new[t]) = Len(rec[t]) + 1
      BY <1>1, <1>2, <1>4
    <3> QED
      BY <1>1, <1>5, <2>2, <3>1
  <2> QED
    BY <2>1, <2>2
<1>7. {"bars", "signals", "orders", "fills", "snapshots", "events"} \subseteq Tables
  BY DEF Tables
<1>8. \A i \in DOMAIN new.signals : new.signals[i].item \in Asked
  BY <1>2, <1>6, <1>7 DEF Sound, Fits
<1>9. \A i \in DOMAIN new.orders : new.orders[i].item \in Ordered
  BY <1>2, <1>6, <1>7 DEF Sound, Fits
<1>10. \A i \in DOMAIN new.fills : new.fills[i].item \in Nat
  BY <1>2, <1>6, <1>7 DEF Sound, Fits
<1>11. ASSUME NEW u \in {"bars", "signals", "snapshots"}, NEW i \in DOMAIN new[u]
       PROVE  new[u][i].link = 0
  <2>1. u \in Tables
    BY <1>7
  <2>2. (i \in DOMAIN rec[u] /\ new[u][i] = rec[u][i]) \/ (u = t /\ new[u][i] = row)
    BY <1>6, <2>1
  <2>3. i \in DOMAIN rec[u] => rec[u][i].link = 0
    BY DEF Sound
  <2>4. u = t => row.link = 0
    BY <1>2 DEF Fits
  <2> QED
    BY <2>2, <2>3, <2>4
<1>12. ASSUME NEW i \in DOMAIN new.orders
       PROVE  new.orders[i].link \in DOMAIN new.signals
              /\ new.signals[new.orders[i].link].item.tf = new.orders[i].item.tf
  <2>1. \A k \in DOMAIN rec.signals : k \in DOMAIN new.signals /\ new.signals[k] = rec.signals[k]
    BY <1>6, <1>7
  <2>2. (i \in DOMAIN rec.orders /\ new.orders[i] = rec.orders[i]) \/ (t = "orders" /\ new.orders[i] = row)
    BY <1>6, <1>7
  <2>3. CASE i \in DOMAIN rec.orders /\ new.orders[i] = rec.orders[i]
    <3>1. /\ rec.orders[i].link \in DOMAIN rec.signals
          /\ rec.signals[rec.orders[i].link].item.tf = rec.orders[i].item.tf
      BY <2>3 DEF Sound, Records!Linked
    <3> QED
      BY <2>1, <2>3, <3>1
  <2>4. CASE t = "orders" /\ new.orders[i] = row
    <3>1. link \in DOMAIN rec.signals /\ rec.signals[link].item.tf = item.tf
      BY <2>4 DEF Fits
    <3> QED
      BY <1>2, <2>1, <2>4, <3>1
  <2> QED
    BY <2>2, <2>3, <2>4
<1>13. ASSUME NEW i \in DOMAIN new.fills
       PROVE  new.fills[i].link \in DOMAIN new.orders
              /\ new.orders[new.fills[i].link].item.qty \in {new.fills[i].item, - new.fills[i].item}
  <2>1. \A k \in DOMAIN rec.orders : k \in DOMAIN new.orders /\ new.orders[k] = rec.orders[k]
    BY <1>6, <1>7
  <2>2. (i \in DOMAIN rec.fills /\ new.fills[i] = rec.fills[i]) \/ (t = "fills" /\ new.fills[i] = row)
    BY <1>6, <1>7
  <2>3. CASE i \in DOMAIN rec.fills /\ new.fills[i] = rec.fills[i]
    <3>1. /\ rec.fills[i].link \in DOMAIN rec.orders
          /\ rec.orders[rec.fills[i].link].item.qty \in {rec.fills[i].item, - rec.fills[i].item}
      BY <2>3 DEF Sound, Records!Linked
    <3> QED
      BY <2>1, <2>3, <3>1
  <2>4. CASE t = "fills" /\ new.fills[i] = row
    <3>1. link \in DOMAIN rec.orders /\ rec.orders[link].item.qty \in {item, - item}
      BY <2>4 DEF Fits
    <3> QED
      BY <1>2, <2>1, <2>4, <3>1
  <2> QED
    BY <2>2, <2>3, <2>4
<1>14. ASSUME NEW i \in DOMAIN new.events
       PROVE  new.events[i].link \in 0 .. Len(new.signals)
  <2>1. Len(rec.signals) \in Nat /\ Len(new.signals) \in Nat /\ Len(rec.signals) <= Len(new.signals)
    BY <1>1, <1>6, <1>7
  <2>2. (i \in DOMAIN rec.events /\ new.events[i] = rec.events[i]) \/ (t = "events" /\ new.events[i] = row)
    BY <1>6, <1>7
  <2>3. i \in DOMAIN rec.events => rec.events[i].link \in 0 .. Len(rec.signals)
    BY DEF Sound, Records!Linked
  <2>4. t = "events" => link \in 0 .. Len(rec.signals)
    BY DEF Fits
  <2>5. new.events[i].link \in 0 .. Len(rec.signals)
    BY <1>2, <2>2, <2>3, <2>4
  <2> QED
    BY <2>1, <2>5
<1>15. Records!Linked(new)
  BY <1>12, <1>13, <1>14 DEF Records!Linked
<1> QED
  BY <1>8, <1>9, <1>10, <1>11, <1>15 DEF Sound, new

\* A link names a row of the record, or none.
LEMMA LinkInside ==
  ASSUME NEW rec \in [Tables -> Seq(OwnRows)], Sound(rec), NEW t \in Tables, NEW i \in DOMAIN rec[t]
  PROVE  /\ rec[t][i].link = 0 \/ rec[t][i].link \in 1 .. Len(rec[Parent(t)])
         /\ rec[t][i] = Row(rec[t][i].item, rec[t][i].link)
         /\ rec[t][i].item \in Items /\ rec[t][i].link \in Nat
<1>1. rec[t][i] \in OwnRows
  OBVIOUS
<1>2. /\ rec[t][i] = Row(rec[t][i].item, rec[t][i].link)
      /\ rec[t][i].item \in Items /\ rec[t][i].link \in Nat
  BY <1>1 DEF OwnRows, Row
<1>3. /\ DOMAIN rec.signals = 1 .. Len(rec.signals) /\ DOMAIN rec.orders = 1 .. Len(rec.orders)
      /\ Len(rec.signals) \in Nat /\ Len(rec.orders) \in Nat
  BY DEF Tables
<1>4. CASE t \in {"bars", "signals", "snapshots"}
  BY <1>2, <1>4 DEF Sound
<1>5. CASE t = "orders"
  BY <1>2, <1>3, <1>5 DEF Sound, Records!Linked, Parent
<1>6. CASE t = "fills"
  BY <1>2, <1>3, <1>6 DEF Sound, Records!Linked, Parent
<1>7. CASE t = "events"
  BY <1>2, <1>3, <1>7 DEF Sound, Records!Linked, Parent
<1> QED
  BY <1>4, <1>5, <1>6, <1>7 DEF Tables

\* What the flush inserts is the run's record.
LEMMA InsertKept ==
  ASSUME TypeOK, RowsOK', NEW r \in Runs, Absent(r), Sound(own[r]), Insert(r), ~Refused(r),
         \A t \in Tables : proc[r].offset[t] <= Len(db[t])
  PROVE  Kept(r)' /\ Extends(r)
<1>0. RowsOK
  BY DEF TypeOK
<1>1. own' = own /\ db' = [t \in Tables |-> db[t] \o Inserted(r, t)]
  BY DEF Insert
<1>2. own[r] \in [Tables -> Seq(OwnRows)] /\ db \in [Tables -> Seq(DbRows)]
      /\ proc[r].offset \in [Tables -> Nat]
  BY DEF TypeOK, RowsOK, Procs
<1>3. ASSUME NEW t \in Tables
      PROVE  /\ Len(db[t]) \in Nat /\ Len(own[r][t]) \in Nat
             /\ DOMAIN own[r][t] = 1 .. Len(own[r][t]) /\ DOMAIN db[t] = 1 .. Len(db[t])
             /\ Len(db'[t]) = Len(db[t]) + Len(own[r][t]) /\ DOMAIN db'[t] = 1 .. Len(db'[t])
             /\ \A i \in 1 .. Len(db[t]) : db'[t][i] = db[t][i]
             /\ \A k \in 1 .. Len(own[r][t]) : db'[t][Len(db[t]) + k] = Inserted(r, t)[k]
  <2>1. db[t] \in Seq(DbRows) /\ own[r][t] \in Seq(OwnRows)
    BY <1>2
  <2> DEFINE S == {Inserted(r, t)[i] : i \in DOMAIN own[r][t]}
             more == Inserted(r, t)
  <2>2. more \in Seq(S) /\ Len(more) = Len(own[r][t]) /\ DOMAIN more = DOMAIN own[r][t]
    <3>1. \A i \in DOMAIN own[r][t] : more[i] \in S
      OBVIOUS
    <3>2. DOMAIN own[r][t] = 1 .. Len(own[r][t]) /\ Len(own[r][t]) \in Nat
      BY <2>1
    <3>3. DOMAIN more = DOMAIN own[r][t] /\ more = [i \in 1 .. Len(own[r][t]) |-> more[i]]
      BY <3>2 DEF Inserted
    <3> HIDE DEF S, more
    <3> QED
      BY <3>1, <3>2, <3>3
  <2>3. db'[t] = db[t] \o more
    BY <1>1
  <2> HIDE DEF S, more
  <2>4. db[t] \in Seq(DbRows \cup S) /\ more \in Seq(DbRows \cup S)
    BY <2>1, <2>2
  <2>5. /\ Len(db'[t]) = Len(db[t]) + Len(more) /\ DOMAIN db'[t] = 1 .. Len(db'[t])
        /\ \A i \in 1 .. Len(db[t]) : db'[t][i] = db[t][i]
        /\ \A k \in 1 .. Len(more) : db'[t][Len(db[t]) + k] = more[k]
    BY <2>3, <2>4
  <2> QED
    BY <2>1, <2>2, <2>5 DEF more
<1>4. ASSUME NEW t \in Tables, NEW k \in 1 .. Len(own[r][t])
      PROVE  /\ Inserted(r, t)[k].run = r /\ Inserted(r, t)[k].item = own[r][t][k].item
             /\ Inserted(r, t)[k].link =
                  IF own[r][t][k].link = 0 THEN 0
                  ELSE own[r][t][k].link + proc[r].offset[Parent(t)]
  BY <1>3 DEF Inserted, RowOf
<1>5. Extends(r)
  <2> SUFFICES ASSUME NEW t \in Tables
               PROVE  /\ Len(db[t]) <= Len(db'[t])
                      /\ \A i \in 1 .. Len(db[t]) : db'[t][i] = db[t][i]
                      /\ \A i \in Len(db[t]) + 1 .. Len(db'[t]) : db'[t][i].run = r
    BY DEF Extends
  <2>1. ASSUME NEW i \in Len(db[t]) + 1 .. Len(db'[t]) PROVE db'[t][i].run = r
    <3> DEFINE n == Len(db[t])
               m == Len(own[r][t])
    <3>1. n \in Nat /\ m \in Nat /\ Len(db'[t]) = n + m
      BY <1>3
    <3>2. \A k \in 1 .. m : db'[t][n + k] = Inserted(r, t)[k]
      BY <1>3
    <3>3. \A k \in 1 .. m : Inserted(r, t)[k].run = r
      BY <1>4
    <3> HIDE DEF n, m
    <3>4. i \in n + 1 .. n + m
      BY <3>1 DEF n
    <3>5. i - n \in 1 .. m /\ i = n + (i - n)
      BY <3>1, <3>4
    <3> QED
      BY <3>2, <3>3, <3>5
  <2>2. Len(db[t]) \in Nat /\ Len(own[r][t]) \in Nat /\ Len(db'[t]) = Len(db[t]) + Len(own[r][t])
        /\ \A i \in 1 .. Len(db[t]) : db'[t][i] = db[t][i]
    BY <1>3
  <2>3. Len(db[t]) <= Len(db'[t])
    <3> DEFINE n == Len(db[t])
               m == Len(own[r][t])
               p == Len(db'[t])
    <3>1. n \in Nat /\ m \in Nat /\ p = n + m
      BY <2>2
    <3> HIDE DEF n, m, p
    <3>2. n <= p
      BY <3>1
    <3> QED
      BY <3>2 DEF n, p
  <2> QED
    BY <2>1, <2>2, <2>3
<1>6. ASSUME NEW t \in Tables, NEW k \in 0 .. Len(own[r][t])
      PROVE  Rank(db'[t], r, Len(db[t]) + k) = k
  <2> DEFINE n == Len(db[t])
             m == Len(own[r][t])
  <2>0. n \in Nat /\ m \in Nat /\ Len(db'[t]) = n + m /\ DOMAIN db[t] = 1 .. n
    BY <1>3
  <2>1. \A j \in 1 .. n : db'[t][j].run # r
    <3>1. \A j \in 1 .. n : db'[t][j] = db[t][j]
      BY <1>3
    <3> QED
      BY <2>0, <3>1 DEF Absent
  <2>2. \A j \in n + 1 .. n + m : db'[t][j].run = r
    BY <1>5, <2>0 DEF Extends
  <2> HIDE DEF n, m
  <2>3. k \in Nat /\ \A j \in n + 1 .. n + k : j \in n + 1 .. n + m
    BY <2>0 DEF m
  <2>4. \A j \in n + 1 .. n + k : db'[t][j].run = r
    BY <2>2, <2>3
  <2>5. Rank(db'[t], r, n + k) = k
    <3> DEFINE rows == db'[t]
    <3>1. /\ n \in Nat /\ k \in Nat
          /\ \A j \in 1 .. n : rows[j].run # r
          /\ \A j \in n + 1 .. n + k : rows[j].run = r
      BY <2>0, <2>1, <2>3, <2>4
    <3> HIDE DEF rows
    <3>2. Rank(rows, r, n + k) = k
      BY <3>1, RankTail
    <3> QED
      BY <3>2 DEF rows
  <2> QED
    BY <2>5 DEF n
<1>7. ASSUME NEW t \in Tables, NEW k \in 1 .. Len(own[r][t])
      PROVE  own[r][t][k] = Row(Inserted(r, t)[k].item,
                                Number(db'[Parent(t)], r, Inserted(r, t)[k].link))
  <2> DEFINE link == own[r][t][k].link
             P == Parent(t)
  <2>0. k \in DOMAIN own[r][t]
    BY <1>3
  <2>1. /\ link = 0 \/ link \in 1 .. Len(own[r][P])
        /\ own[r][t][k] = Row(own[r][t][k].item, link)
    BY <1>2, <2>0, LinkInside
  <2>2. CASE link = 0
    BY <1>4, <2>1, <2>2 DEF Number
  <2>3. CASE link # 0
    <3>1. P \in Tables /\ P \in Numbered
      BY ParentTable DEF Numbered
    <3>2. own[r][P] # <<>>
      BY <2>1, <2>3
    <3>3. proc[r].offset[P] = Len(db[P])
      <4>1. ~Taken(r, P)
        BY <3>1 DEF Refused
      <4>2. ~(Len(db[P]) > proc[r].offset[P])
        BY <3>1, <3>2, <4>1 DEF Taken
      <4>3. proc[r].offset[P] <= Len(db[P]) /\ proc[r].offset[P] \in Nat /\ Len(db[P]) \in Nat
        BY <1>2, <1>3, <3>1
      <4> QED
        BY <4>2, <4>3
    <3>4. Inserted(r, t)[k].link = link + Len(db[P])
      BY <1>4, <2>3, <3>3
    <3> HIDE DEF link, P
    <3>5. Len(db[P]) \in Nat /\ Len(own[r][P]) \in Nat /\ link \in 1 .. Len(own[r][P])
      BY <1>3, <2>1, <2>3, <3>1
    <3>6. DOMAIN db'[P] = 1 .. Len(db'[P]) /\ Len(db'[P]) = Len(db[P]) + Len(own[r][P])
          /\ db'[P][Len(db[P]) + link] = Inserted(r, P)[link]
      BY <1>3, <3>1, <3>5
    <3>10. link \in 0 .. Len(own[r][P])
      BY <3>5
    <3>7. db'[P][Len(db[P]) + link].run = r /\ Rank(db'[P], r, Len(db[P]) + link) = link
      BY <1>4, <1>6, <3>1, <3>5, <3>6, <3>10
    <3>8. Len(db[P]) + link = link + Len(db[P])
          /\ link + Len(db[P]) \in DOMAIN db'[P] /\ link + Len(db[P]) # 0
      <4> DEFINE a == Len(db[P])
                 b == Len(own[r][P])
                 c == Len(db'[P])
      <4>1. a \in Nat /\ b \in Nat /\ c = a + b /\ link \in 1 .. b /\ DOMAIN db'[P] = 1 .. c
        BY <3>5, <3>6
      <4> HIDE DEF a, b, c
      <4>2. a + link = link + a /\ link + a \in DOMAIN db'[P] /\ link + a # 0
        BY <4>1
      <4> QED
        BY <4>2 DEF a
    <3>9. Number(db'[P], r, link + Len(db[P])) = link
      BY <3>7, <3>8 DEF Number
    <3> QED
      BY <1>4, <2>1, <3>4, <3>9 DEF link, P
  <2> QED
    BY <2>2, <2>3
<1>8. ASSUME NEW t \in Tables
      PROVE  /\ Rank(db'[t], r, Len(db'[t])) = Len(own'[r][t])
             /\ \A i \in DOMAIN db'[t] : db'[t][i].run = r =>
                  own'[r][t][Rank(db'[t], r, i)]
                    = Row(db'[t][i].item, Number(db'[Parent(t)], r, db'[t][i].link))
  <2>1. Rank(db'[t], r, Len(db'[t])) = Len(own[r][t])
    <3> DEFINE m == Len(own[r][t])
    <3>1. m \in Nat /\ Len(db'[t]) = Len(db[t]) + m
      BY <1>3
    <3>2. \A j \in 0 .. m : Rank(db'[t], r, Len(db[t]) + j) = j
      BY <1>6
    <3> HIDE DEF m
    <3>3. m \in 0 .. m
      BY <3>1
    <3>4. Rank(db'[t], r, Len(db[t]) + m) = m
      BY <3>2, <3>3
    <3> QED
      BY <3>1, <3>4 DEF m
  <2>2. ASSUME NEW i \in DOMAIN db'[t], db'[t][i].run = r
        PROVE  own[r][t][Rank(db'[t], r, i)]
                    = Row(db'[t][i].item, Number(db'[Parent(t)], r, db'[t][i].link))
    <3> DEFINE n == Len(db[t])
               m == Len(own[r][t])
               k == i - n
    <3>0. n \in Nat /\ m \in Nat /\ Len(db'[t]) = n + m /\ DOMAIN db[t] = 1 .. n
          /\ DOMAIN db'[t] = 1 .. Len(db'[t])
      BY <1>3
    <3>1. i \notin 1 .. n
      <4>1. \A j \in 1 .. Len(db[t]) : db'[t][j] = db[t][j]
        BY <1>3
      <4> QED
        BY <2>2, <3>0, <4>1 DEF Absent
    <3>2. k \in 1 .. m /\ k \in 0 .. m /\ i = n + k
      <4> HIDE DEF n, m
      <4> QED
        BY <3>0, <3>1
    <3>4. \A j \in 1 .. m : db'[t][n + j] = Inserted(r, t)[j]
      BY <1>3
    <3>5. \A j \in 0 .. m : Rank(db'[t], r, n + j) = j
      BY <1>6
    <3> HIDE DEF k, n
    <3>3. Rank(db'[t], r, i) = k /\ db'[t][i] = Inserted(r, t)[k]
      BY <3>2, <3>4, <3>5
    <3> QED
      BY <1>7, <3>2, <3>3
  <2> QED
    BY <1>1, <2>1, <2>2
<1> QED
  BY <1>5, <1>8 DEF Kept

-----------------------------------------------------------------------------
(* Sums over a finite set.                                                 *)

\* What SumFunctionOnSet unfolds to.

Pick(T) == CHOOSE x \in T : TRUE
Adds(g, w, T) == IF T = {} THEN 0 ELSE w[Pick(T)] + g[T \ {Pick(T)}]
IsSum(g, w, S) == g = [T \in SUBSET S |-> Adds(g, w, T)]

LEMMA SumUnfolds ==
  ASSUME NEW w, NEW S
  PROVE  SumFunctionOnSet(w, S) = (CHOOSE g : IsSum(g, w, S))[S]
BY DEF SumFunctionOnSet, FoldFunctionOnSet, MapThenFoldSet, IsSum, Adds, Pick

LEMMA PickFacts ==
  ASSUME NEW T, IsFiniteSet(T), T # {}
  PROVE  /\ Pick(T) \in T /\ IsFiniteSet(T \ {Pick(T)})
         /\ Cardinality(T) \in Nat /\ Cardinality(T \ {Pick(T)}) \in Nat
         /\ Cardinality(T \ {Pick(T)}) = Cardinality(T) - 1
<1>1. Pick(T) \in T
  BY DEF Pick
<1> QED
  BY <1>1, FS_RemoveElement, FS_CardinalityType, FS_EmptySet

LEMMA SumExists ==
  ASSUME NEW w, NEW S, IsFiniteSet(S)
  PROVE  \E g : IsSum(g, w, S)
<1> DEFINE Up(g, n) == \A T \in SUBSET S : Cardinality(T) <= n => g[T] = Adds(g, w, T)
           bad == {n \in Nat : ~ \E g : Up(g, n)}
<1>1. ASSUME NEW T \in SUBSET S, T # {}
      PROVE  /\ T \ {Pick(T)} \in SUBSET S
             /\ Cardinality(T) \in Nat /\ Cardinality(T \ {Pick(T)}) = Cardinality(T) - 1
  BY <1>1, FS_Subset, PickFacts
<1>2. ASSUME NEW n \in Nat, n \in bad, \A k \in bad : n <= k
      PROVE  FALSE
  <2>1. CASE n = 0
    <3> DEFINE g == [T \in SUBSET S |-> 0]
    <3>1. ASSUME NEW T \in SUBSET S, Cardinality(T) <= 0 PROVE g[T] = Adds(g, w, T)
      <4>1. T = {}
        BY <3>1, FS_Subset, FS_EmptySet, FS_CardinalityType
      <4> QED
        BY <4>1 DEF Adds
    <3>2. Up(g, n)
      BY <2>1, <3>1
    <3> HIDE DEF g, Up
    <3> QED
      BY <1>2, <3>2
  <2>2. CASE n # 0
    <3>1. n - 1 \in Nat /\ n - 1 \notin bad
      BY <1>2, <2>2
    <3>2. PICK g : Up(g, n - 1)
      BY <3>1
    <3> DEFINE h == [T \in SUBSET S |-> IF Cardinality(T) <= n - 1 THEN g[T] ELSE Adds(g, w, T)]
    <3>3. ASSUME NEW T \in SUBSET S, Cardinality(T) <= n PROVE h[T] = Adds(h, w, T)
      <4>1. h[T] = Adds(g, w, T)
        BY <3>2
      <4>2. CASE T = {}
        BY <4>1, <4>2 DEF Adds
      <4>3. CASE T # {}
        <5>1. h[T \ {Pick(T)}] = g[T \ {Pick(T)}]
          BY <1>1, <3>3, <4>3
        <5> HIDE DEF h
        <5> QED
          BY <4>1, <4>3, <5>1 DEF Adds
      <4> QED
        BY <4>2, <4>3
    <3>4. Up(h, n)
      BY <3>3
    <3> HIDE DEF h, Up
    <3> QED
      BY <1>2, <3>4
  <2> QED
    BY <2>1, <2>2
<1>3. bad = {}
  <2> SUFFICES ASSUME bad # {} PROVE FALSE
    OBVIOUS
  <2>1. bad \subseteq Nat
    OBVIOUS
  <2> HIDE DEF bad
  <2> QED
    BY <1>2, <2>1, LeastNat
<1>4. Cardinality(S) \in Nat
  BY FS_CardinalityType
<1>5. PICK g : Up(g, Cardinality(S))
  BY <1>3, <1>4
<1> DEFINE h == [T \in SUBSET S |-> Adds(g, w, T)]
<1>6. ASSUME NEW T \in SUBSET S PROVE h[T] = g[T]
  BY <1>5, FS_Subset
<1>7. ASSUME NEW T \in SUBSET S PROVE h[T] = Adds(h, w, T)
  <2>1. T # {} => h[T \ {Pick(T)}] = g[T \ {Pick(T)}]
    BY <1>1, <1>6
  <2>2. h[T] = Adds(g, w, T)
    OBVIOUS
  <2> HIDE DEF h
  <2> QED
    BY <2>1, <2>2 DEF Adds
<1>8. IsSum(h, w, S)
  BY <1>7 DEF IsSum
<1> QED
  BY <1>8

\* Two sums agree on what they both add up.
LEMMA SumUnique ==
  ASSUME NEW w, NEW v, NEW S, NEW R \in SUBSET S, IsFiniteSet(S), NEW g, NEW h,
         IsSum(g, w, S), IsSum(h, v, R), \A x \in R : w[x] = v[x]
  PROVE  \A T \in SUBSET R : g[T] = h[T]
<1> DEFINE bad == {n \in Nat : \E T \in SUBSET R : Cardinality(T) = n /\ g[T] # h[T]}
<1>1. ASSUME NEW T \in SUBSET R
      PROVE  T \in SUBSET S /\ IsFiniteSet(T) /\ Cardinality(T) \in Nat
  BY FS_Subset, FS_CardinalityType
<1>2. ASSUME NEW n \in Nat, n \in bad, \A k \in bad : n <= k
      PROVE  FALSE
  <2>1. PICK T \in SUBSET R : Cardinality(T) = n /\ g[T] # h[T]
    BY <1>2
  <2>2. g[T] = Adds(g, w, T) /\ h[T] = Adds(h, v, T)
    BY <1>1 DEF IsSum
  <2>3. T # {}
    BY <2>1, <2>2 DEF Adds
  <2>4. /\ T \ {Pick(T)} \in SUBSET R /\ Pick(T) \in R
        /\ Cardinality(T \ {Pick(T)}) = n - 1 /\ n - 1 \in Nat
    BY <1>1, <2>1, <2>3, PickFacts
  <2>5. n - 1 \notin bad
    BY <1>2
  <2>6. g[T \ {Pick(T)}] = h[T \ {Pick(T)}]
    BY <2>4, <2>5
  <2> QED
    BY <2>1, <2>2, <2>3, <2>4, <2>6 DEF Adds
<1>3. bad = {}
  <2> SUFFICES ASSUME bad # {} PROVE FALSE
    OBVIOUS
  <2>1. bad \subseteq Nat
    OBVIOUS
  <2> HIDE DEF bad
  <2> QED
    BY <1>2, <2>1, LeastNat
<1> QED
  BY <1>1, <1>3

LEMMA SumValue ==
  ASSUME NEW w, NEW S, IsFiniteSet(S)
  PROVE  SumFunctionOnSet(w, S) =
           IF S = {} THEN 0 ELSE w[Pick(S)] + SumFunctionOnSet(w, S \ {Pick(S)})
<1> DEFINE g == CHOOSE f : IsSum(f, w, S)
           R == S \ {Pick(S)}
           h == CHOOSE f : IsSum(f, w, R)
<1>1. SumFunctionOnSet(w, S) = g[S] /\ SumFunctionOnSet(w, R) = h[R]
  BY SumUnfolds
<1>2. IsFiniteSet(R)
  BY FS_Subset
<1>3. IsSum(g, w, S) /\ IsSum(h, w, R)
  BY <1>2, SumExists
<1> HIDE DEF g, h
<1>4. g[S] = Adds(g, w, S)
  BY <1>3 DEF IsSum
<1>5. R \in SUBSET S /\ R \in SUBSET R
  OBVIOUS
<1> HIDE DEF R
<1>6. g[R] = h[R]
  BY <1>3, <1>5, SumUnique
<1> QED
  BY <1>1, <1>4, <1>6 DEF Adds, R

\* The element that is taken first does not matter.
LEMMA SumRemoves ==
  ASSUME NEW S, IsFiniteSet(S), NEW w \in [S -> Int]
  PROVE  /\ SumFunctionOnSet(w, {}) = 0
         /\ \A T \in SUBSET S : SumFunctionOnSet(w, T) \in Int
         /\ \A T \in SUBSET S : \A x \in T :
              SumFunctionOnSet(w, T) = w[x] + SumFunctionOnSet(w, T \ {x})
<1> DEFINE Sum(T) == SumFunctionOnSet(w, T)
           wrong(T) == \/ Sum(T) \notin Int
                       \/ \E x \in T : Sum(T) # w[x] + Sum(T \ {x})
           bad == {n \in Nat : \E T \in SUBSET S : Cardinality(T) = n /\ wrong(T)}
<1>0. Sum({}) = 0
  BY SumValue, FS_EmptySet
<1>1. ASSUME NEW T \in SUBSET S
      PROVE  IsFiniteSet(T) /\ Cardinality(T) \in Nat
  BY FS_Subset, FS_CardinalityType
<1>2. ASSUME NEW T \in SUBSET S, NEW x \in T
      PROVE  /\ T \ {x} \in SUBSET S
             /\ Cardinality(T \ {x}) = Cardinality(T) - 1 /\ Cardinality(T) - 1 \in Nat
  <2>1. Cardinality(T \ {x}) = Cardinality(T) - 1 /\ IsFiniteSet(T \ {x})
    BY <1>1, FS_RemoveElement
  <2>2. Cardinality(T \ {x}) \in Nat
    BY <2>1, FS_CardinalityType
  <2> QED
    BY <2>1, <2>2
<1> HIDE DEF Sum
<1>3. ASSUME NEW n \in Nat, n \in bad, \A k \in bad : n <= k
      PROVE  FALSE
  <2>1. PICK T \in SUBSET S : Cardinality(T) = n /\ wrong(T)
    BY <1>3
  <2>2. T # {}
    BY <1>0, <2>1
  <2> DEFINE p == Pick(T)
  <2>3. p \in T /\ Sum(T) = w[p] + Sum(T \ {p})
    BY <1>1, <2>2, SumValue DEF Pick, Sum
  <2> HIDE DEF p
  <2>4. ASSUME NEW R \in SUBSET S, Cardinality(R) = n - 1
        PROVE  ~wrong(R)
    <3>1. n - 1 \in Nat /\ n - 1 \notin bad
      BY <1>1, <1>3, <2>4
    <3> QED
      BY <2>4, <3>1
  <2>5. ASSUME NEW x \in T PROVE ~wrong(T \ {x})
    BY <1>2, <2>1, <2>4
  <2>6. \A x \in T : w[x] \in Int
    OBVIOUS
  <2>7. Sum(T) \in Int
    BY <2>3, <2>5, <2>6
  <2>8. ASSUME NEW x \in T, x # p PROVE Sum(T) = w[x] + Sum(T \ {x})
    <3>1. (T \ {p}) \ {x} = (T \ {x}) \ {p}
      OBVIOUS
    <3>2. Sum(T \ {p}) = w[x] + Sum((T \ {p}) \ {x})
      BY <2>3, <2>5, <2>8
    <3>3. Sum(T \ {x}) = w[p] + Sum((T \ {x}) \ {p})
      BY <2>3, <2>5, <2>8
    <3>4. Sum((T \ {p}) \ {x}) \in Int
      <4> DEFINE R == (T \ {p}) \ {x}
      <4>0. T \ {p} \in SUBSET S /\ x \in T \ {p} /\ Cardinality(T \ {p}) = n - 1
        BY <1>2, <2>1, <2>3, <2>8
      <4>1. R \in SUBSET S /\ Cardinality(R) = (n - 1) - 1 /\ (n - 1) - 1 \in Nat
        BY <1>2, <4>0
      <4>2. (n - 1) - 1 \notin bad
        BY <1>3, <4>1
      <4> HIDE DEF R
      <4>3. Sum(R) \in Int
        BY <4>1, <4>2
      <4> QED
        BY <4>3 DEF R
    <3>5. Sum(T) = w[p] + (w[x] + Sum((T \ {p}) \ {x}))
      BY <2>3, <3>2
    <3>6. Sum(T \ {x}) = w[p] + Sum((T \ {p}) \ {x})
      BY <3>1, <3>3
    <3>7. w[p] \in Int /\ w[x] \in Int
      BY <2>3, <2>6
    <3> QED
      BY <3>4, <3>5, <3>6, <3>7
  <2> QED
    BY <2>1, <2>3, <2>7, <2>8
<1>4. bad = {}
  <2> SUFFICES ASSUME bad # {} PROVE FALSE
    OBVIOUS
  <2>1. bad \subseteq Nat
    OBVIOUS
  <2> HIDE DEF bad
  <2> QED
    BY <1>3, <2>1, LeastNat
<1>5. \A T \in SUBSET S : ~wrong(T)
  BY <1>1, <1>4
<1> QED
  BY <1>0, <1>5 DEF Sum

\* The sum over a smaller set, of another function that agrees there.
LEMMA SumAgrees ==
  ASSUME NEW S, IsFiniteSet(S), NEW R \in SUBSET S, NEW w, NEW v, \A x \in R : w[x] = v[x]
  PROVE  SumFunctionOnSet(w, R) = SumFunctionOnSet(v, R)
<1> DEFINE g == CHOOSE f : IsSum(f, w, R)
           h == CHOOSE f : IsSum(f, v, R)
<1>1. IsFiniteSet(R) /\ R \in SUBSET R
  BY FS_Subset
<1>2. SumFunctionOnSet(w, R) = g[R] /\ SumFunctionOnSet(v, R) = h[R]
  BY SumUnfolds
<1>3. IsSum(g, w, R) /\ IsSum(h, v, R)
  BY <1>1, SumExists
<1> HIDE DEF g, h
<1> QED
  BY <1>1, <1>2, <1>3, SumUnique

-----------------------------------------------------------------------------
(* The position that a record's fills make.                                *)

LEMMA Signs ==
  ASSUME NEW q \in Int
  PROVE  /\ Sign(q) \in {-1, 0, 1} /\ Abs(q) \in Nat /\ Sign(q) * Abs(q) = q
         /\ q = Abs(q) \/ q = - Abs(q)
         /\ \A a \in Nat : Sign(q) * a \in Int
         /\ Sign(- q) = - Sign(q)
<1>1. CASE q > 0
  <2>1. Sign(q) = 1 /\ Abs(q) = q * 1 /\ Sign(- q) = -1
    BY <1>1 DEF Sign, Abs
  <2> QED
    BY <1>1, <2>1
<1>2. CASE q = 0
  <2>1. Sign(q) = 0 /\ Abs(q) = q * 0 /\ Sign(- q) = 0
    BY <1>2 DEF Sign, Abs
  <2> QED
    BY <1>2, <2>1
<1>3. CASE q < 0
  <2>1. Sign(q) = -1 /\ Abs(q) = q * (-1) /\ Sign(- q) = 1
    BY <1>3 DEF Sign, Abs
  <2> QED
    BY <1>3, <2>1
<1> QED
  BY <1>1, <1>2, <1>3

\* What one fill moves.
Flow(rec, tf, i) ==
  IF rec.orders[rec.fills[i].link].item.tf = tf
  THEN Sign(rec.orders[rec.fills[i].link].item.qty) * rec.fills[i].item ELSE 0
Flows(rec, tf) == [i \in DOMAIN rec.fills |-> Flow(rec, tf, i)]

LEMMA NetIsSum ==
  ASSUME NEW rec, NEW tf
  PROVE  Net(rec, tf) = SumFunctionOnSet(Flows(rec, tf), DOMAIN rec.fills)
<1>1. DOMAIN Flows(rec, tf) = DOMAIN rec.fills
  BY DEF Flows
<1>2. Net(rec, tf) = SumFunction(Flows(rec, tf))
  BY DEF Net, Flows, Flow
<1> QED
  BY <1>1, <1>2 DEF SumFunction

LEMMA FlowType ==
  ASSUME NEW rec \in [Tables -> Seq(OwnRows)], Sound(rec), NEW tf, NEW i \in DOMAIN rec.fills
  PROVE  Flow(rec, tf, i) \in Int
<1>1. rec.fills[i].link \in DOMAIN rec.orders /\ rec.fills[i].item \in Nat
  BY DEF Sound, Records!Linked
<1>2. rec.orders[rec.fills[i].link].item.qty \in Int
  BY <1>1 DEF Sound, Ordered
<1> DEFINE q == rec.orders[rec.fills[i].link].item.qty
           a == rec.fills[i].item
<1>3. Flow(rec, tf, i) = IF rec.orders[rec.fills[i].link].item.tf = tf THEN Sign(q) * a ELSE 0
  BY DEF Flow
<1>4. q \in Int /\ a \in Nat
  BY <1>1, <1>2
<1> HIDE DEF q, a
<1>5. Sign(q) * a \in Int
  BY <1>4, Signs
<1> QED
  BY <1>3, <1>5

LEMMA NetEmpty == ASSUME NEW tf PROVE Net(NoRows, tf) = 0
<1>1. NoRows.fills = <<>>
  BY DEF NoRows, Tables
<1>2. DOMAIN NoRows.fills = {}
  BY <1>1
<1>3. SumFunctionOnSet(Flows(NoRows, tf), {}) = 0
  BY SumValue, FS_EmptySet
<1> QED
  BY <1>2, <1>3, NetIsSum

LEMMA FillDomain ==
  ASSUME NEW rec \in [Tables -> Seq(OwnRows)]
  PROVE  /\ Len(rec.fills) \in Nat /\ DOMAIN rec.fills = 1 .. Len(rec.fills)
         /\ IsFiniteSet(DOMAIN rec.fills)
<1>1. rec.fills \in Seq(OwnRows)
  BY DEF Tables
<1> DEFINE n == Len(rec.fills)
<1>2. n \in Nat /\ DOMAIN rec.fills = 1 .. n
  BY <1>1
<1> HIDE DEF n
<1>3. IsFiniteSet(1 .. n)
  BY <1>2, FS_Interval
<1>4. IsFiniteSet(DOMAIN rec.fills)
  BY <1>2, <1>3
<1> QED
  BY <1>2, <1>4 DEF n

\* Only fills move a position.
LEMMA NetSame ==
  ASSUME NEW rec \in [Tables -> Seq(OwnRows)], Sound(rec), NEW t \in Tables \ {"fills"},
         NEW row \in OwnRows, NEW tf
  PROVE  Net(Added(rec, t, row), tf) = Net(rec, tf)
<1> DEFINE new == Added(rec, t, row)
<1>1. {"orders", "fills"} \subseteq Tables
  BY DEF Tables
<1>2. new.fills = rec.fills
  BY <1>1 DEF Added
<1>3. \A k \in DOMAIN rec.orders : new.orders[k] = rec.orders[k]
  <2>1. rec.orders \in Seq(OwnRows)
    BY <1>1
  <2>2. CASE t = "orders"
    <3>1. new.orders = Append(rec.orders, row)
      BY <1>1, <2>2 DEF Added
    <3> QED
      BY <2>1, <3>1
  <2>3. CASE t # "orders"
    <3>1. new.orders = rec.orders
      BY <1>1, <2>3 DEF Added
    <3> QED
      BY <3>1
  <2> QED
    BY <2>2, <2>3
<1> HIDE DEF new
<1>4. \A i \in DOMAIN rec.fills : Flow(new, tf, i) = Flow(rec, tf, i)
  <2> SUFFICES ASSUME NEW i \in DOMAIN rec.fills PROVE Flow(new, tf, i) = Flow(rec, tf, i)
    OBVIOUS
  <2>1. rec.fills[i].link \in DOMAIN rec.orders
    BY DEF Sound, Records!Linked
  <2> QED
    BY <1>2, <1>3, <2>1 DEF Flow
<1>5. \A i \in DOMAIN rec.fills : Flows(new, tf)[i] = Flows(rec, tf)[i]
  BY <1>2, <1>4 DEF Flows
<1> DEFINE S == DOMAIN rec.fills
<1>6. IsFiniteSet(S) /\ S \in SUBSET S
  BY FillDomain
<1> HIDE DEF S
<1>7. SumFunctionOnSet(Flows(new, tf), S) = SumFunctionOnSet(Flows(rec, tf), S)
  BY <1>5, <1>6, SumAgrees DEF S
<1> QED
  BY <1>2, <1>7, NetIsSum DEF S, new

\* A fill moves it by what it filled.
LEMMA NetFilled ==
  ASSUME NEW rec \in [Tables -> Seq(OwnRows)], Sound(rec), NEW row \in OwnRows, NEW tf,
         row.link \in DOMAIN rec.orders, row.item \in Nat, NEW q \in Int,
         rec.orders[row.link].item.qty = q, row.item = Abs(q)
  PROVE  Net(Added(rec, "fills", row), tf)
           = Net(rec, tf) + (IF rec.orders[row.link].item.tf = tf THEN q ELSE 0)
<1> DEFINE new == Added(rec, "fills", row)
           n == Len(rec.fills)
           S == 1 .. n + 1
           R == 1 .. n
<1>1. {"orders", "fills"} \subseteq Tables
  BY DEF Tables
<1>2. new.orders = rec.orders /\ new.fills = Append(rec.fills, row)
  BY <1>1 DEF Added
<1>3. n \in Nat /\ DOMAIN rec.fills = R /\ rec.fills \in Seq(OwnRows)
  BY <1>1, FillDomain
<1>4. DOMAIN new.fills = S /\ new.fills[n + 1] = row /\ \A i \in R : new.fills[i] = rec.fills[i]
  <2> HIDE DEF new
  <2>1. Len(new.fills) = n + 1 /\ DOMAIN new.fills = 1 .. Len(new.fills)
    BY <1>2, <1>3
  <2>2. new.fills[n + 1] = row
    BY <1>2, <1>3
  <2>3. \A i \in R : new.fills[i] = rec.fills[i]
    BY <1>2, <1>3
  <2> QED
    BY <2>1, <2>2, <2>3
<1> HIDE DEF new, n
<1>5. IsFiniteSet(S) /\ R \in SUBSET S /\ S \in SUBSET S /\ n + 1 \in S /\ S \ {n + 1} = R
  <2>1. IsFiniteSet(S)
    BY <1>3, FS_Interval
  <2> QED
    BY <1>3, <2>1
<1> HIDE DEF S, R
<1>6. \A i \in R : Flow(new, tf, i) = Flow(rec, tf, i) /\ Flow(rec, tf, i) \in Int
  BY <1>2, <1>3, <1>4, FlowType DEF Flow
<1>7. Flow(new, tf, n + 1) = IF rec.orders[row.link].item.tf = tf THEN q ELSE 0
  BY <1>2, <1>4, Signs DEF Flow
<1>8. Flows(new, tf) \in [S -> Int]
  <2>1. \A i \in S : i = n + 1 \/ i \in R
    BY <1>5
  <2>2. \A i \in S : Flow(new, tf, i) \in Int
    BY <1>6, <1>7, <2>1
  <2> QED
    BY <1>4, <2>2 DEF Flows
<1>9. \A i \in R : Flows(new, tf)[i] = Flows(rec, tf)[i]
  BY <1>3, <1>4, <1>5, <1>6 DEF Flows
<1>10. SumFunctionOnSet(Flows(new, tf), R) = SumFunctionOnSet(Flows(rec, tf), R)
  BY <1>5, <1>9, SumAgrees
<1>11. /\ SumFunctionOnSet(Flows(new, tf), S)
            = Flows(new, tf)[n + 1] + SumFunctionOnSet(Flows(new, tf), S \ {n + 1})
       /\ SumFunctionOnSet(Flows(new, tf), R) \in Int
  <2> DEFINE w == Flows(new, tf)
  <2>1. w \in [S -> Int]
    BY <1>8
  <2> HIDE DEF w
  <2>2. /\ \A T \in SUBSET S : SumFunctionOnSet(w, T) \in Int
        /\ \A T \in SUBSET S : \A x \in T :
              SumFunctionOnSet(w, T) = w[x] + SumFunctionOnSet(w, T \ {x})
    BY <1>5, <2>1, SumRemoves
  <2>3. SumFunctionOnSet(w, S) = w[n + 1] + SumFunctionOnSet(w, S \ {n + 1})
    BY <1>5, <2>2
  <2>4. SumFunctionOnSet(w, R) \in Int
    BY <1>5, <2>2
  <2> QED
    BY <2>3, <2>4 DEF w
<1>12. Flows(new, tf)[n + 1] = Flow(new, tf, n + 1)
  BY <1>4, <1>5 DEF Flows
<1>13. Net(new, tf) = SumFunctionOnSet(Flows(new, tf), S) /\ Net(rec, tf) = SumFunctionOnSet(Flows(rec, tf), R)
  BY <1>3, <1>4, NetIsSum
<1>14. Net(new, tf) = Net(rec, tf) + (IF rec.orders[row.link].item.tf = tf THEN q ELSE 0)
  <2> DEFINE a == SumFunctionOnSet(Flows(new, tf), S)
             b == SumFunctionOnSet(Flows(new, tf), R)
             c == IF rec.orders[row.link].item.tf = tf THEN q ELSE 0
  <2>1. a = c + b /\ b \in Int /\ c \in Int
    <3>1. b \in Int /\ c \in Int
      BY <1>11
    <3>2. SumFunctionOnSet(Flows(new, tf), S \ {n + 1}) = b
      BY <1>5
    <3>3. Flows(new, tf)[n + 1] = c
      BY <1>7, <1>12
    <3>4. a = Flows(new, tf)[n + 1] + SumFunctionOnSet(Flows(new, tf), S \ {n + 1})
      BY <1>11
    <3> HIDE DEF a, b, c
    <3> QED
      BY <3>1, <3>2, <3>3, <3>4
  <2>2. Net(new, tf) = a /\ Net(rec, tf) = b
    BY <1>10, <1>13
  <2> HIDE DEF a, b, c
  <2>3. Net(new, tf) = Net(rec, tf) + c
    BY <2>1, <2>2
  <2> QED
    BY <2>3 DEF c
<1> QED
  BY <1>14 DEF new

\* It is a whole number.
LEMMA NetType ==
  ASSUME NEW rec \in [Tables -> Seq(OwnRows)], Sound(rec), NEW tf
  PROVE  Net(rec, tf) \in Int
<1> DEFINE S == DOMAIN rec.fills
           w == Flows(rec, tf)
<1>1. w \in [S -> Int]
  BY FlowType DEF Flows
<1>2. IsFiniteSet(S) /\ S \in SUBSET S
  BY FillDomain
<1> HIDE DEF S, w
<1>3. SumFunctionOnSet(w, S) \in Int
  BY <1>1, <1>2, SumRemoves
<1> QED
  BY <1>3, NetIsSum DEF S, w

-----------------------------------------------------------------------------
(* The inductive invariant.                                                *)

\* An in-memory run that has not come to its end has stored nothing.
Early(r) == Buffers(r) /\ proc[r].pc \notin {"end", "over", "dead"}
StoreInv(r) == IF Early(r) THEN Absent(r) ELSE Kept(r)

\* A run that has begun is running until its end, and one that has not has nothing.
StatusInv(r) ==
  /\ In(r, "new") <=> status[r] = "new"
  /\ Alive(r) => status[r] = "running"
  /\ status[r] \in {"done", "halted", "error"} => In(r, "over")
  /\ In(r, "new") => own[r] = NoRows /\ Absent(r)
  /\ proc[r].failed => In(r, "end")

\* The intent in hand is that of the last signal, and the numbers in hand are those
\* of the last signal and the last order.
HandInv(r) ==
  /\ proc[r].pc \in {"intent", "judge", "order", "fill"} => proc[r].todo # <<>>
  /\ proc[r].pc \in {"judge", "order", "fill"} =>
       Denotes(r, "signals", proc[r].signal) /\ Last(own[r].signals).item = Intent(r)
  /\ In(r, "fill") => Denotes(r, "orders", proc[r].order)

\* Only an in-memory run flushes; what it read of the tables is not beyond them.
FlushInv(r) ==
  /\ proc[r].pc \in {"flush", "insert"} => Buffers(r)
  /\ In(r, "insert") => \A t \in Tables : proc[r].offset[t] <= Len(db[t])

\* The position is that of the fills, and the strategy has been shown it.
HoldsPosition(r) == proc[r].pc \notin {"over", "dead"} /\ ~proc[r].failed
PosInv(r) == HoldsPosition(r) => \A tf \in Tfs : position[r][tf] = Net(own[r], tf)
SideInv(r) ==
  HoldsPosition(r) /\ proc[r].pc \in {"new", "bar", "flush", "insert", "end"} =>
    \A tf \in Tfs : side[r][tf] = Sign(position[r][tf])

RunInv(r) ==
  /\ Sound(own[r]) /\ StoreInv(r) /\ StatusInv(r) /\ HandInv(r) /\ FlushInv(r)
  /\ PosInv(r) /\ SideInv(r)

IInv == TypeOK /\ \A r \in Runs : RunInv(r)

-----------------------------------------------------------------------------
(* A step of one run leaves the others as they are.                        *)

OthersSame(r) ==
  \A s \in Runs \ {r} :
    /\ own'[s] = own[s] /\ proc'[s] = proc[s] /\ status'[s] = status[s]
    /\ side'[s] = side[s] /\ position'[s] = position[s]

LEMMA DenotesStays ==
  ASSUME RowsOK, RowsOK', NEW r \in Runs, Extends(r), NEW s \in Runs, NEW t \in Tables, NEW id,
         own'[s][t] = own[s][t], proc'[s].engine = proc[s].engine, Denotes(s, t, id)
  PROVE  Denotes(s, t, id)'
<1>1. Buffers(s)' <=> Buffers(s)
  BY DEF Buffers
<1>2. CASE Buffers(s)
  BY <1>1, <1>2 DEF Denotes
<1>3. CASE ~Buffers(s)
  <2>1. id \in DOMAIN db[t] /\ db[t][id].run = s /\ Rank(db[t], s, id) = Len(own[s][t])
    BY <1>3 DEF Denotes
  <2>2. id \in DOMAIN db'[t] /\ db'[t][id] = db[t][id] /\ id \in 0 .. Len(db[t])
    BY <2>1, ExtendedRows
  <2>3. Rank(db'[t], s, id) = Rank(db[t], s, id)
    BY <2>2, ExtendedRanks
  <2> QED
    BY <1>1, <1>3, <2>1, <2>2, <2>3 DEF Denotes
<1> QED
  BY <1>2, <1>3

LEMMA OthersInv ==
  ASSUME TypeOK, RowsOK', NEW r \in Runs, Extends(r), OthersSame(r),
         NEW s \in Runs, s # r, RunInv(s)
  PROVE  RunInv(s)'
<1>0. RowsOK
  BY DEF TypeOK
<1>1. /\ own'[s] = own[s] /\ proc'[s] = proc[s] /\ status'[s] = status[s]
      /\ side'[s] = side[s] /\ position'[s] = position[s]
  BY DEF OthersSame
<1>2. (Kept(s) => Kept(s)') /\ (Absent(s) => Absent(s)')
  BY <1>0, <1>1, OthersKept
<1>3. Sound(own[s])'
  BY <1>1 DEF RunInv
<1>4. StoreInv(s)'
  BY <1>1, <1>2 DEF RunInv, StoreInv, Early, Buffers
<1>5. StatusInv(s)'
  BY <1>1, <1>2 DEF RunInv, StatusInv, Alive, In
<1>6. HandInv(s)'
  <2>1. \A t \in Tables : \A id : Denotes(s, t, id) => Denotes(s, t, id)'
    BY <1>0, <1>1, DenotesStays
  <2>2. {"signals", "orders"} \subseteq Tables
    BY DEF Tables
  <2>3. ASSUME NEW t \in Tables, NEW id, Denotes(s, t, id)
        PROVE  Denotes(s, t, id)'
    BY <2>1, <2>3
  <2>4. Denotes(s, "signals", proc[s].signal) => Denotes(s, "signals", proc[s].signal)'
    <3>1. \A id : Denotes(s, "signals", id) => Denotes(s, "signals", id)'
      BY <2>1, <2>2
    <3>2. ASSUME Denotes(s, "signals", proc[s].signal)
          PROVE  Denotes(s, "signals", proc[s].signal)'
      BY <1>1, <3>1, <3>2 DEF Denotes, Buffers
    <3> QED
      BY <3>2
  <2>5. Denotes(s, "orders", proc[s].order) => Denotes(s, "orders", proc[s].order)'
    <3>1. \A id : Denotes(s, "orders", id) => Denotes(s, "orders", id)'
      BY <2>1, <2>2
    <3>2. ASSUME Denotes(s, "orders", proc[s].order)
          PROVE  Denotes(s, "orders", proc[s].order)'
      BY <1>1, <3>1, <3>2 DEF Denotes, Buffers
    <3> QED
      BY <3>2
  <2> QED
    BY <1>1, <2>4, <2>5 DEF RunInv, HandInv, In, Intent
<1>7. FlushInv(s)'
  <2>1. ASSUME In(s, "insert"), NEW t \in Tables PROVE proc[s].offset[t] <= Len(db'[t])
    <3>1. proc[s].offset \in [Tables -> Nat]
      BY DEF TypeOK, Procs
    <3>2. proc[s].offset[t] <= Len(db[t]) /\ Len(db[t]) <= Len(db'[t])
      BY <2>1 DEF RunInv, FlushInv, Extends
    <3>3. Len(db[t]) \in Nat /\ Len(db'[t]) \in Nat
      BY <1>0, Lengths, NextLengths
    <3> DEFINE a == proc[s].offset[t]
               b == Len(db[t])
               c == Len(db'[t])
    <3>4. a \in Nat /\ b \in Nat /\ c \in Nat /\ a <= b /\ b <= c
      BY <3>1, <3>2, <3>3
    <3> HIDE DEF a, b, c
    <3>5. a <= c
      BY <3>4
    <3> QED
      BY <3>5 DEF a, c
  <2> QED
    BY <1>1, <2>1 DEF RunInv, FlushInv, In, Buffers
<1>8. PosInv(s)' /\ SideInv(s)'
  BY <1>1 DEF RunInv, PosInv, SideInv, HoldsPosition
<1> QED
  BY <1>3, <1>4, <1>5, <1>6, <1>7, <1>8 DEF RunInv
-----------------------------------------------------------------------------
(* What every put does, whichever action puts.                             *)

LEMMA PutKeeps ==
  ASSUME RowsOK, NEW r \in Runs, NEW t \in Tables, NEW item \in Items, NEW link \in Nat,
         Put(r, t, item, link), proc'[r].engine = proc[r].engine,
         Sound(own[r]), StoreInv(r), Fits(own[r], t, item, OwnLink(r, t, link)),
         proc[r].pc \notin {"end", "over", "dead"},
         Buffers(r) => proc'[r].pc \notin {"end", "over", "dead"},
         Buffers(r) \/ link = 0 \/ (Parent(t) # t /\ Denotes(r, Parent(t), link))
  PROVE  /\ RowsOK' /\ Extends(r) /\ Sound(own[r])' /\ StoreInv(r)'
         /\ own'[r] = Added(own[r], t, Row(item, OwnLink(r, t, link)))
         /\ Row(item, OwnLink(r, t, link)) \in OwnRows
         /\ \A s \in Runs \ {r} : own'[s] = own[s]
<1>1. /\ db' \in [Tables -> Seq(DbRows)] /\ own' \in [Runs -> [Tables -> Seq(OwnRows)]]
      /\ Row(item, OwnLink(r, t, link)) \in OwnRows
      /\ own'[r] = Added(own[r], t, Row(item, OwnLink(r, t, link)))
      /\ \A s \in Runs \ {r} : own'[s] = own[s]
      /\ Buffers(r) => UNCHANGED db
      /\ Extends(r)
  BY PutShape
<1>2. RowsOK'
  BY <1>1 DEF RowsOK
<1>3. Sound(own[r])'
  <2>1. own[r] \in [Tables -> Seq(OwnRows)]
    BY DEF RowsOK
  <2>2. Sound(Added(own[r], t, Row(item, OwnLink(r, t, link))))
    BY <1>1, <2>1, SoundGrows
  <2> QED
    BY <1>1, <2>2
<1>4. StoreInv(r)'
  <2>1. CASE Buffers(r)
    <3>1. Absent(r)
      BY <2>1 DEF StoreInv, Early
    <3>2. Absent(r)'
      BY <1>1, <2>1, <3>1 DEF Absent
    <3> QED
      BY <2>1, <3>2 DEF StoreInv, Early, Buffers
  <2>2. CASE ~Buffers(r)
    <3>1. Kept(r)
      BY <2>2 DEF StoreInv, Early
    <3>2. Kept(r)'
      BY <1>2, <2>2, <3>1, PutKept
    <3> QED
      BY <2>2, <3>2 DEF StoreInv, Early, Buffers
  <2> QED
    BY <2>1, <2>2
<1> QED
  BY <1>1, <1>2, <1>3, <1>4

\* The number that the new row will have is known before it is put.
LEMMA NextDenotes ==
  ASSUME RowsOK, RowsOK', NEW r \in Runs, NEW t \in Tables, NEW item \in Items, NEW link \in Nat,
         Put(r, t, item, link), proc'[r].engine = proc[r].engine,
         Buffers(r) \/ Kept(r)'
  PROVE  \A id : id = NextId(r, t) => Denotes(r, t, id)'
<1>1. /\ own'[r] = Added(own[r], t, Row(item, OwnLink(r, t, link)))
      /\ ~Buffers(r) => db' = [db EXCEPT ![t] = Append(@, RowOf(r, item, link))]
  BY PutShape
<1>2. Buffers(r)' <=> Buffers(r)
  BY DEF Buffers
<1>3. own[r][t] \in Seq(OwnRows) /\ own'[r][t] = Append(own[r][t], Row(item, OwnLink(r, t, link)))
  BY <1>1 DEF RowsOK, Added
<1>4. own'[r][t] # <<>> /\ Len(own'[r][t]) = Len(own[r][t]) + 1 /\ Len(own[r][t]) \in Nat
  BY <1>3
<1>5. CASE Buffers(r)
  BY <1>2, <1>4, <1>5 DEF Denotes, NextId
<1>6. CASE ~Buffers(r)
  <2>1. db[t] \in Seq(DbRows) /\ db'[t] = Append(db[t], RowOf(r, item, link))
    BY <1>1, <1>6 DEF RowsOK
  <2> DEFINE n == Len(db[t]) + 1
  <2>2. Len(db'[t]) = n /\ DOMAIN db'[t] = 1 .. n /\ n \in Nat \ {0} /\ db'[t][n] = RowOf(r, item, link)
    BY <2>1
  <2>3. NextId(r, t) = n
    BY <1>6, <2>1 DEF NextId
  <2> HIDE DEF n
  <2>4. n \in DOMAIN db'[t] /\ db'[t][n].run = r
    BY <2>2 DEF RowOf
  <2>5. Rank(db'[t], r, n) = Len(own'[r][t])
    BY <1>6, <2>2 DEF Kept
  <2> QED
    BY <1>2, <1>4, <1>6, <2>3, <2>4, <2>5 DEF Denotes
<1> QED
  BY <1>5, <1>6

\* The last row of a table is the new one, and the numbers of other tables mean what they did.
LEMMA PutElsewhere ==
  ASSUME RowsOK, RowsOK', NEW r \in Runs, NEW t \in Tables, NEW row \in OwnRows, Extends(r),
         own'[r] = Added(own[r], t, row), proc'[r].engine = proc[r].engine
  PROVE  /\ Last(own'[r][t]) = row /\ own'[r][t] # <<>>
         /\ \A u \in Tables \ {t} :
              /\ own'[r][u] = own[r][u]
              /\ \A id : Denotes(r, u, id) => Denotes(r, u, id)'
<1>1. own[r][t] \in Seq(OwnRows) /\ own'[r][t] = Append(own[r][t], row)
  BY DEF RowsOK, Added
<1>2. Len(own'[r][t]) = Len(own[r][t]) + 1 /\ own'[r][t][Len(own[r][t]) + 1] = row /\ Len(own[r][t]) \in Nat
  BY <1>1
<1>3. Last(own'[r][t]) = row /\ own'[r][t] # <<>>
  BY <1>2 DEF Last
<1>4. \A u \in Tables \ {t} : own'[r][u] = own[r][u]
  BY DEF Added, RowsOK
<1>5. \A u \in Tables \ {t} : \A id : Denotes(r, u, id) => Denotes(r, u, id)'
  BY <1>4, DenotesStays
<1> QED
  BY <1>3, <1>4, <1>5
-----------------------------------------------------------------------------
(* The parts of a step that several actions share.                         *)

LEMMA QuietKeeps ==
  ASSUME RowsOK, NEW r \in Runs, UNCHANGED <<db, own>>
  PROVE  /\ RowsOK' /\ Extends(r)
         /\ Sound(own[r]) => Sound(own[r])'
         /\ Kept(r) => Kept(r)'
         /\ Absent(r) => Absent(r)'
         /\ proc'[r].engine = proc[r].engine => \A t, id : Denotes(r, t, id) => Denotes(r, t, id)'
<1>1. RowsOK'
  BY DEF RowsOK
<1>2. Extends(r)
  BY Lengths DEF Extends
<1>3. (Kept(r) => Kept(r)') /\ (Absent(r) => Absent(r)')
  BY DEF Kept, Absent
<1>4. Sound(own[r]) => Sound(own[r])'
  OBVIOUS
<1>5. proc'[r].engine = proc[r].engine => \A t, id : Denotes(r, t, id) => Denotes(r, t, id)'
  BY DEF Denotes, Buffers
<1> QED
  BY <1>1, <1>2, <1>3, <1>4, <1>5

\* A bar, a snapshot or a risk event is put, or nothing is.
Notes(r) ==
  \/ UNCHANGED <<db, own>>
  \/ \E t \in {"bars", "snapshots", "events"}, item \in Items, link \in Nat :
       Put(r, t, item, link) /\ (link = 0 \/ (t = "events" /\ Denotes(r, "signals", link)))

LEMMA NotesKeep ==
  ASSUME TypeOK, NEW r \in Runs, RunInv(r), Notes(r), proc'[r].engine = proc[r].engine,
         proc[r].pc \notin {"end", "over", "dead"},
         Buffers(r) => proc'[r].pc \notin {"end", "over", "dead"}
  PROVE  /\ RowsOK' /\ Extends(r) /\ Sound(own[r])' /\ StoreInv(r)'
         /\ \A s \in Runs \ {r} : own'[s] = own[s]
         /\ own'[r].signals = own[r].signals
         /\ \A t \in {"signals", "orders"} : \A id : Denotes(r, t, id) => Denotes(r, t, id)'
         /\ \A tf : Net(own[r], tf)' = Net(own[r], tf)
<1>0. RowsOK /\ Sound(own[r]) /\ StoreInv(r)
  BY DEF TypeOK, RunInv
<1>1. CASE UNCHANGED <<db, own>>
  <2>1. /\ RowsOK' /\ Extends(r) /\ Sound(own[r])'
        /\ (Kept(r) => Kept(r)') /\ (Absent(r) => Absent(r)')
        /\ \A t, id : Denotes(r, t, id) => Denotes(r, t, id)'
    BY <1>0, <1>1, QuietKeeps
  <2>2. StoreInv(r)'
    BY <1>0, <2>1 DEF StoreInv, Early, Buffers
  <2>3. \A tf : Net(own[r], tf)' = Net(own[r], tf)
    BY <1>1
  <2> QED
    BY <1>1, <2>1, <2>2, <2>3
<1>2. CASE ~UNCHANGED <<db, own>>
  <2>1. PICK t \in {"bars", "snapshots", "events"}, item \in Items, link \in Nat :
          Put(r, t, item, link) /\ (link = 0 \/ (t = "events" /\ Denotes(r, "signals", link)))
    BY <1>2 DEF Notes
  <2> DEFINE l == OwnLink(r, t, link)
             row == Row(item, l)
  <2>2. t \in Tables /\ t # "signals" /\ t # "orders" /\ t # "fills" /\ Parent(t) = "signals"
        /\ {"signals", "orders", "fills"} \subseteq Tables
    BY DEF Tables, Parent
  <2>3. Fits(own[r], t, item, l)
    <3>1. CASE t = "events"
      <4>1. own[r].signals \in Seq(OwnRows)
        BY <1>0, <2>2 DEF RowsOK
      <4>2. l = 0 \/ l = Len(own[r].signals)
        BY <2>1, <2>2 DEF OwnLink, Denotes
      <4>3. Len(own[r].signals) \in Nat
        BY <4>1
      <4> HIDE DEF l
      <4>4. l \in 0 .. Len(own[r].signals)
        BY <4>2, <4>3
      <4> QED
        BY <3>1, <4>4 DEF Fits
    <3>2. CASE t # "events"
      <4>1. l = 0
        BY <2>1, <3>2 DEF OwnLink
      <4> QED
        BY <2>2, <3>2, <4>1 DEF Fits
    <3> QED
      BY <3>1, <3>2
  <2> HIDE DEF l
  <2>4. Buffers(r) \/ link = 0 \/ (Parent(t) # t /\ Denotes(r, Parent(t), link))
    BY <2>1, <2>2
  <2>5. /\ RowsOK' /\ Extends(r) /\ Sound(own[r])' /\ StoreInv(r)'
        /\ own'[r] = Added(own[r], t, row) /\ row \in OwnRows
        /\ \A s \in Runs \ {r} : own'[s] = own[s]
    BY <1>0, <2>1, <2>2, <2>3, <2>4, PutKeeps DEF l
  <2> HIDE DEF row
  <2>6. \A u \in Tables \ {t} :
              /\ own'[r][u] = own[r][u]
              /\ \A id : Denotes(r, u, id) => Denotes(r, u, id)'
    BY <1>0, <2>2, <2>5, PutElsewhere
  <2>7. \A tf : Net(own[r], tf)' = Net(own[r], tf)
    <3>1. own[r] \in [Tables -> Seq(OwnRows)] /\ t \in Tables \ {"fills"}
      BY <1>0, <2>2 DEF RowsOK
    <3>2. \A tf : Net(Added(own[r], t, row), tf) = Net(own[r], tf)
      BY <1>0, <2>5, <3>1, NetSame
    <3> QED
      BY <2>5, <3>2
  <2> QED
    BY <2>2, <2>5, <2>6, <2>7
<1> QED
  BY <1>1, <1>2

\* What has to be shown of a step of a run.
Good(r) == TypeOK' /\ RunInv(r)' /\ Extends(r) /\ OthersSame(r)

LEMMA ProcTypes ==
  ASSUME TypeOK, NEW r \in Runs
  PROVE  /\ proc[r] \in Procs /\ proc \in [Runs -> Procs]
         /\ proc[r].pc \in Stages /\ proc[r].todo \in Seq(Asked)
         /\ proc[r].bar \in [tf : Tfs \cup {"1m"}, ts : Nat]
         /\ proc[r].minute \in Nat /\ proc[r].bars \in Nat
BY DEF TypeOK, Procs

LEMMA NewProcType ==
  ASSUME NEW setup \in {"none", "backtest", "paper", "inmemory"} \X {"none", "breakout", "burst"}
  PROVE  /\ NewProc(setup) \in Procs
         /\ NewProc(setup).pc = "bar" /\ NewProc(setup).engine = setup[1]
         /\ NewProc(setup).todo = <<>> /\ ~NewProc(setup).failed
<1>1. NoOffsets \in [Tables -> Nat] /\ NoBar \in [tf : Tfs \cup {"1m"}, ts : Nat]
  BY DEF NoOffsets, NoBar
<1>2. <<>> \in Seq(Asked)
  OBVIOUS
<1>3. setup[1] \in {"none", "backtest", "paper", "inmemory"} /\ setup[2] \in {"none", "breakout", "burst"}
  OBVIOUS
<1> QED
  BY <1>1, <1>2, <1>3 DEF NewProc, Procs, Stages

LEMMA StartGood ==
  ASSUME IInv, NEW r \in Runs, Start(r)
  PROVE  Good(r)
<1> USE DEF Good
<1>0. TypeOK /\ RowsOK /\ RunInv(r) /\ In(r, "new") /\ UNCHANGED <<db, own, side, held, position>>
  BY DEF IInv, TypeOK, Start
<1>1. PICK setup \in Setups[r] : proc' = [proc EXCEPT ![r] = NewProc(setup)]
  BY DEF Start
<1>2. /\ proc'[r] = NewProc(setup) /\ \A s \in Runs \ {r} : proc'[s] = proc[s]
      /\ status'[r] = "running" /\ \A s \in Runs \ {r} : status'[s] = status[s]
      /\ status' \in [Runs -> {"new", "running", "done", "halted", "error"}]
  BY <1>0, <1>1 DEF Start, TypeOK
<1>3. setup \in {"none", "backtest", "paper", "inmemory"} \X {"none", "breakout", "burst"}
  BY PaperAssumption
<1>4. /\ proc'[r] \in Procs /\ proc'[r].pc = "bar" /\ proc'[r].todo = <<>> /\ ~proc'[r].failed
  BY <1>2, <1>3, NewProcType
<1>5. /\ RowsOK' /\ Extends(r) /\ Sound(own[r])' /\ (Kept(r) => Kept(r)') /\ (Absent(r) => Absent(r)')
  BY <1>0, QuietKeeps DEF RunInv
<1>6. TypeOK'
  BY <1>0, <1>1, <1>2, <1>4, <1>5 DEF TypeOK
<1>7. own[r] = NoRows /\ Absent(r) /\ ~proc[r].failed
  BY <1>0 DEF RunInv, StatusInv, In
<1>8. StoreInv(r)'
  BY <1>0, <1>5, <1>7, AbsentKept DEF StoreInv
<1>9. StatusInv(r)'
  BY <1>2, <1>4 DEF StatusInv, In, Alive
<1>10. HandInv(r)' /\ FlushInv(r)'
  BY <1>4 DEF HandInv, FlushInv, In
<1>11. PosInv(r)' /\ SideInv(r)'
  BY <1>0, <1>7 DEF RunInv, PosInv, SideInv, HoldsPosition, In
<1>12. OthersSame(r)
  BY <1>0, <1>2 DEF OthersSame
<1> QED
  BY <1>5, <1>6, <1>8, <1>9, <1>10, <1>11, <1>12 DEF RunInv
LEMMA IntentsType ==
  ASSUME TypeOK, NEW r \in Runs, NEW tf \in Tfs, NEW place \in Places
  PROVE  Intents(r, tf, place) \in Seq(Asked)
<1> DEFINE s == side[r][tf]
<1>1. s \in {-1, 0, 1} /\ place \in Int
  BY PaperAssumption DEF TypeOK
<1>2. Sign(place) \in {-1, 0, 1} /\ - s \in {-1, 0, 1}
  <2>1. Sign(place) \in {-1, 0, 1}
    BY <1>1, Signs
  <2> HIDE DEF s
  <2>2. - s \in {-1, 0, 1}
    BY <1>1
  <2> QED
    BY <2>1, <2>2
<1>3. \A d \in {-1, 0, 1} : Enter(tf, d) \in Asked
  BY DEF Enter, Asked
<1>4. Exit(tf) \in Asked
  BY DEF Exit, Asked
<1>5. \A x \in Asked, y \in Asked : <<x>> \in Seq(Asked) /\ <<x, y>> \in Seq(Asked) /\ <<>> \in Seq(Asked)
  OBVIOUS
<1>6. Breakout(tf, s, place) \in Seq(Asked) /\ Burst(r, tf, s, place) \in Seq(Asked)
  <2> HIDE DEF s
  <2>1. Enter(tf, Sign(place)) \in Asked /\ Enter(tf, - s) \in Asked
    BY <1>2, <1>3
  <2>2. /\ <<Enter(tf, Sign(place))>> \in Seq(Asked) /\ <<Exit(tf)>> \in Seq(Asked) /\ <<>> \in Seq(Asked)
        /\ <<Exit(tf), Enter(tf, - s)>> \in Seq(Asked)
    BY <1>4, <1>5, <2>1
  <2> QED
    BY <2>2 DEF Breakout, Burst
<1> QED
  BY <1>6 DEF Intents

LEMMA PutBarNotes ==
  ASSUME NEW r \in Runs, NEW ts \in Nat, PutBar(r, ts)
  PROVE  Notes(r)
<1>1. ts \in Items /\ 0 \in Nat
  BY DEF Items
<1>2. (db' = db /\ own' = own) \/ Put(r, "bars", ts, 0)
  BY DEF PutBar
<1> QED
  BY <1>1, <1>2 DEF Notes

LEMMA TakeTfGood ==
  ASSUME IInv, NEW r \in Runs, TakeTf(r)
  PROVE  Good(r)
<1> USE DEF Good
<1>0. TypeOK /\ RunInv(r) /\ In(r, "bar") /\ UNCHANGED <<status, position>>
  BY DEF IInv, TakeTf
<1>1. PICK tf \in Tfs, place \in Places :
       /\ OnBar(r, tf, Intents(r, tf, place))
       /\ proc' = [proc EXCEPT ![r].pc = IF Intents(r, tf, place) = <<>> THEN "mirror" ELSE "intent",
                               ![r].bars = @ + 1,
                               ![r].bar = [tf |-> tf, ts |-> Boundary(r)], ![r].todo = Intents(r, tf, place)]
       /\ IF proc[r].engine = "paper" THEN PutBar(r, Boundary(r)) ELSE UNCHANGED <<db, own>>
  BY DEF TakeTf
<1> DEFINE intents == Intents(r, tf, place)
<1>2. intents \in Seq(Asked)
  BY <1>0, IntentsType
<1>3. Boundary(r) \in Nat
  BY <1>0, ProcTypes DEF Boundary
<1> DEFINE stage == IF intents = <<>> THEN "mirror" ELSE "intent"
           bar == [tf |-> tf, ts |-> Boundary(r)]
           bars == proc[r].bars + 1
<1>4. proc' = [proc EXCEPT ![r] = [@ EXCEPT !.pc = stage, !.bars = bars, !.bar = bar, !.todo = intents]]
  <2>1. proc' = [proc EXCEPT ![r].pc = stage, ![r].bars = @ + 1, ![r].bar = bar, ![r].todo = intents]
    BY <1>1
  <2> HIDE DEF stage, bar, intents
  <2> QED
    BY <1>0, <2>1, ProcTypes DEF Procs
<1> HIDE DEF intents
<1>5. /\ proc'[r].pc = (IF intents = <<>> THEN "mirror" ELSE "intent")
      /\ proc'[r].todo = intents /\ proc'[r].failed = proc[r].failed /\ proc'[r].engine = proc[r].engine
      /\ \A s \in Runs \ {r} : proc'[s] = proc[s]
  BY <1>0, <1>4, ProcTypes DEF Procs
<1>6. proc' \in [Runs -> Procs]
  <2>1. bar \in [tf : Tfs \cup {"1m"}, ts : Nat]
    BY <1>3
  <2>2. bars \in Nat
    BY <1>0, ProcTypes
  <2>3. stage \in Stages
    BY DEF Stages
  <2>4. proc[r] \in Procs /\ proc \in [Runs -> Procs]
    BY <1>0, ProcTypes
  <2> HIDE DEF bar, bars, stage
  <2>5. [proc[r] EXCEPT !.pc = stage, !.bars = bars, !.bar = bar, !.todo = intents] \in Procs
    BY <1>2, <2>1, <2>2, <2>3, <2>4 DEF Procs
  <2> QED
    BY <1>4, <2>4, <2>5
<1>7. Notes(r)
  BY <1>1, <1>3, PutBarNotes DEF Notes
<1>8. /\ RowsOK' /\ Extends(r) /\ Sound(own[r])' /\ StoreInv(r)'
      /\ \A s \in Runs \ {r} : own'[s] = own[s]
      /\ \A f : Net(own[r], f)' = Net(own[r], f)
  BY <1>0, <1>5, <1>7, NotesKeep DEF In
<1>9. /\ side' \in [Runs -> [Tfs -> {-1, 0, 1}]] /\ \A s \in Runs \ {r} : side'[s] = side[s]
  <2>1. CASE intents = <<>>
    BY <1>0, <1>1, <2>1 DEF OnBar, TypeOK, intents
  <2>2. CASE intents # <<>>
    <3>1. Last(intents) \in Asked
      BY <1>2, <2>2 DEF Last
    <3>2. Last(intents).side \in {-1, 0, 1}
      BY <3>1 DEF Asked
    <3>3. side' = [side EXCEPT ![r] = [@ EXCEPT ![tf] = Last(intents).side]]
      BY <1>1, <2>2 DEF OnBar, intents
    <3> QED
      BY <1>0, <3>2, <3>3 DEF TypeOK
  <2> QED
    BY <2>1, <2>2
<1>10. held' \in [Runs -> [Tfs -> Nat]]
  <2>1. held[r][tf] \in Nat
    BY <1>0 DEF TypeOK
  <2> DEFINE n == IF proc[r].strategy = "breakout" THEN 0 ELSE IF intents # <<>> THEN 0
                  ELSE IF side[r][tf] # 0 THEN held[r][tf] + 1 ELSE held[r][tf]
  <2>2. n \in Nat /\ held' = [held EXCEPT ![r] = [@ EXCEPT ![tf] = n]]
    BY <1>0, <1>1, <2>1 DEF OnBar, TypeOK, intents
  <2> HIDE DEF n
  <2> QED
    BY <1>0, <2>2 DEF TypeOK
<1>11. TypeOK'
  BY <1>0, <1>6, <1>8, <1>9, <1>10 DEF TypeOK
<1>12. StatusInv(r)'
  BY <1>0, <1>5 DEF RunInv, StatusInv, In, Alive
<1>13. HandInv(r)' /\ FlushInv(r)' /\ SideInv(r)'
  BY <1>5 DEF HandInv, FlushInv, SideInv, In
<1>14. PosInv(r)'
  BY <1>0, <1>5, <1>8 DEF RunInv, PosInv, HoldsPosition, In
<1>15. OthersSame(r)
  BY <1>0, <1>5, <1>8, <1>9 DEF OthersSame
<1> QED
  BY <1>8, <1>11, <1>12, <1>13, <1>14, <1>15 DEF RunInv
LEMMA TakeMinuteGood ==
  ASSUME IInv, NEW r \in Runs, TakeMinute(r)
  PROVE  Good(r)
<1> USE DEF Good
<1>0. TypeOK /\ RunInv(r) /\ In(r, "bar") /\ UNCHANGED <<status, side, held, position>>
  BY DEF IInv, TakeMinute
<1>1. PICK ts \in Minutes(r) :
       /\ proc' = [proc EXCEPT ![r].pc = "mirror", ![r].bars = @ + 1,
                               ![r].minute = ts, ![r].bar = [tf |-> "1m", ts |-> ts]]
       /\ PutBar(r, ts)
  BY DEF TakeMinute
<1>2. ts \in Nat
  BY <1>0, ProcTypes DEF Minutes
<1> DEFINE bar == [tf |-> "1m", ts |-> ts]
           bars == proc[r].bars + 1
<1>3. /\ bar \in [tf : Tfs \cup {"1m"}, ts : Nat] /\ bars \in Nat /\ "mirror" \in Stages
      /\ proc[r] \in Procs /\ proc \in [Runs -> Procs]
  BY <1>0, <1>2, ProcTypes DEF Stages
<1>4. proc' = [proc EXCEPT ![r] = [@ EXCEPT !.pc = "mirror", !.bars = bars, !.minute = ts, !.bar = bar]]
  <2>1. proc' = [proc EXCEPT ![r].pc = "mirror", ![r].bars = @ + 1, ![r].minute = ts, ![r].bar = bar]
    BY <1>1
  <2> HIDE DEF bar
  <2> QED
    BY <1>3, <2>1 DEF Procs
<1> HIDE DEF bar, bars
<1>5. /\ proc'[r].pc = "mirror" /\ proc'[r].failed = proc[r].failed /\ proc'[r].engine = proc[r].engine
      /\ \A s \in Runs \ {r} : proc'[s] = proc[s]
  BY <1>3, <1>4 DEF Procs
<1>6. proc' \in [Runs -> Procs]
  <2>1. [proc[r] EXCEPT !.pc = "mirror", !.bars = bars, !.minute = ts, !.bar = bar] \in Procs
    BY <1>2, <1>3 DEF Procs
  <2> QED
    BY <1>3, <1>4, <2>1
<1>7. Notes(r)
  BY <1>1, <1>2, PutBarNotes
<1>8. /\ RowsOK' /\ Extends(r) /\ Sound(own[r])' /\ StoreInv(r)'
      /\ \A s \in Runs \ {r} : own'[s] = own[s]
      /\ \A f : Net(own[r], f)' = Net(own[r], f)
  BY <1>0, <1>5, <1>7, NotesKeep DEF In
<1>9. TypeOK'
  BY <1>0, <1>6, <1>8 DEF TypeOK
<1>10. StatusInv(r)' /\ HandInv(r)' /\ FlushInv(r)' /\ SideInv(r)'
  BY <1>0, <1>5 DEF RunInv, StatusInv, Alive, HandInv, FlushInv, SideInv, In
<1>11. PosInv(r)'
  BY <1>0, <1>5, <1>8 DEF RunInv, PosInv, HoldsPosition, In
<1>12. OthersSame(r)
  BY <1>0, <1>5, <1>8 DEF OthersSame
<1> QED
  BY <1>8, <1>9, <1>10, <1>11, <1>12 DEF RunInv

LEMMA GoesFields ==
  ASSUME TypeOK, NEW r \in Runs, NEW stage \in Stages, Goes(r, stage)
  PROVE  /\ proc' \in [Runs -> Procs] /\ proc'[r] = [proc[r] EXCEPT !.pc = stage] /\ proc'[r].pc = stage
         /\ proc'[r].engine = proc[r].engine /\ proc'[r].failed = proc[r].failed
         /\ proc'[r].todo = proc[r].todo /\ proc'[r].signal = proc[r].signal
         /\ proc'[r].order = proc[r].order /\ proc'[r].stop = proc[r].stop
         /\ \A s \in Runs \ {r} : proc'[s] = proc[s]
<1>1. proc[r] \in Procs /\ proc \in [Runs -> Procs]
  BY ProcTypes
<1>2. proc' = [proc EXCEPT ![r] = [@ EXCEPT !.pc = stage]]
  BY DEF Goes
<1>3. [proc[r] EXCEPT !.pc = stage] \in Procs
  BY <1>1 DEF Procs
<1>4. proc'[r] = [proc[r] EXCEPT !.pc = stage] /\ proc' \in [Runs -> Procs]
  BY <1>1, <1>2, <1>3
<1> QED
  BY <1>1, <1>2, <1>4 DEF Procs

\* The run's way out of its loop.
LEMMA LeavesGood ==
  ASSUME IInv, NEW r \in Runs, In(r, "bar"), Goes(r, AfterBar(r)), Notes(r),
         UNCHANGED <<status, side, held, position>>
  PROVE  Good(r)
<1> USE DEF Good
<1>0. TypeOK /\ RunInv(r)
  BY DEF IInv
<1> DEFINE stage == AfterBar(r)
<1>1. stage \in Stages /\ stage \in {"flush", "end"} /\ (stage = "flush" <=> Buffers(r))
  BY DEF AfterBar, Stages
<1> HIDE DEF stage
<1>2. /\ proc' \in [Runs -> Procs] /\ proc'[r].pc = stage
      /\ proc'[r].engine = proc[r].engine /\ proc'[r].failed = proc[r].failed
      /\ \A s \in Runs \ {r} : proc'[s] = proc[s]
  BY <1>0, <1>1, GoesFields DEF stage
<1>3. /\ RowsOK' /\ Extends(r) /\ Sound(own[r])' /\ StoreInv(r)'
      /\ \A s \in Runs \ {r} : own'[s] = own[s]
      /\ \A f : Net(own[r], f)' = Net(own[r], f)
  BY <1>0, <1>1, <1>2, NotesKeep DEF In
<1>4. TypeOK'
  BY <1>0, <1>2, <1>3 DEF TypeOK
<1>5. StatusInv(r)' /\ HandInv(r)' /\ FlushInv(r)'
  BY <1>0, <1>1, <1>2 DEF RunInv, StatusInv, Alive, HandInv, FlushInv, Buffers, In
<1>6. PosInv(r)' /\ SideInv(r)'
  BY <1>0, <1>2, <1>3 DEF RunInv, PosInv, SideInv, HoldsPosition, In
<1>7. OthersSame(r)
  BY <1>2, <1>3 DEF OthersSame
<1> QED
  BY <1>3, <1>4, <1>5, <1>6, <1>7 DEF RunInv

LEMMA BreakGood ==
  ASSUME IInv, NEW r \in Runs, Break(r)
  PROVE  Good(r)
<1>1. In(r, "bar") /\ Goes(r, AfterBar(r)) /\ Notes(r) /\ UNCHANGED <<status, side, held, position>>
  BY DEF Break, Notes
<1> QED
  BY <1>1, LeavesGood

LEMMA KilledGood ==
  ASSUME IInv, NEW r \in Runs, Killed(r)
  PROVE  Good(r)
<1>1. In(r, "bar") /\ Goes(r, AfterBar(r)) /\ UNCHANGED <<status, side, held, position>>
      /\ (UNCHANGED <<db, own>> \/ Put(r, "events", "kill", 0))
  BY DEF Killed
<1>2. "kill" \in Items /\ 0 \in Nat
  BY DEF Items
<1>3. Notes(r)
  BY <1>1, <1>2 DEF Notes
<1> QED
  BY <1>1, <1>3, LeavesGood
LEMMA ProcessedFields ==
  ASSUME TypeOK, NEW r \in Runs, Processed(r), proc[r].todo # <<>>
  PROVE  /\ proc' \in [Runs -> Procs] /\ proc'[r].pc \in {"intent", "mirror"}
         /\ proc'[r].pc = "intent" => proc'[r].todo # <<>>
         /\ proc'[r].engine = proc[r].engine /\ proc'[r].failed = proc[r].failed
         /\ \A s \in Runs \ {r} : proc'[s] = proc[s]
<1>1. proc[r] \in Procs /\ proc \in [Runs -> Procs] /\ proc[r].todo \in Seq(Asked)
  BY ProcTypes
<1> DEFINE todo == Tail(proc[r].todo)
           stage == IF Len(proc[r].todo) > 1 THEN "intent" ELSE "mirror"
<1>2. todo \in Seq(Asked) /\ (stage = "intent" => todo # <<>>)
  <2> DEFINE old == proc[r].todo
  <2>1. old \in Seq(Asked) /\ old # <<>>
    BY <1>1
  <2> HIDE DEF old
  <2>2. Tail(old) \in Seq(Asked) /\ Len(Tail(old)) = Len(old) - 1 /\ Len(old) \in Nat
    BY <2>1
  <2>3. Len(old) > 1 => Tail(old) # <<>>
    <3> DEFINE rest == Tail(old)
               n == Len(old)
    <3>1. Len(rest) = n - 1 /\ n \in Nat
      BY <2>2
    <3> HIDE DEF rest, n
    <3>2. rest = <<>> => Len(rest) = 0
      OBVIOUS
    <3>3. n > 1 => rest # <<>>
      BY <3>1, <3>2
    <3> QED
      BY <3>3 DEF rest, n
  <2> QED
    BY <2>2, <2>3 DEF old
<1>3. stage \in Stages /\ stage \in {"intent", "mirror"}
  BY DEF Stages
<1>4. proc' = [proc EXCEPT ![r] = [@ EXCEPT !.pc = stage, !.todo = todo, !.signal = 0, !.order = 0]]
  <2>1. proc' = [proc EXCEPT ![r].pc = stage, ![r].todo = Tail(@), ![r].signal = 0, ![r].order = 0]
    BY DEF Processed
  <2> HIDE DEF stage
  <2> QED
    BY <1>1, <2>1 DEF Procs
<1> HIDE DEF stage, todo
<1>5. [proc[r] EXCEPT !.pc = stage, !.todo = todo, !.signal = 0, !.order = 0] \in Procs
  BY <1>1, <1>2, <1>3 DEF Procs
<1>6. proc' \in [Runs -> Procs]
  BY <1>1, <1>4, <1>5
<1>7. /\ proc'[r].pc = stage /\ proc'[r].todo = todo /\ proc'[r].engine = proc[r].engine
      /\ proc'[r].failed = proc[r].failed /\ \A s \in Runs \ {r} : proc'[s] = proc[s]
  BY <1>1, <1>4 DEF Procs
<1> QED
  BY <1>2, <1>3, <1>6, <1>7

\* The intent in hand has been dealt with, whatever came of it.
LEMMA ProcessedGood ==
  ASSUME IInv, NEW r \in Runs, proc[r].pc \in {"judge", "order", "fill"}, Processed(r),
         RowsOK', Extends(r), Sound(own[r])', StoreInv(r)',
         \A s \in Runs \ {r} : own'[s] = own[s],
         UNCHANGED <<status, side, held>>, position' \in [Runs -> [Tfs -> Int]],
         \A s \in Runs \ {r} : position'[s] = position[s],
         \A tf \in Tfs : position[r][tf] = Net(own[r], tf) => position'[r][tf] = Net(own[r], tf)'
  PROVE  Good(r)
<1> USE DEF Good
<1>0. TypeOK /\ RunInv(r) /\ proc[r].todo # <<>>
  BY DEF IInv, RunInv, HandInv
<1>1. /\ proc' \in [Runs -> Procs] /\ proc'[r].pc \in {"intent", "mirror"}
      /\ proc'[r].pc = "intent" => proc'[r].todo # <<>>
      /\ proc'[r].engine = proc[r].engine /\ proc'[r].failed = proc[r].failed
      /\ \A s \in Runs \ {r} : proc'[s] = proc[s]
  BY <1>0, ProcessedFields
<1>2. TypeOK'
  BY <1>0, <1>1 DEF TypeOK
<1>3. StatusInv(r)'
  BY <1>0, <1>1 DEF RunInv, StatusInv, Alive, In
<1>4. HandInv(r)' /\ FlushInv(r)' /\ SideInv(r)'
  BY <1>1 DEF HandInv, FlushInv, SideInv, In
<1>5. PosInv(r)'
  BY <1>0, <1>1 DEF RunInv, PosInv, HoldsPosition
<1>6. OthersSame(r)
  BY <1>1 DEF OthersSame
<1> QED
  BY <1>2, <1>3, <1>4, <1>5, <1>6 DEF RunInv

LEMMA RejectGood ==
  ASSUME IInv, NEW r \in Runs, Reject(r)
  PROVE  Good(r)
<1>0. TypeOK /\ RunInv(r) /\ In(r, "judge") /\ UNCHANGED <<status, side, held, position>>
  BY DEF IInv, Reject
<1>1. Put(r, "events", "reject", proc[r].signal) /\ Processed(r)
  BY DEF Reject
<1>2. Denotes(r, "signals", proc[r].signal) /\ proc[r].signal \in Nat /\ proc[r].todo # <<>>
  BY <1>0, ProcTypes DEF RunInv, HandInv, In, Procs
<1>3. "reject" \in Items
  BY DEF Items
<1>4. Notes(r)
  BY <1>1, <1>2, <1>3 DEF Notes
<1>5. proc'[r].pc \in {"intent", "mirror"} /\ proc'[r].engine = proc[r].engine
  BY <1>0, <1>1, <1>2, ProcessedFields
<1>6. /\ RowsOK' /\ Extends(r) /\ Sound(own[r])' /\ StoreInv(r)'
      /\ \A s \in Runs \ {r} : own'[s] = own[s]
      /\ \A f : Net(own[r], f)' = Net(own[r], f)
  BY <1>0, <1>4, <1>5, NotesKeep DEF In
<1>7. position' \in [Runs -> [Tfs -> Int]]
  BY <1>0 DEF TypeOK
<1> QED
  BY <1>0, <1>1, <1>6, <1>7, ProcessedGood DEF In

LEMMA ClampGood ==
  ASSUME IInv, NEW r \in Runs, Clamp(r)
  PROVE  Good(r)
<1> USE DEF Good
<1>0. TypeOK /\ RunInv(r) /\ In(r, "judge") /\ UNCHANGED <<status, side, held, position>>
  BY DEF IInv, Clamp
<1>1. Put(r, "events", "clamp", proc[r].signal) /\ Goes(r, "order")
  BY DEF Clamp
<1>2. /\ Denotes(r, "signals", proc[r].signal) /\ proc[r].signal \in Nat /\ proc[r].todo # <<>>
      /\ Last(own[r].signals).item = Intent(r)
  BY <1>0, ProcTypes DEF RunInv, HandInv, In, Procs
<1>3. "clamp" \in Items /\ "order" \in Stages
  BY DEF Items, Stages
<1>4. Notes(r)
  BY <1>1, <1>2, <1>3 DEF Notes
<1>5. /\ proc' \in [Runs -> Procs] /\ proc'[r].pc = "order"
      /\ proc'[r].engine = proc[r].engine /\ proc'[r].failed = proc[r].failed
      /\ proc'[r].todo = proc[r].todo /\ proc'[r].signal = proc[r].signal
      /\ \A s \in Runs \ {r} : proc'[s] = proc[s]
  BY <1>0, <1>1, <1>3, GoesFields
<1>6. /\ RowsOK' /\ Extends(r) /\ Sound(own[r])' /\ StoreInv(r)'
      /\ \A s \in Runs \ {r} : own'[s] = own[s]
      /\ own'[r].signals = own[r].signals
      /\ \A t \in {"signals", "orders"} : \A id : Denotes(r, t, id) => Denotes(r, t, id)'
      /\ \A f : Net(own[r], f)' = Net(own[r], f)
  BY <1>0, <1>4, <1>5, NotesKeep DEF In
<1>7. TypeOK'
  BY <1>0, <1>5, <1>6 DEF TypeOK
<1>8. StatusInv(r)' /\ FlushInv(r)' /\ SideInv(r)'
  BY <1>0, <1>5 DEF RunInv, StatusInv, Alive, FlushInv, SideInv, In
<1>9. HandInv(r)'
  <2>1. \A id : Denotes(r, "signals", id) => Denotes(r, "signals", id)'
    BY <1>6
  <2>2. \A id : id = proc[r].signal => Denotes(r, "signals", id)'
    BY <1>2, <2>1
  <2>3. Denotes(r, "signals", proc[r].signal)'
    BY <1>5, <2>2 DEF Denotes, Buffers
  <2> QED
    BY <1>2, <1>5, <1>6, <2>3 DEF HandInv, In, Intent
<1>10. PosInv(r)'
  BY <1>0, <1>5, <1>6 DEF RunInv, PosInv, HoldsPosition, In
<1>11. OthersSame(r)
  BY <1>0, <1>5, <1>6 DEF OthersSame
<1> QED
  BY <1>6, <1>7, <1>8, <1>9, <1>10, <1>11 DEF RunInv

LEMMA MirrorGood ==
  ASSUME IInv, NEW r \in Runs, Mirror(r)
  PROVE  Good(r)
<1> USE DEF Good
<1>0. TypeOK /\ RunInv(r) /\ In(r, "mirror") /\ UNCHANGED <<status, held, position>>
  BY DEF IInv, Mirror
<1>1. /\ side' = [side EXCEPT ![r] = [tf \in Tfs |-> Sign(position[r][tf])]]
      /\ proc' = [proc EXCEPT ![r] = [@ EXCEPT !.pc = "bar", !.bar = NoBar]]
      /\ UNCHANGED <<db, own>> \/ Put(r, "snapshots", proc[r].bar.ts, 0)
  BY DEF Mirror
<1>2. /\ proc[r] \in Procs /\ proc \in [Runs -> Procs] /\ proc[r].bar.ts \in Nat
      /\ NoBar \in [tf : Tfs \cup {"1m"}, ts : Nat] /\ "bar" \in Stages
  BY <1>0, ProcTypes DEF NoBar, Stages
<1>3. proc' \in [Runs -> Procs]
  <2>1. [proc[r] EXCEPT !.pc = "bar", !.bar = NoBar] \in Procs
    BY <1>2 DEF Procs
  <2> QED
    BY <1>1, <1>2, <2>1
<1>4. /\ proc'[r].pc = "bar" /\ proc'[r].engine = proc[r].engine /\ proc'[r].failed = proc[r].failed
      /\ \A s \in Runs \ {r} : proc'[s] = proc[s]
  BY <1>1, <1>2 DEF Procs
<1>5. proc[r].bar.ts \in Items /\ 0 \in Nat
  BY <1>2 DEF Items
<1>6. Notes(r)
  BY <1>1, <1>5 DEF Notes
<1>7. /\ RowsOK' /\ Extends(r) /\ Sound(own[r])' /\ StoreInv(r)'
      /\ \A s \in Runs \ {r} : own'[s] = own[s]
      /\ \A f : Net(own[r], f)' = Net(own[r], f)
  BY <1>0, <1>4, <1>6, NotesKeep DEF In
<1>8. \A tf \in Tfs : position[r][tf] \in Int /\ Sign(position[r][tf]) \in {-1, 0, 1}
  <2>1. \A tf \in Tfs : position[r][tf] \in Int
    BY <1>0 DEF TypeOK
  <2> QED
    BY <2>1, Signs
<1>9. /\ side' \in [Runs -> [Tfs -> {-1, 0, 1}]] /\ \A s \in Runs \ {r} : side'[s] = side[s]
      /\ \A tf \in Tfs : side'[r][tf] = Sign(position[r][tf])
  BY <1>0, <1>1, <1>8 DEF TypeOK
<1>10. TypeOK'
  BY <1>0, <1>3, <1>7, <1>9 DEF TypeOK
<1>11. StatusInv(r)' /\ FlushInv(r)' /\ HandInv(r)'
  BY <1>0, <1>4 DEF RunInv, StatusInv, Alive, FlushInv, HandInv, In
<1>12. PosInv(r)' /\ SideInv(r)'
  BY <1>0, <1>4, <1>7, <1>9 DEF RunInv, PosInv, SideInv, HoldsPosition, In
<1>13. OthersSame(r)
  BY <1>0, <1>4, <1>7, <1>9 DEF OthersSame
<1> QED
  BY <1>7, <1>10, <1>11, <1>12, <1>13 DEF RunInv
\* What is put for the current row of a table is linked to it.
LEMMA LinksToLast ==
  ASSUME RowsOK, NEW r \in Runs, NEW t \in Tables, NEW id, Denotes(r, t, id), NEW u, Parent(u) = t
  PROVE  /\ OwnLink(r, u, id) = Len(own[r][t]) /\ Len(own[r][t]) \in DOMAIN own[r][t]
         /\ own[r][t][Len(own[r][t])] = Last(own[r][t]) /\ Last(own[r][t]) \in OwnRows
         /\ own[r][t] # <<>>
<1> DEFINE rows == own[r][t]
<1>1. rows \in Seq(OwnRows) /\ rows # <<>>
  BY DEF RowsOK, Denotes
<1>2. Len(rows) \in DOMAIN rows /\ rows[Len(rows)] = Last(rows) /\ Last(rows) \in OwnRows
      /\ Len(rows) # 0
  <2> HIDE DEF rows
  <2>1. Len(rows) \in Nat /\ DOMAIN rows = 1 .. Len(rows) /\ Len(rows) # 0
    BY <1>1
  <2>2. Len(rows) \in DOMAIN rows
    BY <2>1
  <2>3. rows[Len(rows)] \in OwnRows
    BY <1>1, <2>2
  <2> QED
    BY <2>1, <2>2, <2>3 DEF Last
<1>3. CASE Buffers(r)
  BY <1>1, <1>2, <1>3 DEF OwnLink, Denotes
<1>4. CASE ~Buffers(r)
  <2>1. id \in DOMAIN db[t] /\ DOMAIN db[t] = 1 .. Len(db[t])
    BY <1>4, Lengths DEF Denotes
  <2>2. id # 0
    BY <2>1
  <2> QED
    BY <1>1, <1>2, <1>4, <2>2 DEF OwnLink
<1> QED
  BY <1>3, <1>4

LEMMA NextIdType ==
  ASSUME RowsOK, NEW r \in Runs, NEW t \in Tables
  PROVE  NextId(r, t) \in Nat
<1>1. Len(db[t]) \in Nat /\ Len(own[r][t]) \in Nat
  BY Lengths
<1> QED
  BY <1>1 DEF NextId

LEMMA SignalGood ==
  ASSUME IInv, NEW r \in Runs, Signal(r)
  PROVE  Good(r)
<1> USE DEF Good
<1>0. /\ TypeOK /\ RowsOK /\ RunInv(r) /\ In(r, "intent") /\ UNCHANGED <<status, side, held, position>>
      /\ Sound(own[r]) /\ StoreInv(r)
  BY DEF IInv, Signal, RunInv, TypeOK
<1>1. /\ Put(r, "signals", Intent(r), 0)
      /\ proc' = [proc EXCEPT ![r] = [@ EXCEPT !.pc = "judge", !.signal = NextId(r, "signals")]]
  BY DEF Signal
<1>2. proc[r] \in Procs /\ proc \in [Runs -> Procs] /\ "judge" \in Stages
  BY <1>0, ProcTypes DEF Stages
<1>3. "signals" \in Tables /\ NextId(r, "signals") \in Nat
  BY <1>0, NextIdType DEF Tables
<1>4. proc' \in [Runs -> Procs]
  <2> DEFINE id == NextId(r, "signals")
  <2>1. id \in Nat
    BY <1>3
  <2>2. proc' = [proc EXCEPT ![r] = [@ EXCEPT !.pc = "judge", !.signal = id]]
    BY <1>1
  <2> HIDE DEF id
  <2>3. [proc[r] EXCEPT !.pc = "judge", !.signal = id] \in Procs
    BY <1>2, <2>1 DEF Procs
  <2> QED
    BY <1>2, <2>2, <2>3
<1>5. /\ proc'[r].pc = "judge" /\ proc'[r].engine = proc[r].engine /\ proc'[r].failed = proc[r].failed
      /\ proc'[r].todo = proc[r].todo /\ proc'[r].signal = NextId(r, "signals")
      /\ \A s \in Runs \ {r} : proc'[s] = proc[s]
  BY <1>1, <1>2 DEF Procs
<1>6. proc[r].todo # <<>> /\ Intent(r) \in Asked /\ Intent(r) \in Items /\ 0 \in Nat
  <2>1. proc[r].todo # <<>> /\ proc[r].todo \in Seq(Asked)
    BY <1>0, ProcTypes DEF RunInv, HandInv, In
  <2>2. Intent(r) \in Asked
    BY <2>1 DEF Intent
  <2> QED
    BY <2>1, <2>2 DEF Items
<1>7. OwnLink(r, "signals", 0) = 0
  BY DEF OwnLink
<1>8. Fits(own[r], "signals", Intent(r), OwnLink(r, "signals", 0))
  BY <1>6, <1>7 DEF Fits
<1> DEFINE row == Row(Intent(r), 0)
<1>9. /\ RowsOK' /\ Extends(r) /\ Sound(own[r])' /\ StoreInv(r)'
      /\ own'[r] = Added(own[r], "signals", row) /\ row \in OwnRows
      /\ \A s \in Runs \ {r} : own'[s] = own[s]
  BY <1>0, <1>1, <1>3, <1>5, <1>6, <1>7, <1>8, PutKeeps DEF In
<1>10. row.item = Intent(r)
  BY DEF Row
<1> HIDE DEF row
<1>11. Last(own'[r].signals) = row
  BY <1>0, <1>3, <1>5, <1>9, PutElsewhere
<1>12. Denotes(r, "signals", proc[r].signal)'
  <2>1. Buffers(r) \/ Kept(r)'
    BY <1>5, <1>9 DEF StoreInv, Early, Buffers
  <2>2. \A id : id = NextId(r, "signals") => Denotes(r, "signals", id)'
    BY <1>0, <1>1, <1>3, <1>5, <1>6, <1>9, <2>1, NextDenotes
  <2> QED
    BY <1>5, <2>2 DEF Denotes, Buffers
<1>13. TypeOK'
  BY <1>0, <1>4, <1>9 DEF TypeOK
<1>14. StatusInv(r)' /\ FlushInv(r)' /\ SideInv(r)'
  BY <1>0, <1>5 DEF RunInv, StatusInv, Alive, FlushInv, SideInv, In
<1>15. HandInv(r)'
  BY <1>5, <1>6, <1>10, <1>11, <1>12 DEF HandInv, In, Intent
<1>16. PosInv(r)'
  <2>1. own[r] \in [Tables -> Seq(OwnRows)] /\ "signals" \in Tables \ {"fills"}
    BY <1>0, <1>3 DEF RowsOK
  <2>2. \A tf : Net(Added(own[r], "signals", row), tf) = Net(own[r], tf)
    BY <1>0, <1>9, <2>1, NetSame
  <2> QED
    BY <1>0, <1>5, <1>9, <2>2 DEF RunInv, PosInv, HoldsPosition, In
<1>17. OthersSame(r)
  BY <1>0, <1>5, <1>9 DEF OthersSame
<1> QED
  BY <1>9, <1>13, <1>14, <1>15, <1>16, <1>17 DEF RunInv
LEMMA QuantityType ==
  ASSUME TypeOK, NEW r \in Runs, NEW intent \in Asked, NEW qty \in Quantities(r, intent)
  PROVE  qty \in Int
<1>1. intent.tf \in Tfs /\ intent.side \in {-1, 0, 1}
  BY DEF Asked
<1>2. position[r][intent.tf] \in Int
  BY <1>1 DEF TypeOK
<1>3. \A q \in Sizes : intent.side * q \in Int
  <2> SUFFICES ASSUME NEW q \in Sizes PROVE intent.side * q \in Int
    OBVIOUS
  <2>1. q \in Nat
    BY PaperAssumption
  <2> DEFINE d == intent.side
  <2>2. d = -1 \/ d = 0 \/ d = 1
    BY <1>1
  <2> HIDE DEF d
  <2>3. d * q \in Int
    BY <2>1, <2>2
  <2> QED
    BY <2>3 DEF d
<1>4. - position[r][intent.tf] \in Int
  BY <1>2
<1> QED
  BY <1>3, <1>4 DEF Quantities

LEMMA OrderGood ==
  ASSUME IInv, NEW r \in Runs, Order(r)
  PROVE  Good(r)
<1> USE DEF Good
<1>0. /\ TypeOK /\ RowsOK /\ RunInv(r) /\ proc[r].pc \in {"judge", "order"}
      /\ UNCHANGED <<status, side, held, position>> /\ Sound(own[r]) /\ StoreInv(r)
  BY DEF IInv, Order, RunInv, TypeOK
<1>1. PICK qty \in Quantities(r, Intent(r)) :
       IF qty = 0 THEN Processed(r) /\ UNCHANGED <<db, own>>
       ELSE /\ Put(r, "orders", [tf |-> Intent(r).tf, qty |-> qty], proc[r].signal)
            /\ proc' = [proc EXCEPT ![r].pc = "fill", ![r].order = NextId(r, "orders")]
  BY DEF Order
<1>2. /\ proc[r].todo # <<>> /\ Denotes(r, "signals", proc[r].signal)
      /\ Last(own[r].signals).item = Intent(r) /\ proc[r].signal \in Nat
  BY <1>0, ProcTypes DEF RunInv, HandInv, Procs
<1>3. Intent(r) \in Asked
  BY <1>0, <1>2, ProcTypes DEF Intent
<1>4. qty \in Int
  BY <1>0, <1>1, <1>3, QuantityType
<1>5. CASE qty = 0
  <2>1. Processed(r) /\ UNCHANGED <<db, own>>
    BY <1>1, <1>5
  <2>2. proc'[r].pc \in {"intent", "mirror"} /\ proc'[r].engine = proc[r].engine
    BY <1>0, <1>2, <2>1, ProcessedFields
  <2>3. Notes(r)
    BY <2>1 DEF Notes
  <2>4. /\ RowsOK' /\ Extends(r) /\ Sound(own[r])' /\ StoreInv(r)'
        /\ \A s \in Runs \ {r} : own'[s] = own[s]
        /\ \A f : Net(own[r], f)' = Net(own[r], f)
    BY <1>0, <2>2, <2>3, NotesKeep
  <2>5. position' \in [Runs -> [Tfs -> Int]]
    BY <1>0 DEF TypeOK
  <2> QED
    BY <1>0, <2>1, <2>4, <2>5, ProcessedGood
<1>6. CASE qty # 0
  <2> DEFINE item == [tf |-> Intent(r).tf, qty |-> qty]
             l == OwnLink(r, "orders", proc[r].signal)
             row == Row(item, l)
             id == NextId(r, "orders")
  <2>1. /\ Put(r, "orders", item, proc[r].signal)
        /\ proc' = [proc EXCEPT ![r] = [@ EXCEPT !.pc = "fill", !.order = id]]
    BY <1>1, <1>6
  <2>2. item \in Ordered /\ item.tf = Intent(r).tf /\ item \in Items
    BY <1>3, <1>4 DEF Ordered, Items, Asked
  <2>3. {"signals", "orders"} \subseteq Tables /\ id \in Nat /\ "fill" \in Stages
    BY <1>0, NextIdType DEF Tables, Stages
  <2>4. proc[r] \in Procs /\ proc \in [Runs -> Procs]
    BY <1>0, ProcTypes
  <2> HIDE DEF item, id
  <2>5. proc' \in [Runs -> Procs]
    <3>1. [proc[r] EXCEPT !.pc = "fill", !.order = id] \in Procs
      BY <2>3, <2>4 DEF Procs
    <3> QED
      BY <2>1, <2>4, <3>1
  <2>6. /\ proc'[r].pc = "fill" /\ proc'[r].engine = proc[r].engine /\ proc'[r].failed = proc[r].failed
        /\ proc'[r].todo = proc[r].todo /\ proc'[r].signal = proc[r].signal /\ proc'[r].order = id
        /\ \A s \in Runs \ {r} : proc'[s] = proc[s]
    BY <2>1, <2>4 DEF Procs
  <2>7. Parent("orders") = "signals"
    BY DEF Parent
  <2>8. /\ l \in DOMAIN own[r].signals /\ own[r].signals[l] = Last(own[r].signals)
    BY <1>0, <1>2, <2>3, <2>7, LinksToLast
  <2>9. Fits(own[r], "orders", item, l)
    BY <1>2, <2>2, <2>8 DEF Fits
  <2>10. Buffers(r) \/ proc[r].signal = 0 \/ (Parent("orders") # "orders" /\ Denotes(r, Parent("orders"), proc[r].signal))
    BY <1>2, <2>7
  <2>11. /\ RowsOK' /\ Extends(r) /\ Sound(own[r])' /\ StoreInv(r)'
         /\ own'[r] = Added(own[r], "orders", row) /\ row \in OwnRows
         /\ \A s \in Runs \ {r} : own'[s] = own[s]
    BY <1>0, <1>2, <2>1, <2>2, <2>3, <2>6, <2>9, <2>10, PutKeeps
  <2> HIDE DEF l, row
  <2>12. /\ own'[r].signals = own[r].signals
         /\ \A i : Denotes(r, "signals", i) => Denotes(r, "signals", i)'
    BY <1>0, <2>3, <2>6, <2>11, PutElsewhere
  <2>13. Denotes(r, "orders", proc[r].order)'
    <3>1. Buffers(r) \/ Kept(r)'
      BY <2>6, <2>11 DEF StoreInv, Early, Buffers
    <3>2. \A i : i = NextId(r, "orders") => Denotes(r, "orders", i)'
      BY <1>0, <1>2, <2>1, <2>2, <2>3, <2>6, <2>11, <3>1, NextDenotes
    <3> QED
      BY <2>6, <3>2 DEF Denotes, Buffers, id
  <2>14. Denotes(r, "signals", proc[r].signal)'
    <3>1. \A i : i = proc[r].signal => Denotes(r, "signals", i)'
      BY <1>2, <2>12
    <3> QED
      BY <2>6, <3>1 DEF Denotes, Buffers
  <2>15. TypeOK'
    BY <1>0, <2>5, <2>11 DEF TypeOK
  <2>16. StatusInv(r)' /\ FlushInv(r)' /\ SideInv(r)'
    BY <1>0, <2>6 DEF RunInv, StatusInv, Alive, FlushInv, SideInv, In
  <2>17. HandInv(r)'
    BY <1>2, <2>6, <2>12, <2>13, <2>14 DEF HandInv, In, Intent
  <2>18. PosInv(r)'
    <3>1. own[r] \in [Tables -> Seq(OwnRows)] /\ "orders" \in Tables \ {"fills"}
      BY <1>0, <2>3 DEF RowsOK
    <3>2. \A tf : Net(Added(own[r], "orders", row), tf) = Net(own[r], tf)
      BY <1>0, <2>11, <3>1, NetSame
    <3> QED
      BY <1>0, <2>6, <2>11, <3>2 DEF RunInv, PosInv, HoldsPosition, In
  <2>19. OthersSame(r)
    BY <1>0, <2>6, <2>11 DEF OthersSame
  <2> QED
    BY <2>11, <2>15, <2>16, <2>17, <2>18, <2>19 DEF RunInv
<1> QED
  BY <1>5, <1>6

LEMMA FillGood ==
  ASSUME IInv, NEW r \in Runs, Fill(r)
  PROVE  Good(r)
<1>0. /\ TypeOK /\ RowsOK /\ RunInv(r) /\ In(r, "fill") /\ Processed(r)
      /\ UNCHANGED <<status, side, held>> /\ Sound(own[r]) /\ StoreInv(r)
  BY DEF IInv, Fill, RunInv, TypeOK
<1> DEFINE order == LastOrder(r)
           a == Abs(order.qty)
           l == OwnLink(r, "fills", proc[r].order)
           row == Row(a, l)
<1>1. /\ Put(r, "fills", a, proc[r].order)
      /\ position' = [position EXCEPT ![r][order.tf] = @ + order.qty]
  BY DEF Fill
<1>2. /\ proc[r].todo # <<>> /\ Denotes(r, "orders", proc[r].order) /\ proc[r].order \in Nat
  BY <1>0, ProcTypes DEF RunInv, HandInv, In, Procs
<1>3. {"orders", "fills"} \subseteq Tables /\ Parent("fills") = "orders"
  BY DEF Tables, Parent
<1>4. /\ l \in DOMAIN own[r].orders /\ own[r].orders[l] = Last(own[r].orders)
  BY <1>0, <1>2, <1>3, LinksToLast
<1>5. own[r].orders[l].item = order /\ order \in Ordered /\ order.tf \in Tfs /\ order.qty \in Int
  BY <1>0, <1>4 DEF Sound, LastOrder, Ordered
<1> HIDE DEF order
<1>6. a \in Nat /\ a \in Items /\ order.qty \in {a, - a}
  BY <1>5, Signs DEF Items
<1> HIDE DEF a
<1>7. Fits(own[r], "fills", a, l)
  BY <1>4, <1>5, <1>6 DEF Fits
<1>8. proc'[r].engine = proc[r].engine /\ proc'[r].pc \in {"intent", "mirror"}
  BY <1>0, <1>2, ProcessedFields
<1>9. Buffers(r) \/ proc[r].order = 0 \/ (Parent("fills") # "fills" /\ Denotes(r, Parent("fills"), proc[r].order))
  BY <1>2, <1>3
<1>10. /\ RowsOK' /\ Extends(r) /\ Sound(own[r])' /\ StoreInv(r)'
       /\ own'[r] = Added(own[r], "fills", row) /\ row \in OwnRows
       /\ \A s \in Runs \ {r} : own'[s] = own[s]
  BY <1>0, <1>1, <1>2, <1>3, <1>6, <1>7, <1>8, <1>9, PutKeeps DEF In
<1>11. row.item = a /\ row.link = l
  BY DEF Row
<1> HIDE DEF l, row
<1>12. ASSUME NEW tf \in Tfs, position[r][tf] = Net(own[r], tf)
       PROVE  position'[r][tf] = Net(own[r], tf)'
  <2> DEFINE q == order.qty
  <2>1. own[r] \in [Tables -> Seq(OwnRows)] /\ q \in Int /\ position[r][tf] \in Int
    BY <1>0, <1>5 DEF RowsOK, TypeOK
  <2>2. row.link \in DOMAIN own[r].orders /\ row.item \in Nat /\ row.item = Abs(q)
        /\ own[r].orders[row.link].item.qty = q /\ own[r].orders[row.link].item.tf = order.tf
    BY <1>4, <1>5, <1>6, <1>11 DEF a
  <2> HIDE DEF q
  <2>3. Net(Added(own[r], "fills", row), tf) = Net(own[r], tf) + (IF order.tf = tf THEN q ELSE 0)
    <3>1. Net(Added(own[r], "fills", row), tf)
            = Net(own[r], tf) + (IF own[r].orders[row.link].item.tf = tf THEN q ELSE 0)
      <4> DEFINE rec == own[r]
      <4>1. rec \in [Tables -> Seq(OwnRows)] /\ Sound(rec) /\ row \in OwnRows /\ q \in Int
        BY <1>0, <1>10, <2>1
      <4>2. row.link \in DOMAIN rec.orders /\ row.item \in Nat /\ row.item = Abs(q)
            /\ rec.orders[row.link].item.qty = q
        BY <2>2
      <4> HIDE DEF rec
      <4>3. Net(Added(rec, "fills", row), tf)
              = Net(rec, tf) + (IF rec.orders[row.link].item.tf = tf THEN q ELSE 0)
        BY <4>1, <4>2, NetFilled
      <4> QED
        BY <4>3 DEF rec
    <3> QED
      BY <2>2, <3>1
  <2>4. position'[r][tf] = position[r][tf] + (IF order.tf = tf THEN q ELSE 0)
    <3>1. position \in [Runs -> [Tfs -> Int]]
      BY <1>0 DEF TypeOK
    <3>2. position'[r] = [position[r] EXCEPT ![order.tf] = @ + q]
      <4>1. position' = [position EXCEPT ![r][order.tf] = @ + q]
        BY <1>1 DEF q
      <4> QED
        BY <3>1, <4>1
    <3>3. CASE order.tf = tf
      BY <3>1, <3>2, <3>3
    <3>4. CASE order.tf # tf
      BY <2>1, <3>1, <3>2, <3>4
    <3> QED
      BY <3>3, <3>4
  <2> QED
    BY <1>10, <1>12, <2>3, <2>4
<1>13. /\ position' \in [Runs -> [Tfs -> Int]] /\ \A s \in Runs \ {r} : position'[s] = position[s]
  <2> DEFINE q == order.qty
  <2>1. position \in [Runs -> [Tfs -> Int]] /\ q \in Int /\ order.tf \in Tfs
    BY <1>0, <1>5 DEF TypeOK
  <2>2. position' = [position EXCEPT ![r][order.tf] = @ + q]
    BY <1>1
  <2> HIDE DEF q
  <2>3. position[r][order.tf] + q \in Int
    BY <2>1
  <2> QED
    BY <2>1, <2>2, <2>3
<1> QED
  BY <1>0, <1>10, <1>12, <1>13, ProcessedGood DEF In
LEMMA NoneStored ==
  /\ NoRows \in [Tables -> Seq(OwnRows)] /\ Sound(NoRows)
<1>1. <<>> \in Seq(OwnRows) /\ DOMAIN <<>> = {}
  OBVIOUS
<1>2. NoRows \in [Tables -> Seq(OwnRows)]
  BY <1>1 DEF NoRows
<1>3. \A t \in Tables : DOMAIN NoRows[t] = {}
  BY <1>1 DEF NoRows
<1>4. {"bars", "signals", "orders", "fills", "snapshots", "events"} \subseteq Tables
  BY DEF Tables
<1>5. Sound(NoRows)
  BY <1>3, <1>4 DEF Sound, Records!Linked
<1> QED
  BY <1>2, <1>5

\* An in-memory run that stored nothing loses its rows.
LEMMA NoneKept ==
  ASSUME RowsOK, NEW r \in Runs, Absent(r), UNCHANGED db, own' = [own EXCEPT ![r] = NoRows]
  PROVE  /\ Kept(r)' /\ RowsOK' /\ Extends(r) /\ Sound(own[r])'
         /\ \A s \in Runs \ {r} : own'[s] = own[s]
<1>1. own'[r] = NoRows /\ \A s \in Runs \ {r} : own'[s] = own[s]
  BY DEF RowsOK
<1>2. Kept(r)'
  BY <1>1, AbsentRank DEF Kept, Absent, NoRows
<1>3. RowsOK'
  BY NoneStored DEF RowsOK
<1>4. Extends(r)
  BY Lengths DEF Extends
<1>5. Sound(own[r])'
  BY <1>1, NoneStored
<1> QED
  BY <1>1, <1>2, <1>3, <1>4, <1>5

LEMMA ReadOffsetsGood ==
  ASSUME IInv, NEW r \in Runs, ReadOffsets(r)
  PROVE  Good(r)
<1> USE DEF Good
<1>0. /\ TypeOK /\ RowsOK /\ RunInv(r) /\ In(r, "flush") /\ Buffers(r) /\ Absent(r)
      /\ UNCHANGED <<db, status, own, side, held, position>>
  BY DEF IInv, ReadOffsets, RunInv, TypeOK, FlushInv, StoreInv, Early, In
<1> DEFINE offset == [t \in Tables |-> Len(db[t])]
<1>1. offset \in [Tables -> Nat] /\ \A t \in Tables : offset[t] <= Len(db[t]) /\ Len(db[t]) \in Nat
  BY <1>0, Lengths
<1>2. proc' = IF own[r] = NoRows THEN [proc EXCEPT ![r] = [@ EXCEPT !.pc = "end"]]
              ELSE [proc EXCEPT ![r] = [@ EXCEPT !.pc = "insert", !.offset = offset]]
  BY DEF ReadOffsets
<1> HIDE DEF offset
<1>3. proc[r] \in Procs /\ proc \in [Runs -> Procs] /\ "end" \in Stages /\ "insert" \in Stages
  BY <1>0, ProcTypes DEF Stages
<1>4. proc' \in [Runs -> Procs]
  <2>1. [proc[r] EXCEPT !.pc = "end"] \in Procs /\ [proc[r] EXCEPT !.pc = "insert", !.offset = offset] \in Procs
    BY <1>1, <1>3 DEF Procs
  <2> QED
    BY <1>2, <1>3, <2>1
<1>5. /\ proc'[r].engine = proc[r].engine /\ proc'[r].failed = proc[r].failed
      /\ proc'[r].pc \in {"end", "insert"} /\ (proc'[r].pc = "end" => own[r] = NoRows)
      /\ proc'[r].pc = "insert" => proc'[r].offset = offset
      /\ \A s \in Runs \ {r} : proc'[s] = proc[s]
  BY <1>2, <1>3 DEF Procs
<1>6. /\ RowsOK' /\ Extends(r) /\ Sound(own[r])' /\ (Kept(r) => Kept(r)') /\ (Absent(r) => Absent(r)')
  BY <1>0, QuietKeeps DEF RunInv
<1>7. StoreInv(r)'
  BY <1>0, <1>5, <1>6, AbsentKept DEF StoreInv, Early, Buffers
<1>8. TypeOK'
  BY <1>0, <1>4, <1>6 DEF TypeOK
<1>9. StatusInv(r)' /\ HandInv(r)'
  BY <1>0, <1>5 DEF RunInv, StatusInv, Alive, HandInv, In
<1>10. FlushInv(r)'
  BY <1>0, <1>1, <1>5 DEF FlushInv, Buffers, In
<1>11. PosInv(r)' /\ SideInv(r)'
  BY <1>0, <1>5 DEF RunInv, PosInv, SideInv, HoldsPosition, In
<1>12. OthersSame(r)
  BY <1>0, <1>5 DEF OthersSame
<1> QED
  BY <1>6, <1>7, <1>8, <1>9, <1>10, <1>11, <1>12 DEF RunInv

LEMMA InsertedType ==
  ASSUME TypeOK, NEW r \in Runs, NEW t \in Tables
  PROVE  Inserted(r, t) \in Seq(DbRows)
<1> DEFINE rows == own[r][t]
           offset == proc[r].offset[Parent(t)]
<1>1. rows \in Seq(OwnRows) /\ Len(rows) \in Nat /\ DOMAIN rows = 1 .. Len(rows)
  BY Lengths DEF TypeOK, RowsOK
<1>2. offset \in Nat
  BY ParentTable DEF TypeOK, Procs
<1> HIDE DEF rows, offset
<1>3. ASSUME NEW i \in 1 .. Len(rows)
      PROVE  RowOf(r, rows[i].item, IF rows[i].link = 0 THEN 0 ELSE rows[i].link + offset) \in DbRows
  <2>1. rows[i] \in OwnRows
    BY <1>1
  <2>2. rows[i].item \in Items /\ rows[i].link \in Nat
    BY <2>1 DEF OwnRows
  <2> QED
    BY <1>2, <2>2 DEF RowOf, DbRows
<1>4. Inserted(r, t) = [i \in 1 .. Len(rows) |->
         RowOf(r, rows[i].item, IF rows[i].link = 0 THEN 0 ELSE rows[i].link + offset)]
  BY <1>1 DEF Inserted, rows, offset
<1> QED
  BY <1>1, <1>3, <1>4

LEMMA InsertGood ==
  ASSUME IInv, NEW r \in Runs, Insert(r)
  PROVE  Good(r)
<1> USE DEF Good
<1>0. /\ TypeOK /\ RowsOK /\ RunInv(r) /\ In(r, "insert") /\ Buffers(r) /\ Absent(r)
      /\ UNCHANGED <<status, side, held, position>> /\ Sound(own[r])
      /\ \A t \in Tables : proc[r].offset[t] <= Len(db[t])
  BY DEF IInv, Insert, RunInv, TypeOK, FlushInv, StoreInv, Early, In
<1>1. PICK failed \in BOOLEAN :
        /\ proc' = [proc EXCEPT ![r] = [@ EXCEPT !.pc = "end", !.failed = failed, !.offset = NoOffsets]]
        /\ IF Refused(r) THEN failed ELSE failed = proc[r].failed
  <2>1. proc[r] \in Procs
    BY <1>0, ProcTypes
  <2>2. CASE Refused(r)
    BY <2>2 DEF Insert
  <2>3. CASE ~Refused(r)
    <3>1. proc' = [proc EXCEPT ![r] = [@ EXCEPT !.pc = "end", !.offset = NoOffsets]]
      BY <2>3 DEF Insert
    <3>2. [proc[r] EXCEPT !.pc = "end", !.offset = NoOffsets]
            = [proc[r] EXCEPT !.pc = "end", !.failed = proc[r].failed, !.offset = NoOffsets]
      BY <2>1 DEF Procs
    <3>3. proc[r].failed \in BOOLEAN
      BY <2>1 DEF Procs
    <3> QED
      BY <2>3, <3>1, <3>2, <3>3
  <2> QED
    BY <2>2, <2>3
<1>2. proc[r] \in Procs /\ proc \in [Runs -> Procs] /\ "end" \in Stages /\ NoOffsets \in [Tables -> Nat]
  BY <1>0, ProcTypes DEF Stages, NoOffsets
<1>3. proc' \in [Runs -> Procs]
  <2>1. [proc[r] EXCEPT !.pc = "end", !.failed = failed, !.offset = NoOffsets] \in Procs
    BY <1>2 DEF Procs
  <2> QED
    BY <1>1, <1>2, <2>1
<1>4. /\ proc'[r].pc = "end" /\ proc'[r].engine = proc[r].engine /\ proc'[r].failed = failed
      /\ \A s \in Runs \ {r} : proc'[s] = proc[s]
  BY <1>1, <1>2 DEF Procs
<1>5. StatusInv(r)' /\ HandInv(r)' /\ FlushInv(r)'
  BY <1>0, <1>4 DEF RunInv, StatusInv, Alive, HandInv, FlushInv, In
<1>6. CASE Refused(r)
  <2>1. UNCHANGED db /\ own' = [own EXCEPT ![r] = NoRows]
    BY <1>6 DEF Insert
  <2>2. /\ Kept(r)' /\ RowsOK' /\ Extends(r) /\ Sound(own[r])'
        /\ \A s \in Runs \ {r} : own'[s] = own[s]
    BY <1>0, <2>1, NoneKept
  <2>3. StoreInv(r)'
    BY <1>4, <2>2 DEF StoreInv, Early
  <2>4. failed
    BY <1>1, <1>6
  <2>5. PosInv(r)' /\ SideInv(r)'
    BY <1>4, <2>4 DEF PosInv, SideInv, HoldsPosition
  <2>6. TypeOK'
    BY <1>0, <1>3, <2>2 DEF TypeOK
  <2>7. OthersSame(r)
    BY <1>0, <1>4, <2>2 DEF OthersSame
  <2> QED
    BY <1>5, <2>2, <2>3, <2>5, <2>6, <2>7 DEF RunInv
<1>7. CASE ~Refused(r)
  <2>1. db' = [t \in Tables |-> db[t] \o Inserted(r, t)] /\ UNCHANGED own
    BY <1>7 DEF Insert
  <2>2. RowsOK'
    <3>1. \A t \in Tables : db[t] \in Seq(DbRows) /\ Inserted(r, t) \in Seq(DbRows)
      BY <1>0, InsertedType DEF RowsOK
    <3>2. \A t \in Tables : db[t] \o Inserted(r, t) \in Seq(DbRows)
      BY <3>1
    <3>3. own' \in [Runs -> [Tables -> Seq(OwnRows)]]
      BY <1>0, <2>1 DEF RowsOK
    <3> QED
      BY <2>1, <3>2, <3>3 DEF RowsOK
  <2>3. Kept(r)' /\ Extends(r)
    BY <1>0, <1>7, <2>2, InsertKept
  <2>4. StoreInv(r)'
    BY <1>4, <2>3 DEF StoreInv, Early
  <2>5. failed = proc[r].failed
    BY <1>1, <1>7
  <2>6. PosInv(r)' /\ SideInv(r)'
    BY <1>0, <1>4, <2>1, <2>5 DEF RunInv, PosInv, SideInv, HoldsPosition, In
  <2>7. TypeOK'
    BY <1>0, <1>3, <2>2 DEF TypeOK
  <2>8. OthersSame(r)
    BY <1>0, <1>4, <2>1 DEF OthersSame
  <2>9. Sound(own[r])'
    BY <1>0, <2>1
  <2> QED
    BY <1>5, <2>2, <2>3, <2>4, <2>6, <2>7, <2>8, <2>9 DEF RunInv
<1> QED
  BY <1>6, <1>7
\* A process that ends forgets; its rows are those that are stored.
LEMMA ProcessEnds ==
  ASSUME IInv, NEW r \in Runs, Alive(r), Forgets(r), NEW p \in Procs,
         p.engine = proc[r].engine, p.pc \in {"end", "over", "dead"}, p.failed <=> p.pc = "end",
         proc' = [proc EXCEPT ![r] = p], UNCHANGED db,
         IF Early(r) THEN own' = [own EXCEPT ![r] = NoRows] ELSE own' = own,
         status' \in [Runs -> {"new", "running", "done", "halted", "error"}],
         \A s \in Runs \ {r} : status'[s] = status[s],
         IF p.pc = "over" THEN status'[r] \in {"done", "halted", "error"} ELSE status'[r] = status[r]
  PROVE  Good(r)
<1> USE DEF Good
<1>0. TypeOK /\ RowsOK /\ RunInv(r) /\ status[r] = "running" /\ Sound(own[r])
  BY DEF IInv, RunInv, StatusInv, TypeOK
<1>1. proc'[r] = p /\ proc' \in [Runs -> Procs] /\ \A s \in Runs \ {r} : proc'[s] = proc[s]
  BY <1>0, ProcTypes
<1>2. /\ RowsOK' /\ Extends(r) /\ Sound(own[r])' /\ Kept(r)'
      /\ \A s \in Runs \ {r} : own'[s] = own[s]
  <2>1. CASE Early(r)
    <3>1. Absent(r)
      BY <1>0, <2>1 DEF RunInv, StoreInv
    <3> QED
      BY <1>0, <2>1, <3>1, NoneKept
  <2>2. CASE ~Early(r)
    <3>1. Kept(r)
      BY <1>0, <2>2 DEF RunInv, StoreInv
    <3> QED
      BY <1>0, <2>2, <3>1, QuietKeeps
  <2> QED
    BY <2>1, <2>2
<1>3. /\ side' \in [Runs -> [Tfs -> {-1, 0, 1}]] /\ held' \in [Runs -> [Tfs -> Nat]]
      /\ position' \in [Runs -> [Tfs -> Int]]
      /\ \A s \in Runs \ {r} : side'[s] = side[s] /\ position'[s] = position[s]
  BY <1>0 DEF Forgets, TypeOK
<1>4. TypeOK'
  BY <1>1, <1>2, <1>3 DEF TypeOK
<1>5. StoreInv(r)'
  BY <1>1, <1>2 DEF StoreInv, Early
<1>6. StatusInv(r)'
  BY <1>0, <1>1 DEF StatusInv, Alive, In
<1>7. HandInv(r)' /\ FlushInv(r)' /\ PosInv(r)' /\ SideInv(r)'
  BY <1>1 DEF HandInv, FlushInv, PosInv, SideInv, HoldsPosition, In
<1>8. OthersSame(r)
  BY <1>1, <1>2, <1>3 DEF OthersSame
<1> QED
  BY <1>2, <1>4, <1>5, <1>6, <1>7, <1>8 DEF RunInv

\* The record of a process that is set up anew.
LEMMA Renewed ==
  ASSUME TypeOK, NEW r \in Runs
  PROVE  LET new == NewProc(<<proc[r].engine, proc[r].strategy>>) IN
         /\ new \in Procs /\ new.engine = proc[r].engine /\ ~new.failed
         /\ \A stage \in Stages, stop \in BOOLEAN, failed \in BOOLEAN :
              [new EXCEPT !.pc = stage, !.stop = stop, !.failed = failed] \in Procs
         /\ \A stage \in Stages : [new EXCEPT !.pc = stage] \in Procs
<1> DEFINE setup == <<proc[r].engine, proc[r].strategy>>
           p == NewProc(setup)
<1>1. setup \in {"none", "backtest", "paper", "inmemory"} \X {"none", "breakout", "burst"}
      /\ setup[1] = proc[r].engine
  BY ProcTypes DEF Procs
<1> HIDE DEF setup
<1>2. p \in Procs /\ p.engine = proc[r].engine /\ ~p.failed
  BY <1>1, NewProcType
<1> HIDE DEF p
<1>3. /\ \A stage \in Stages, stop \in BOOLEAN, failed \in BOOLEAN :
           [p EXCEPT !.pc = stage, !.stop = stop, !.failed = failed] \in Procs
      /\ \A stage \in Stages : [p EXCEPT !.pc = stage] \in Procs
  BY <1>2 DEF Procs
<1> QED
  BY <1>2, <1>3 DEF p, setup

LEMMA FailsGood ==
  ASSUME IInv, NEW r \in Runs, Fails(r)
  PROVE  Good(r)
<1> DEFINE new == NewProc(<<proc[r].engine, proc[r].strategy>>)
           p == [new EXCEPT !.pc = "end", !.stop = proc[r].stop, !.failed = TRUE]
<1>0. TypeOK /\ Alive(r) /\ ~In(r, "end") /\ Forgets(r) /\ UNCHANGED <<db, status>>
  BY DEF IInv, Fails
<1>1. proc[r].stop \in BOOLEAN
  BY <1>0, ProcTypes DEF Procs
<1>2. p \in Procs /\ new \in Procs
  <2>1. "end" \in Stages /\ TRUE \in BOOLEAN
    BY DEF Stages
  <2> QED
    BY <1>0, <1>1, <2>1, Renewed
<1>3. new.engine = proc[r].engine
  BY <1>0, Renewed
<1>4. proc' = [proc EXCEPT ![r] = p]
  BY DEF Fails
<1> HIDE DEF new
<1>5. p.engine = proc[r].engine /\ p.pc = "end" /\ p.failed
  BY <1>2, <1>3 DEF Procs
<1> HIDE DEF p
<1>6. Early(r) <=> Buffers(r)
  BY <1>0 DEF Early, Alive, In
<1>7. IF Early(r) THEN own' = [own EXCEPT ![r] = NoRows] ELSE own' = own
  BY <1>6 DEF Fails
<1>8. status' \in [Runs -> {"new", "running", "done", "halted", "error"}]
  BY <1>0 DEF TypeOK
<1> QED
  BY <1>0, <1>2, <1>4, <1>5, <1>7, <1>8, ProcessEnds

LEMMA CrashGood ==
  ASSUME IInv, NEW r \in Runs, Crash(r)
  PROVE  Good(r)
<1> DEFINE new == NewProc(<<proc[r].engine, proc[r].strategy>>)
           p == [new EXCEPT !.pc = "dead"]
<1>0. TypeOK /\ Alive(r) /\ Forgets(r) /\ UNCHANGED <<db, status>>
  BY DEF IInv, Crash
<1>2. p \in Procs /\ new \in Procs /\ ~new.failed
  <2>1. "dead" \in Stages
    BY DEF Stages
  <2> QED
    BY <1>0, <2>1, Renewed
<1>3. new.engine = proc[r].engine
  BY <1>0, Renewed
<1>4. proc' = [proc EXCEPT ![r] = p]
  BY DEF Crash
<1> HIDE DEF new
<1>5. p.engine = proc[r].engine /\ p.pc = "dead" /\ ~p.failed
  BY <1>2, <1>3 DEF Procs
<1> HIDE DEF p
<1>6. Early(r) <=> Buffers(r) /\ ~In(r, "end")
  BY <1>0 DEF Early, Alive, In
<1>7. IF Early(r) THEN own' = [own EXCEPT ![r] = NoRows] ELSE own' = own
  BY <1>6 DEF Crash
<1>8. status' \in [Runs -> {"new", "running", "done", "halted", "error"}]
  BY <1>0 DEF TypeOK
<1> QED
  BY <1>0, <1>2, <1>4, <1>5, <1>7, <1>8, ProcessEnds

LEMMA EndGood ==
  ASSUME IInv, NEW r \in Runs, End(r)
  PROVE  Good(r)
<1> DEFINE new == NewProc(<<proc[r].engine, proc[r].strategy>>)
           p == [new EXCEPT !.pc = "over"]
           final == IF proc[r].stop THEN "halted" ELSE IF proc[r].failed THEN "error" ELSE "done"
<1>0. TypeOK /\ In(r, "end") /\ Alive(r) /\ Forgets(r) /\ UNCHANGED <<db, own>>
  BY DEF IInv, End, Alive, In
<1>2. p \in Procs /\ new \in Procs /\ ~new.failed
  <2>1. "over" \in Stages
    BY DEF Stages
  <2> QED
    BY <1>0, <2>1, Renewed
<1>3. new.engine = proc[r].engine
  BY <1>0, Renewed
<1>4. proc' = [proc EXCEPT ![r] = p]
  BY DEF End
<1> HIDE DEF new
<1>5. p.engine = proc[r].engine /\ p.pc = "over" /\ ~p.failed
  BY <1>2, <1>3 DEF Procs
<1> HIDE DEF p
<1>6. ~Early(r)
  BY <1>0 DEF Early, In
<1>7. status' = [status EXCEPT ![r] = final]
  BY DEF End
<1>8. /\ status' \in [Runs -> {"new", "running", "done", "halted", "error"}]
      /\ status'[r] \in {"done", "halted", "error"}
      /\ \A s \in Runs \ {r} : status'[s] = status[s]
  BY <1>0, <1>7 DEF TypeOK
<1> QED
  BY <1>0, <1>2, <1>4, <1>5, <1>6, <1>8, ProcessEnds

LEMMA SignalledGood ==
  ASSUME IInv, NEW r \in Runs, Signalled(r)
  PROVE  Good(r)
<1> USE DEF Good
<1>0. /\ TypeOK /\ RowsOK /\ RunInv(r) /\ proc[r].pc \in {"bar", "flush", "insert", "end"}
      /\ UNCHANGED <<db, status, own, side, held, position>>
  BY DEF IInv, Signalled, TypeOK
<1>1. proc' = [proc EXCEPT ![r] = [@ EXCEPT !.stop = TRUE]]
  BY DEF Signalled
<1>2. proc[r] \in Procs /\ proc \in [Runs -> Procs]
  BY <1>0, ProcTypes
<1>3. proc' \in [Runs -> Procs]
  <2>1. [proc[r] EXCEPT !.stop = TRUE] \in Procs
    BY <1>2 DEF Procs
  <2> QED
    BY <1>1, <1>2, <2>1
<1>4. /\ proc'[r].pc = proc[r].pc /\ proc'[r].engine = proc[r].engine
      /\ proc'[r].failed = proc[r].failed /\ proc'[r].offset = proc[r].offset
      /\ \A s \in Runs \ {r} : proc'[s] = proc[s]
  BY <1>1, <1>2 DEF Procs
<1>5. /\ RowsOK' /\ Extends(r) /\ Sound(own[r])' /\ (Kept(r) => Kept(r)') /\ (Absent(r) => Absent(r)')
  BY <1>0, QuietKeeps DEF RunInv
<1>6. TypeOK'
  BY <1>0, <1>3, <1>5 DEF TypeOK
<1>7. StoreInv(r)'
  BY <1>0, <1>4, <1>5 DEF RunInv, StoreInv, Early, Buffers
<1>8. StatusInv(r)' /\ HandInv(r)'
  BY <1>0, <1>4 DEF RunInv, StatusInv, Alive, HandInv, In
<1>9. FlushInv(r)'
  BY <1>0, <1>4 DEF RunInv, FlushInv, Buffers, In
<1>10. PosInv(r)' /\ SideInv(r)'
  BY <1>0, <1>4 DEF RunInv, PosInv, SideInv, HoldsPosition, In
<1>11. OthersSame(r)
  BY <1>0, <1>4 DEF OthersSame
<1> QED
  BY <1>5, <1>6, <1>7, <1>8, <1>9, <1>10, <1>11 DEF RunInv
-----------------------------------------------------------------------------
(* The invariant holds in every reachable state.                           *)

LEMMA InitInv == Init => IInv
<1> SUFFICES ASSUME Init PROVE IInv
  OBVIOUS
<1> DEFINE p == [NewProc(<<"none", "none">>) EXCEPT !.pc = "new"]
<1>1. /\ db = NoRows /\ own = [r \in Runs |-> NoRows] /\ status = [r \in Runs |-> "new"]
      /\ proc = [r \in Runs |-> p]
      /\ side = [r \in Runs |-> [tf \in Tfs |-> 0]] /\ held = [r \in Runs |-> [tf \in Tfs |-> 0]]
      /\ position = [r \in Runs |-> [tf \in Tfs |-> 0]]
  BY DEF Init
<1>2. p \in Procs /\ p.pc = "new" /\ p.engine = "none" /\ ~p.failed
  <2> DEFINE new == NewProc(<<"none", "none">>)
  <2>1. new \in Procs /\ new.engine = "none" /\ ~new.failed
    BY NewProcType
  <2>2. "new" \in Stages
    BY DEF Stages
  <2>3. p = [new EXCEPT !.pc = "new"]
    OBVIOUS
  <2> HIDE DEF new, p
  <2> QED
    BY <2>1, <2>2, <2>3 DEF Procs
<1> HIDE DEF p
<1>3. RowsOK
  <2>1. NoRows \in [Tables -> Seq(DbRows)]
    BY DEF NoRows
  <2> QED
    BY <1>1, <2>1, NoneStored DEF RowsOK
<1>4. TypeOK
  BY <1>1, <1>2, <1>3 DEF TypeOK
<1>5. ASSUME NEW r \in Runs PROVE RunInv(r)
  <2>1. proc[r].pc = "new" /\ proc[r].engine = "none" /\ ~proc[r].failed /\ own[r] = NoRows /\ status[r] = "new"
    BY <1>1, <1>2
  <2>2. Absent(r)
    <3>1. \A t \in Tables : DOMAIN db[t] = {}
      BY <1>1 DEF NoRows
    <3> QED
      BY <3>1 DEF Absent
  <2>3. StoreInv(r)
    BY <1>3, <2>1, <2>2, AbsentKept DEF StoreInv
  <2>4. StatusInv(r) /\ HandInv(r) /\ FlushInv(r)
    BY <2>1, <2>2 DEF StatusInv, Alive, HandInv, FlushInv, In
  <2>5. \A tf \in Tfs : position[r][tf] = 0 /\ side[r][tf] = 0
    BY <1>1
  <2>6. PosInv(r)
    BY <2>1, <2>5, NetEmpty DEF PosInv
  <2>7. SideInv(r)
    <3>1. Sign(0) = 0
      BY DEF Sign
    <3> QED
      BY <2>5, <3>1 DEF SideInv
  <2>8. Sound(own[r])
    BY <2>1, NoneStored
  <2> QED
    BY <2>3, <2>4, <2>6, <2>7, <2>8 DEF RunInv
<1> QED
  BY <1>4, <1>5 DEF IInv

LEMMA StepGood ==
  ASSUME IInv, NEW r \in Runs, Step(r) \/ Signalled(r) \/ Crash(r)
  PROVE  Good(r)
BY StartGood, TakeTfGood, TakeMinuteGood, BreakGood, KilledGood, SignalGood, RejectGood, ClampGood,
   OrderGood, FillGood, MirrorGood, ReadOffsetsGood, InsertGood, FailsGood, EndGood, SignalledGood,
   CrashGood DEF Step

LEMMA NextInv == IInv /\ [Next]_vars => IInv'
<1> SUFFICES ASSUME IInv, [Next]_vars PROVE IInv'
  OBVIOUS
<1>0. TypeOK /\ RowsOK
  BY DEF IInv, TypeOK
<1>1. ASSUME NEW r \in Runs, Step(r) \/ Signalled(r) \/ Crash(r)
      PROVE  IInv'
  <2>1. TypeOK' /\ RowsOK' /\ RunInv(r)' /\ Extends(r) /\ OthersSame(r)
    BY <1>1, StepGood DEF Good, TypeOK
  <2>2. ASSUME NEW s \in Runs, s # r PROVE RunInv(s)'
    BY <1>0, <2>1, <2>2, OthersInv DEF IInv
  <2> QED
    BY <2>1, <2>2 DEF IInv
<1>2. CASE UNCHANGED vars
  <2>1. /\ db' = db /\ status' = status /\ own' = own /\ proc' = proc /\ side' = side
        /\ held' = held /\ position' = position
    BY <1>2 DEF vars
  <2>2. TypeOK'
    BY <1>0, <2>1 DEF TypeOK, RowsOK
  <2>3. ASSUME NEW r \in Runs PROVE RunInv(r)'
    <3>1. RunInv(r)
      BY DEF IInv
    <3>2. (Kept(r) => Kept(r)') /\ (Absent(r) => Absent(r)')
      BY <2>1 DEF Kept, Absent
    <3>3. \A t, id : Denotes(r, t, id) => Denotes(r, t, id)'
      BY <2>1 DEF Denotes, Buffers
    <3>4. StoreInv(r)' /\ StatusInv(r)'
      BY <2>1, <3>1, <3>2 DEF RunInv, StoreInv, Early, Buffers, StatusInv, In, Alive
    <3>5. HandInv(r)' /\ FlushInv(r)' /\ PosInv(r)' /\ SideInv(r)'
      <4>1. Denotes(r, "signals", proc[r].signal) => Denotes(r, "signals", proc[r].signal)'
        BY <2>1, <3>3 DEF Denotes, Buffers
      <4>2. Denotes(r, "orders", proc[r].order) => Denotes(r, "orders", proc[r].order)'
        BY <2>1, <3>3 DEF Denotes, Buffers
      <4> QED
        BY <2>1, <3>1, <4>1, <4>2
           DEF RunInv, HandInv, FlushInv, PosInv, SideInv, HoldsPosition, Buffers, In, Intent
    <3> QED
      BY <2>1, <3>1, <3>4, <3>5 DEF RunInv
  <2> QED
    BY <2>2, <2>3 DEF IInv
<1> QED
  BY <1>1, <1>2 DEF Next

THEOREM Invariance == Spec => []IInv
BY InitInv, NextInv, PTL DEF Spec

-----------------------------------------------------------------------------
(* What the database holds of a run.                                       *)

Rec(r) == IF Early(r) THEN NoRows ELSE own[r]
Mapped == \A r \in Runs : Stored(r) = Rec(r)

LEMMA InvMapped == IInv => Mapped
<1> SUFFICES ASSUME IInv, NEW r \in Runs PROVE Stored(r) = Rec(r)
  BY DEF Mapped
<1>1. RowsOK /\ StoreInv(r)
  BY DEF IInv, TypeOK, RunInv
<1> QED
  BY <1>1, StoredKept, StoredAbsent DEF StoreInv, Rec

LEMMA WholeFromInv == IInv => DoneIsWhole
<1> SUFFICES ASSUME IInv, NEW r \in Runs
             PROVE  /\ Stored(r) = own[r] \/ (Buffers(r) /\ Stored(r) = NoRows)
                    /\ status[r] = "done" => Stored(r) = own[r]
  BY DEF DoneIsWhole
<1>1. Stored(r) = Rec(r) /\ StatusInv(r)
  BY InvMapped DEF Mapped, IInv, RunInv
<1> QED
  BY <1>1 DEF Rec, Early, StatusInv, In

\* However many processes write to the database at the same time, it keeps of each
\* run all it did or, of an in-memory run that did not end or whose flush was refused,
\* nothing; a run that is called done has everything (DoneIsWhole).
THEOREM DoneIsAlwaysWhole == Spec => []DoneIsWhole
BY Invariance, WholeFromInv, PTL

LEMMA BelievedFromInv == IInv => FillsAreBelieved
<1> SUFFICES ASSUME IInv, NEW r \in Runs, NEW tf \in Tfs,
                    (In(r, "bar") /\ ~Buffers(r)) \/ (In(r, "end") /\ ~proc[r].failed)
             PROVE  /\ side[r][tf] = Sign(Net(Stored(r), tf))
                    /\ position[r][tf] = Net(Stored(r), tf)
  BY DEF FillsAreBelieved
<1>1. Stored(r) = Rec(r) /\ StatusInv(r) /\ PosInv(r) /\ SideInv(r)
  BY InvMapped DEF Mapped, IInv, RunInv
<1>2. Stored(r) = own[r]
  BY <1>1 DEF Rec, Early, In
<1>3. HoldsPosition(r) /\ proc[r].pc \in {"bar", "end"}
  BY <1>1 DEF HoldsPosition, StatusInv, In
<1> QED
  BY <1>1, <1>2, <1>3 DEF PosInv, SideInv

\* The fills in the database add up to the position that the executor has and the
\* strategy believes: for a direct run at every bar, for any run that ends well -
\* through entries refused after the exit of a reversal, made smaller, or too small
\* to fill, and whatever other runs store in between (FillsAreBelieved).
THEOREM FillsAreAlwaysBelieved == Spec => []FillsAreBelieved
BY Invariance, BelievedFromInv, PTL
-----------------------------------------------------------------------------
(* The database implements RunRecord.                                      *)

\* The record of a run stays as it is, or grows the way RunRecord allows.
Growth(r) ==
  \/ Rec(r)' = Rec(r)
  \/ status[r] = "running" /\ Records!Extended(Rec(r), Rec(r)')

LEMMA AddedExtends ==
  ASSUME NEW rec \in [Tables -> Seq(OwnRows)], NEW t \in Tables, NEW row \in OwnRows
  PROVE  Records!Extended(rec, Added(rec, t, row))
<1> DEFINE new == Added(rec, t, row)
<1>1. rec[t] \in Seq(OwnRows) /\ new[t] = Append(rec[t], row)
  BY DEF Added
<1>2. \A u \in Tables \ {t} : new[u] = rec[u]
  BY DEF Added
<1>3. Len(new[t]) = Len(rec[t]) + 1 /\ SubSeq(new[t], 1, Len(rec[t])) = rec[t]
  <2> DEFINE s == rec[t]
  <2>1. s \in Seq(OwnRows)
    BY <1>1
  <2> HIDE DEF s
  <2>2. Len(Append(s, row)) = Len(s) + 1 /\ SubSeq(Append(s, row), 1, Len(s)) = s
    BY <2>1
  <2> QED
    BY <1>1, <2>2 DEF s
<1> HIDE DEF new
<1>4. Records!Extended(rec, new)
  BY <1>2, <1>3 DEF Records!Extended, Records!Tables, Tables
<1> QED
  BY <1>4 DEF new

\* A step that writes at most one row.
Writes(r) ==
  \/ own' = own
  \/ \E t \in Tables, item \in Items, link \in Nat : Put(r, t, item, link)

LEMMA WritesGrow ==
  ASSUME IInv, NEW r \in Runs, Alive(r), ~In(r, "end"), Writes(r), proc'[r].engine = proc[r].engine,
         Buffers(r) => proc'[r].pc \notin {"end", "over", "dead"}
  PROVE  Growth(r)
<1>1. RowsOK /\ status[r] = "running"
  BY DEF IInv, TypeOK, RunInv, StatusInv
<1>2. CASE Buffers(r)
  <2>1. Early(r) /\ Early(r)'
    BY <1>2 DEF Early, Buffers, Alive, In
  <2> QED
    BY <2>1 DEF Growth, Rec
<1>3. CASE ~Buffers(r)
  <2>1. ~Early(r) /\ ~Early(r)'
    BY <1>3 DEF Early, Buffers
  <2>2. CASE own' = own
    BY <2>1, <2>2 DEF Growth, Rec
  <2>3. CASE \E t \in Tables, item \in Items, link \in Nat : Put(r, t, item, link)
    <3>1. PICK t \in Tables, item \in Items, link \in Nat : Put(r, t, item, link)
      BY <2>3
    <3> DEFINE row == Row(item, OwnLink(r, t, link))
    <3>2. row \in OwnRows /\ own'[r] = Added(own[r], t, row)
      BY <1>1, <3>1, PutShape
    <3>3. own[r] \in [Tables -> Seq(OwnRows)]
      BY <1>1 DEF RowsOK
    <3> HIDE DEF row
    <3>4. Records!Extended(own[r], own'[r])
      BY <3>2, <3>3, AddedExtends
    <3> QED
      BY <1>1, <2>1, <3>4 DEF Growth, Rec
  <2> QED
    BY <2>2, <2>3 DEF Writes
<1> QED
  BY <1>2, <1>3

\* Every step but the first and the last of a run.
LEMMA StepGrowth ==
  ASSUME IInv, NEW r \in Runs,
         \/ TakeTf(r) \/ TakeMinute(r) \/ Break(r) \/ Killed(r) \/ Signal(r) \/ Reject(r)
         \/ Clamp(r) \/ Order(r) \/ Fill(r) \/ Mirror(r) \/ ReadOffsets(r) \/ Insert(r) \/ Fails(r)
         \/ Signalled(r) \/ Crash(r)
  PROVE  status' = status /\ Growth(r)
<1>0. TypeOK /\ RowsOK /\ RunInv(r)
  BY DEF IInv, TypeOK
<1>1. proc[r] \in Procs /\ proc \in [Runs -> Procs] /\ own \in [Runs -> [Tables -> Seq(OwnRows)]]
  BY <1>0, ProcTypes DEF RowsOK
<1>2. {"bars", "signals", "orders", "fills", "snapshots", "events"} \subseteq Tables
      /\ {"kill", "reject", "clamp"} \subseteq Items
  BY DEF Tables, Items
<1>3. proc[r].signal \in Nat /\ proc[r].order \in Nat /\ proc[r].bar.ts \in Nat /\ proc[r].minute \in Nat
  BY <1>1 DEF Procs
<1>4. ASSUME NEW ts \in Nat, PutBar(r, ts) PROVE Writes(r)
  <2>1. ts \in Items /\ 0 \in Nat
    BY DEF Items
  <2> QED
    BY <1>2, <1>4, <2>1 DEF PutBar, Writes
<1>5. CASE TakeTf(r)
  <2>1. /\ In(r, "bar") /\ proc'[r].engine = proc[r].engine /\ proc'[r].pc \in {"mirror", "intent"}
        /\ status' = status /\ (own' = own \/ PutBar(r, Boundary(r)))
    <3>1. PICK tf \in Tfs, place \in Places :
           /\ proc' = [proc EXCEPT ![r].pc = IF Intents(r, tf, place) = <<>> THEN "mirror" ELSE "intent",
                                   ![r].bars = @ + 1,
                                   ![r].bar = [tf |-> tf, ts |-> Boundary(r)],
                                   ![r].todo = Intents(r, tf, place)]
           /\ own' = own \/ PutBar(r, Boundary(r))
      BY <1>5 DEF TakeTf
    <3> DEFINE todo == Intents(r, tf, place)
               stage == IF todo = <<>> THEN "mirror" ELSE "intent"
               b == [tf |-> tf, ts |-> Boundary(r)]
    <3>2. proc' = [proc EXCEPT ![r].pc = stage, ![r].bars = @ + 1, ![r].bar = b, ![r].todo = todo]
      BY <3>1
    <3>3. stage \in {"mirror", "intent"}
      OBVIOUS
    <3>4. In(r, "bar") /\ status' = status
      BY <1>5 DEF TakeTf
    <3> HIDE DEF todo, stage, b
    <3>5. proc'[r].pc = stage /\ proc'[r].engine = proc[r].engine
      BY <1>1, <3>2 DEF Procs
    <3> QED
      BY <3>1, <3>3, <3>4, <3>5
  <2>2. Boundary(r) \in Nat
    BY <1>3 DEF Boundary
  <2>3. Writes(r)
    BY <1>4, <2>1, <2>2 DEF Writes
  <2> QED
    BY <2>1, <2>3, WritesGrow DEF Alive, In
<1>6. CASE TakeMinute(r)
  <2>0. PICK ts \in Minutes(r) :
          /\ proc' = [proc EXCEPT ![r].pc = "mirror", ![r].bars = @ + 1,
                                  ![r].minute = ts, ![r].bar = [tf |-> "1m", ts |-> ts]]
          /\ In(r, "bar") /\ status' = status /\ PutBar(r, ts)
    BY <1>6 DEF TakeMinute
  <2>1. /\ In(r, "bar") /\ proc'[r].engine = proc[r].engine /\ proc'[r].pc = "mirror"
        /\ status' = status /\ PutBar(r, ts)
    <3> DEFINE b == [tf |-> "1m", ts |-> ts]
    <3>1. proc' = [proc EXCEPT ![r].pc = "mirror", ![r].bars = @ + 1, ![r].minute = ts, ![r].bar = b]
      BY <2>0
    <3> HIDE DEF b
    <3>2. proc'[r].engine = proc[r].engine /\ proc'[r].pc = "mirror"
      BY <1>1, <3>1 DEF Procs
    <3> QED
      BY <2>0, <3>2
  <2>2. ts \in Nat
    BY <1>3 DEF Minutes
  <2>3. Writes(r)
    BY <1>4, <2>1, <2>2
  <2> QED
    BY <2>1, <2>3, WritesGrow DEF Alive, In
<1>7. CASE Break(r) \/ Killed(r)
  <2>1. /\ In(r, "bar") /\ proc'[r].engine = proc[r].engine /\ proc'[r].pc = AfterBar(r)
        /\ status' = status /\ (own' = own \/ Put(r, "events", "kill", 0))
    BY <1>1, <1>7 DEF Break, Killed, Goes, Procs
  <2>2. Writes(r)
    BY <1>2, <2>1 DEF Writes
  <2>3. Buffers(r) => proc'[r].pc = "flush"
    BY <2>1 DEF AfterBar
  <2> QED
    BY <2>1, <2>2, <2>3, WritesGrow DEF Alive, In
<1>8. CASE Signal(r)
  <2>1. /\ In(r, "intent") /\ proc'[r].engine = proc[r].engine /\ proc'[r].pc = "judge"
        /\ status' = status /\ Put(r, "signals", Intent(r), 0)
    BY <1>1, <1>8 DEF Signal, Procs
  <2>2. Intent(r) \in Items
    <3>1. proc[r].todo # <<>> /\ proc[r].todo \in Seq(Asked)
      BY <1>0, <1>1, <2>1, ProcTypes DEF RunInv, HandInv, In
    <3>2. Head(proc[r].todo) \in Asked
      BY <3>1
    <3> QED
      BY <3>2 DEF Intent, Items
  <2>3. Writes(r)
    BY <1>2, <2>1, <2>2 DEF Writes
  <2> QED
    BY <2>1, <2>3, WritesGrow DEF Alive, In
<1>9. CASE Reject(r) \/ Clamp(r)
  <2>1. /\ In(r, "judge") /\ proc'[r].engine = proc[r].engine
        /\ proc'[r].pc \in {"intent", "mirror", "order"} /\ status' = status
        /\ Put(r, "events", "reject", proc[r].signal) \/ Put(r, "events", "clamp", proc[r].signal)
    BY <1>1, <1>9 DEF Reject, Clamp, Processed, Goes, Procs
  <2>2. Writes(r)
    BY <1>2, <1>3, <2>1 DEF Writes
  <2> QED
    BY <2>1, <2>2, WritesGrow DEF Alive, In
<1>10. CASE Order(r)
  <2>1. PICK qty \in Quantities(r, Intent(r)) :
          /\ proc[r].pc \in {"judge", "order"} /\ proc'[r].engine = proc[r].engine
          /\ proc'[r].pc \in {"intent", "mirror", "fill"} /\ status' = status
          /\ own' = own \/ Put(r, "orders", [tf |-> Intent(r).tf, qty |-> qty], proc[r].signal)
    BY <1>1, <1>10 DEF Order, Processed, Procs
  <2>2. Intent(r) \in Asked
    <3>1. proc[r].todo # <<>> /\ proc[r].todo \in Seq(Asked)
      BY <1>0, <1>1, <2>1, ProcTypes DEF RunInv, HandInv
    <3>2. Head(proc[r].todo) \in Asked
      BY <3>1
    <3> QED
      BY <3>2 DEF Intent
  <2>3. qty \in Int /\ Intent(r).tf \in Tfs
    BY <1>0, <2>2, QuantityType DEF Asked
  <2>4. [tf |-> Intent(r).tf, qty |-> qty] \in Items
    BY <2>3 DEF Items, Ordered
  <2>5. Writes(r)
    BY <1>2, <1>3, <2>1, <2>4 DEF Writes
  <2> QED
    BY <2>1, <2>5, WritesGrow DEF Alive, In
<1>11. CASE Fill(r)
  <2>1. /\ In(r, "fill") /\ proc'[r].engine = proc[r].engine
        /\ proc'[r].pc \in {"intent", "mirror"} /\ status' = status
        /\ Put(r, "fills", Abs(LastOrder(r).qty), proc[r].order)
    BY <1>1, <1>11 DEF Fill, Processed, Procs
  <2>2. Abs(LastOrder(r).qty) \in Items
    <3>1. Denotes(r, "orders", proc[r].order) /\ Parent("fills") = "orders"
      BY <1>0, <2>1 DEF RunInv, HandInv, Parent, In
    <3>2. Len(own[r].orders) \in DOMAIN own[r].orders /\ own[r].orders[Len(own[r].orders)] = Last(own[r].orders)
      BY <1>0, <1>2, <3>1, LinksToLast
    <3>3. LastOrder(r).qty \in Int
      BY <1>0, <3>2 DEF RunInv, Sound, LastOrder, Ordered
    <3> QED
      BY <3>3, Signs DEF Items
  <2>3. Writes(r)
    BY <1>2, <1>3, <2>1, <2>2 DEF Writes
  <2> QED
    BY <2>1, <2>3, WritesGrow DEF Alive, In
<1>12. CASE Mirror(r)
  <2>1. /\ In(r, "mirror") /\ proc'[r].engine = proc[r].engine /\ proc'[r].pc = "bar"
        /\ status' = status /\ (own' = own \/ Put(r, "snapshots", proc[r].bar.ts, 0))
    BY <1>1, <1>12 DEF Mirror, Procs
  <2>2. proc[r].bar.ts \in Items
    BY <1>3 DEF Items
  <2>3. Writes(r)
    BY <1>2, <2>1, <2>2 DEF Writes
  <2> QED
    BY <2>1, <2>3, WritesGrow DEF Alive, In
<1>13. CASE ReadOffsets(r)
  <2>1. /\ In(r, "flush") /\ proc'[r].engine = proc[r].engine /\ status' = status /\ own' = own
        /\ proc'[r].pc = "insert" \/ own[r] = NoRows
    BY <1>1, <1>13 DEF ReadOffsets, Procs
  <2>2. Rec(r)' = Rec(r)
    BY <2>1 DEF Rec, Early, Buffers, In
  <2> QED
    BY <2>1, <2>2 DEF Growth
<1>14. CASE Insert(r)
  <2>1. /\ In(r, "insert") /\ proc'[r].engine = proc[r].engine /\ status' = status
        /\ proc'[r].pc = "end" /\ (own' = own \/ own' = [own EXCEPT ![r] = NoRows])
    BY <1>1, <1>14 DEF Insert, Procs
  <2>2. Rec(r) = NoRows
    BY <1>0, <2>1 DEF Rec, Early, In, RunInv, FlushInv
  <2>3. status[r] = "running"
    BY <1>0, <2>1 DEF RunInv, StatusInv, Alive, In
  <2>4. Records!Extended(Rec(r), Rec(r)')
    BY <2>2 DEF Records!Extended, Records!NoRows, Records!Tables, NoRows, Tables
  <2> QED
    BY <2>1, <2>3, <2>4 DEF Growth
<1>15. CASE Fails(r) \/ Crash(r)
  <2> DEFINE new == NewProc(<<proc[r].engine, proc[r].strategy>>)
  <2>1. /\ status' = status /\ Alive(r)
        /\ IF Early(r) THEN own' = [own EXCEPT ![r] = NoRows] ELSE own' = own
    BY <1>15 DEF Fails, Crash, Early, Alive, In
  <2>2. /\ proc' = [proc EXCEPT ![r] = [new EXCEPT !.pc = "end", !.stop = proc[r].stop, !.failed = TRUE]]
        \/ proc' = [proc EXCEPT ![r] = [new EXCEPT !.pc = "dead"]]
    BY <1>15 DEF Fails, Crash
  <2>3. new \in Procs
    BY <1>0, Renewed
  <2> HIDE DEF new
  <2>4. proc'[r].pc \in {"end", "dead"}
    <3>1. [new EXCEPT !.pc = "end", !.stop = proc[r].stop, !.failed = TRUE].pc = "end"
          /\ [new EXCEPT !.pc = "dead"].pc = "dead"
      BY <2>3 DEF Procs
    <3> QED
      BY <1>1, <2>2, <3>1
  <2>5. Rec(r)' = own'[r] /\ Rec(r) = own'[r]
    BY <1>1, <2>1, <2>4 DEF Rec, Early
  <2> QED
    BY <2>1, <2>5 DEF Growth
<1>16. CASE Signalled(r)
  <2>1. /\ status' = status /\ own' = own
        /\ proc'[r].engine = proc[r].engine /\ proc'[r].pc = proc[r].pc
    BY <1>1, <1>16 DEF Signalled, Procs
  <2>2. Rec(r)' = Rec(r)
    BY <2>1 DEF Rec, Early, Buffers
  <2> QED
    BY <2>1, <2>2 DEF Growth
<1> QED
  BY <1>5, <1>6, <1>7, <1>8, <1>9, <1>10, <1>11, <1>12, <1>13, <1>14, <1>15, <1>16
LEMMA StepImplements ==
  ASSUME IInv, IInv', Mapped, Mapped', [Next]_vars
  PROVE  [Records!Next]_<<[r \in Runs |-> Stored(r)], status>>
<1> DEFINE record == [r \in Runs |-> Stored(r)]
<1>0. TypeOK /\ RowsOK /\ RowsOK'
  BY DEF IInv, TypeOK
<1>1. record = [r \in Runs |-> Rec(r)] /\ record' = [r \in Runs |-> Rec(r)']
  BY DEF Mapped
<1> HIDE DEF record
<1>2. CASE UNCHANGED vars
  <2>1. \A r \in Runs : Rec(r)' = Rec(r)
    BY <1>2 DEF vars, Rec, Early, Buffers
  <2>2. record' = record /\ status' = status
    BY <1>1, <1>2, <2>1 DEF vars
  <2> QED
    BY <2>2 DEF record
<1>3. ASSUME NEW r \in Runs, Step(r) \/ Signalled(r) \/ Crash(r)
      PROVE  Records!Next \/ UNCHANGED <<record, status>>
  <2>1. OthersSame(r)
    BY <1>3, StepGood DEF Good
  <2>2. \A s \in Runs \ {r} : Rec(s)' = Rec(s)
    BY <2>1 DEF OthersSame, Rec, Early, Buffers
  <2>3. status \in [Runs -> {"new", "running", "done", "halted", "error"}]
    BY <1>0 DEF TypeOK
  <2>4. RunInv(r) /\ RunInv(r)'
    BY DEF IInv
  <2>5. CASE Start(r)
    <3>1. status[r] = "new" /\ status' = [status EXCEPT ![r] = "running"]
      BY <2>4, <2>5 DEF Start, RunInv, StatusInv
    <3>2. own[r] = NoRows /\ own' = own
      BY <2>4, <2>5 DEF Start, RunInv, StatusInv
    <3>3. Rec(r)' = Rec(r)
      BY <3>2 DEF Rec
    <3>4. record' = record
      BY <1>1, <2>2, <3>3
    <3>5. Records!Starts(r)
      BY <3>1, <3>4 DEF Records!Starts, record
    <3> QED
      BY <3>5 DEF Records!Next
  <2>6. CASE End(r)
    <3>1. status[r] = "running" /\ own' = own /\ In(r, "end")
      BY <2>4, <2>6 DEF End, RunInv, StatusInv, Alive, In
    <3>2. \E s \in {"done", "halted", "error"} : status' = [status EXCEPT ![r] = s]
      BY <2>6 DEF End
    <3>3. Rec(r)' = Rec(r)
      <4> DEFINE new == NewProc(<<proc[r].engine, proc[r].strategy>>)
      <4>1. proc' = [proc EXCEPT ![r] = [new EXCEPT !.pc = "over"]]
        BY <2>6 DEF End
      <4>2. new \in Procs /\ proc \in [Runs -> Procs]
        BY <1>0, Renewed, ProcTypes
      <4> HIDE DEF new
      <4>3. proc'[r].pc = "over"
        BY <4>1, <4>2 DEF Procs
      <4> QED
        BY <3>1, <4>3 DEF Rec, Early, In
    <3>4. record' = record
      BY <1>1, <2>2, <3>3
    <3>5. Records!Ends(r)
      BY <3>1, <3>2, <3>4 DEF Records!Ends, Records!Final, record
    <3> QED
      BY <3>5 DEF Records!Next
  <2>7. CASE ~Start(r) /\ ~End(r)
    <3>1. status' = status /\ Growth(r)
      BY <1>3, <2>7, StepGrowth DEF Step
    <3>2. CASE Rec(r)' = Rec(r)
      <4>1. record' = record
        BY <1>1, <2>2, <3>2
      <4> QED
        BY <3>1, <4>1
    <3>3. CASE Rec(r)' # Rec(r)
      <4>1. status[r] = "running" /\ Records!Extended(Rec(r), Rec(r)')
        BY <3>1, <3>3 DEF Growth
      <4>2. Records!Linked(Rec(r)')
        <5>1. Records!Linked(own'[r]) /\ Records!Linked(NoRows)
          BY <2>4, NoneStored DEF RunInv, Sound
        <5> QED
          BY <5>1 DEF Rec
      <4>3. record[r] = Rec(r) /\ record'[r] = Rec(r)'
        BY <1>1
      <4>4. \A s \in Runs \ {r} : record'[s] = record[s]
        BY <1>1, <2>2
      <4>5. Records!Grows(r)
        BY <3>1, <3>3, <4>1, <4>2, <4>3, <4>4 DEF Records!Grows, record
      <4> QED
        BY <4>5 DEF Records!Next
    <3> QED
      BY <3>2, <3>3
  <2> QED
    BY <2>5, <2>6, <2>7
<1>4. CASE Next
  BY <1>3, <1>4 DEF Next, record
<1> QED
  BY <1>2, <1>4 DEF record

LEMMA InitImplements ==
  ASSUME Init, Mapped
  PROVE  Records!Init
<1>1. \A r \in Runs : own[r] = NoRows
  BY DEF Init
<1>2. \A r \in Runs : Stored(r) = NoRows
  BY <1>1 DEF Mapped, Rec
<1> QED
  BY <1>2 DEF Init, Records!Init, Records!NoRows, Records!Tables, NoRows, Tables

\* The database is, run by run, the RunRecord it promises: a step of any process adds
\* one row to its own run's record, or the whole of it, with links that mean what the
\* run meant; it changes no stored row and nothing of another run; and a status is
\* final once (KeepsRecords).
THEOREM RecordsAreKept == Spec => KeepsRecords
<1>1. Init /\ IInv => Records!Init
  BY InvMapped, InitImplements
<1>2. IInv => Mapped
  BY InvMapped
<1>3. IInv /\ IInv' /\ Mapped /\ Mapped' /\ [Next]_vars
        => [Records!Next]_<<[r \in Runs |-> Stored(r)], status>>
  BY StepImplements
<1> QED
  BY <1>1, <1>2, <1>3, Invariance, PTL DEF Spec, KeepsRecords, Records!Spec

-----------------------------------------------------------------------------
(* The shadow book: one history, whoever writes it, for every number of    *)
(* processes, with or without the lock, every revision of the candles and  *)
(* every crash.                                                            *)

Prefix(s, t) == Len(s) <= Len(t) /\ \A i \in 1 .. Len(s) : s[i] = t[i]

\* A run that initializes holds the seed's part of its source; one that
\* advances is somewhere in the book's history and in its source's.
ProcessInv(r) ==
  /\ Len(daily[r]) <= today
  /\ pc[r] = "initialize" => Len(machine[r]) = Seed /\ Prefix(machine[r], daily[r])
  /\ pc[r] = "advance" =>
       /\ Seed <= Len(machine[r])
       /\ Prefix(machine[r], daily[r]) /\ Prefix(machine[r], book)

\* Nothing is decided before the book begins, and it begins with the seed.
BookInv ==
  /\ book = NoBook => decided = {}
  /\ book # NoBook => Len(book) >= Seed
  /\ DecisionsAreOfBook

ShadowInv == BookTypeOK /\ (\A r \in Processes : ProcessInv(r)) /\ BookInv

-----------------------------------------------------------------------------
(* Sequences.                                                              *)

LEMMA UptoType ==
  ASSUME NEW S, NEW s \in Seq(S), NEW d \in Nat
  PROVE  /\ Upto(s, d) \in Seq(S)
         /\ Len(Upto(s, d)) = IF Len(s) <= d THEN Len(s) ELSE d
         /\ \A i \in 1 .. Len(Upto(s, d)) : Upto(s, d)[i] = s[i]
<1> DEFINE n == IF Len(s) <= d THEN Len(s) ELSE d
<1>1. n \in Nat /\ n <= Len(s)
  BY LenProperties
<1>2. \A i \in 1 .. n : s[i] \in S
  BY <1>1, ElementOfSeq, LenProperties
<1>3. /\ SubSeq(s, 1, n) \in Seq(S)
      /\ Len(SubSeq(s, 1, n)) = n
      /\ \A i \in 1 .. n : SubSeq(s, 1, n)[i] = s[i]
  <2> HIDE DEF n
  <2>1. /\ SubSeq(s, 1, n) \in Seq(S)
        /\ Len(SubSeq(s, 1, n)) = IF 1 <= n THEN n - 1 + 1 ELSE 0
        /\ \A i \in 1 .. n - 1 + 1 : SubSeq(s, 1, n)[i] = s[1 + i - 1]
    BY <1>1, <1>2, SubSeqProperties
  <2> QED
    BY <1>1, <2>1
<1> QED
  BY <1>3 DEF Upto

LEMMA UptoPrefix ==
  ASSUME NEW S, NEW s \in Seq(S), NEW d \in Nat
  PROVE  Prefix(Upto(s, d), s)
BY UptoType, LenProperties DEF Prefix

\* Two sequences with a common part have the same candles up to any of its days.
LEMMA UptoOfPrefix ==
  ASSUME NEW S, NEW s \in Seq(S), NEW t \in Seq(S), Prefix(s, t),
         NEW d \in Nat, d <= Len(s)
  PROVE  Upto(s, d) = Upto(t, d)
<1>1. Len(s) \in Nat /\ Len(t) \in Nat /\ d <= Len(t)
  BY LenProperties DEF Prefix
<1>2. Len(Upto(s, d)) = d /\ Len(Upto(t, d)) = d
  BY <1>1, UptoType
<1>3. \A i \in 1 .. d : Upto(s, d)[i] = Upto(t, d)[i]
  <2> TAKE i \in 1 .. d
  <2>1. Upto(s, d)[i] = s[i] /\ Upto(t, d)[i] = t[i]
    BY <1>2, UptoType
  <2>2. s[i] = t[i]
    BY <1>1 DEF Prefix
  <2> QED
    BY <2>1, <2>2
<1> QED
  BY <1>2, <1>3, UptoType, SeqEqual

LEMMA UptoAll ==
  ASSUME NEW S, NEW s \in Seq(S)
  PROVE  Upto(s, Len(s)) = s
BY SubSeqFull, LenProperties DEF Upto

LEMMA PrefixSame ==
  ASSUME NEW S, NEW s \in Seq(S), NEW t \in Seq(S), Prefix(s, t), Len(s) = Len(t)
  PROVE  s = t
BY SeqEqual DEF Prefix

LEMMA PrefixThrough ==
  ASSUME NEW S, NEW s \in Seq(S), NEW t \in Seq(S), NEW u \in Seq(S),
         Prefix(s, t), Prefix(t, u)
  PROVE  Prefix(s, u)
BY LenProperties DEF Prefix

\* One more candle of the source.
LEMMA PrefixNext ==
  ASSUME NEW S, NEW s \in Seq(S), NEW t \in Seq(S), Prefix(s, t), Len(s) < Len(t)
  PROVE  LET n == Append(s, t[Len(s) + 1])
         IN  /\ n \in Seq(S) /\ Len(n) = Len(s) + 1
             /\ Prefix(s, n) /\ Prefix(n, t)
<1>1. Len(s) \in Nat /\ Len(t) \in Nat /\ t[Len(s) + 1] \in S
  BY LenProperties, ElementOfSeq
<1> DEFINE n == Append(s, t[Len(s) + 1])
<1>2. /\ n \in Seq(S) /\ Len(n) = Len(s) + 1 /\ n[Len(s) + 1] = t[Len(s) + 1]
      /\ \A i \in 1 .. Len(s) : n[i] = s[i]
  BY <1>1, AppendProperties
<1> QED
  BY <1>1, <1>2 DEF Prefix

-----------------------------------------------------------------------------
(* The inductive invariant.                                                *)

LEMMA DaysFacts ==
  /\ Seed \in Nat /\ Seed > 0 /\ Overlap \in Nat /\ Overlap > 0
  /\ LastDay \in Nat /\ Seed <= LastDay
BY DaysType

LEMMA ShadowInitInv == BookInit => ShadowInv
<1> SUFFICES ASSUME BookInit PROVE ShadowInv
  OBVIOUS
<1>1. <<>> \in Candles /\ Len(<<>>) = 0
  BY EmptySeq DEF Candles
<1>2. BookTypeOK
  <2>1. Seed \in Days
    BY DaysFacts DEF Days
  <2>2. exchange \in [Days -> Versions]
    BY DEF BookInit
  <2>3. /\ cache \in Candles /\ Len(cache) <= today /\ book \in Candles /\ Len(book) <= today
        /\ daily \in [Processes -> Candles] /\ machine \in [Processes -> Candles]
    BY <1>1, DaysFacts DEF BookInit, NoBook
  <2>4. now \in [Processes -> 1 .. today]
    <3>1. 1 \in 1 .. today
      BY DaysFacts DEF BookInit
    <3> QED
      BY <3>1 DEF BookInit
  <2>5. pc \in [Processes -> {"idle", "down", "lock", "refresh", "read", "open", "create",
                         "import", "restore", "initialize", "advance"}]
    BY DEF BookInit
  <2> QED
    BY <2>1, <2>2, <2>3, <2>4, <2>5 DEF BookInit, BookTypeOK
<1>3. ASSUME NEW r \in Processes PROVE ProcessInv(r)
  <2>1. daily[r] = <<>> /\ pc[r] = "idle" /\ today = Seed
    BY DEF BookInit
  <2> QED
    BY <1>1, <2>1, DaysFacts DEF ProcessInv
<1>4. BookInv
  BY DEF BookInit, BookInv, DecisionsAreOfBook
<1> QED
  BY <1>2, <1>3, <1>4 DEF ShadowInv

\* The refreshed cache reaches the day of the run's clock, and no other.
LEMMA RefreshedType ==
  ASSUME BookTypeOK, NEW d \in 1 .. today
  PROVE  Refreshed(d) \in Candles /\ Len(Refreshed(d)) = d
<1> USE DaysFacts
<1> DEFINE kept == Upto(cache, d)
           from == IF Len(kept) <= Overlap THEN 1 ELSE Len(kept) - Overlap
<1>1. d \in Nat /\ d >= 1 /\ d <= today /\ today \in Days /\ today <= LastDay
  BY DEF BookTypeOK, Days
<1>2. cache \in Seq(Versions) /\ Len(cache) \in Nat
  BY LenProperties DEF BookTypeOK, Candles
<1>3. kept \in Seq(Versions) /\ Len(kept) \in Nat /\ Len(kept) <= d
  BY <1>1, <1>2, UptoType, LenProperties
<1> HIDE DEF kept
<1>4. from \in Nat /\ from >= 1 /\ from <= d /\ from - 1 <= Len(kept)
  BY <1>1, <1>3
<1> HIDE DEF from
<1>5. Upto(kept, from - 1) \in Seq(Versions) /\ Len(Upto(kept, from - 1)) = from - 1
  <2>1. from - 1 \in Nat
    BY <1>4
  <2> QED
    BY <1>3, <1>4, <2>1, UptoType
<1>6. Answer(from, d) \in Seq(Versions) /\ Len(Answer(from, d)) = d - from + 1
  <2> DEFINE n == d - from + 1
  <2>1. n \in Nat
    BY <1>1, <1>4
  <2>2. \A i \in 1 .. n : from + i - 1 \in Days
    BY <1>1, <1>4 DEF Days
  <2>3. \A i \in 1 .. n : exchange[from + i - 1] \in Versions
    BY <2>2 DEF BookTypeOK
  <2>4. Answer(from, d) \in [1 .. n -> Versions]
    BY <2>3 DEF Answer
  <2> HIDE DEF n
  <2>5. Answer(from, d) \in Seq(Versions) /\ Len(Answer(from, d)) = n
    BY <2>1, <2>4
  <2> QED
    BY <2>5 DEF n
<1>7. Refreshed(d) = Upto(kept, from - 1) \o Answer(from, d)
  BY DEF Refreshed, kept, from
<1>8. /\ Refreshed(d) \in Seq(Versions)
      /\ Len(Refreshed(d)) = Len(Upto(kept, from - 1)) + Len(Answer(from, d))
  BY <1>5, <1>6, <1>7, ConcatProperties
<1> QED
  BY <1>1, <1>4, <1>5, <1>6, <1>8 DEF Candles

\* A process that is over keeps nothing.
LEMMA OverInv ==
  ASSUME ShadowInv, NEW r \in Processes, NEW as \in {"idle", "down"}, Over(r, as), UNCHANGED <<cache, store>>
  PROVE  ShadowInv'
<1> USE DaysFacts
<1>0. <<>> \in Candles /\ Len(<<>>) = 0
  BY EmptySeq DEF Candles
<1>1. BookTypeOK'
  <2>1. today \in Days /\ 1 \in 1 .. today
    BY DEF ShadowInv, BookTypeOK, Days
  <2> QED
    BY <1>0, <2>1 DEF ShadowInv, BookTypeOK, Over, store
<1>2. ASSUME NEW q \in Processes PROVE ProcessInv(q)'
  <2>1. CASE q = r
    <3>1. daily'[r] = <<>> /\ pc'[r] = as /\ today' = today /\ today >= 0
      BY DEF Over, ShadowInv, BookTypeOK, Days
    <3> QED
      BY <1>0, <2>1, <3>1 DEF ProcessInv
  <2>2. CASE q # r
    <3>1. daily'[q] = daily[q] /\ pc'[q] = pc[q] /\ machine'[q] = machine[q]
          /\ today' = today /\ book' = book
      BY <2>2 DEF Over, ShadowInv, BookTypeOK, store
    <3> QED
      BY <3>1 DEF ProcessInv, ShadowInv, Prefix
  <2> QED
    BY <2>1, <2>2
<1>3. BookInv'
  BY DEF ShadowInv, BookInv, DecisionsAreOfBook, store
<1> QED
  BY <1>1, <1>2, <1>3 DEF ShadowInv

\* A run that goes on without touching the book or its machine.
LEMMA GoesOn ==
  ASSUME ShadowInv, NEW r \in Processes, BookTypeOK', UNCHANGED <<today, book, decided>>,
         \A q \in Processes \ {r} : UNCHANGED <<daily[q], pc[q], machine[q]>>,
         ProcessInv(r)'
  PROVE  ShadowInv'
<1>1. ASSUME NEW q \in Processes PROVE ProcessInv(q)'
  <2>1. CASE q # r
    BY <2>1 DEF ShadowInv, ProcessInv, Prefix
  <2> QED
    BY <2>1
<1>2. BookInv'
  BY DEF ShadowInv, BookInv, DecisionsAreOfBook
<1> QED
  BY <1>1, <1>2 DEF ShadowInv

\* The new day of one run continues the machine of every other.
LEMMA AdvanceInv ==
  ASSUME ShadowInv, NEW r \in Processes, Advance(r)
  PROVE  /\ ShadowInv'
         /\ book' # book => /\ Prefix(book, book') /\ Len(book') = Len(book) + 1
                            /\ Prefix(book', daily[r])
<1> USE DaysFacts
<1> DEFINE next == Advanced(r)
<1>0. BookTypeOK /\ (\A q \in Processes : ProcessInv(q)) /\ BookInv
  BY DEF ShadowInv
<1>1. /\ machine[r] \in Seq(Versions) /\ daily[r] \in Seq(Versions) /\ book \in Seq(Versions)
      /\ Len(machine[r]) \in Nat /\ Len(daily[r]) \in Nat /\ Len(book) \in Nat
  BY <1>0, LenProperties DEF BookTypeOK, Candles
<1>2. /\ pc[r] = "advance" /\ Len(machine[r]) < Len(daily[r])
      /\ Seed <= Len(machine[r]) /\ Prefix(machine[r], daily[r]) /\ Prefix(machine[r], book)
      /\ Len(daily[r]) <= today
  BY <1>0 DEF Advance, HasNext, ProcessInv
<1>3. /\ next \in Seq(Versions) /\ Len(next) = Len(machine[r]) + 1
      /\ Prefix(machine[r], next) /\ Prefix(next, daily[r])
  BY <1>1, <1>2, PrefixNext DEF Advanced
<1> HIDE DEF next
<1>4. CASE Len(book) = Len(machine[r])
  <2>1. /\ machine' = [machine EXCEPT ![r] = next] /\ book' = next
        /\ decided' = decided \cup {[day |-> Len(next), on |-> next]}
        /\ UNCHANGED <<today, exchange, cache, lock, versions, observed, now, daily, pc>>
    BY <1>1, <1>3, <1>4 DEF Advance, DayStored, next
  <2>2. book = machine[r] /\ book # NoBook
    <3>1. book = machine[r]
      BY <1>1, <1>2, <1>4, PrefixSame
    <3>2. Len(NoBook) = 0 /\ Len(machine[r]) > 0
      BY <1>1, <1>2, EmptySeq DEF NoBook
    <3> QED
      BY <3>1, <3>2
  <2>3. Len(next) \in Days /\ Len(next) <= today
    BY <1>0, <1>1, <1>2, <1>3 DEF BookTypeOK, Days
  <2>4. BookTypeOK'
    <3>1. [day |-> Len(next), on |-> next] \in [day : Days, on : Candles]
      BY <1>3, <2>3 DEF Candles
    <3> QED
      BY <1>0, <1>3, <2>1, <2>3, <3>1 DEF BookTypeOK, Candles
  <2>5. ASSUME NEW q \in Processes PROVE ProcessInv(q)'
    <3>1. CASE q = r
      <4>1. Prefix(next, next)
        BY <1>1, <1>3 DEF Prefix
      <4>2. machine'[q] = next /\ daily'[q] = daily[r] /\ pc'[q] = "advance"
        BY <1>0, <1>2, <2>1, <3>1 DEF BookTypeOK
      <4> QED
        BY <1>1, <1>2, <1>3, <2>1, <4>1, <4>2 DEF ProcessInv
    <3>2. CASE q # r
      <4>1. machine'[q] = machine[q] /\ daily' = daily /\ pc' = pc /\ today' = today
        BY <1>0, <2>1, <3>2 DEF BookTypeOK
      <4>2. pc[q] = "advance" => Prefix(machine[q], book')
        <5>1. machine[q] \in Seq(Versions)
          BY <1>0 DEF BookTypeOK, Candles
        <5> QED
          BY <1>0, <1>1, <1>3, <2>1, <2>2, <5>1, PrefixThrough DEF ProcessInv
      <4> QED
        BY <1>0, <4>1, <4>2 DEF ProcessInv, Prefix
    <3> QED
      BY <3>1, <3>2
  <2>6. BookInv'
    <3>1. decided = {[day |-> d, on |-> Upto(book, d)] : d \in Seed + 1 .. Len(book)}
      BY <1>0, <2>2 DEF BookInv, DecisionsAreOfBook
    <3>2. \A d \in Seed + 1 .. Len(book) : Upto(book, d) = Upto(next, d)
      BY <1>1, <1>3, <2>2, UptoOfPrefix
    <3>3. Upto(next, Len(next)) = next
      BY <1>3, UptoAll
    <3>4. Seed + 1 .. Len(next) = (Seed + 1 .. Len(book)) \cup {Len(next)}
      BY <1>1, <1>2, <1>3, <1>4
    <3>5. decided' = {[day |-> d, on |-> Upto(next, d)] : d \in Seed + 1 .. Len(next)}
      BY <2>1, <3>1, <3>2, <3>3, <3>4
    <3>6. Len(book') >= Seed /\ book' # NoBook
      BY <1>1, <1>2, <1>3, <2>1 DEF NoBook
    <3> QED
      BY <2>1, <3>5, <3>6 DEF BookInv, DecisionsAreOfBook
  <2> QED
    BY <1>3, <2>1, <2>2, <2>4, <2>5, <2>6 DEF ShadowInv
<1>5. CASE Len(book) = Len(machine[r]) + 1 /\ book = next
  <2>1. /\ machine' = [machine EXCEPT ![r] = next]
        /\ UNCHANGED <<today, exchange, cache, lock, store, now, daily, pc>>
    BY <1>1, <1>5 DEF Advance, DayStored, store, next
  <2>2. BookTypeOK'
    BY <1>0, <1>3, <2>1 DEF BookTypeOK, Candles, store
  <2>3. ProcessInv(r)'
    <3>1. Prefix(next, next) /\ machine'[r] = next /\ daily' = daily
      BY <1>0, <1>1, <1>3, <2>1 DEF Prefix, BookTypeOK
    <3> QED
      BY <1>0, <1>1, <1>2, <1>3, <1>5, <2>1, <3>1 DEF ProcessInv, store
  <2> QED
    BY <2>1, <2>2, <2>3, GoesOn DEF store, BookTypeOK, ShadowInv
<1>6. CASE Len(book) # Len(machine[r]) /\ ~(Len(book) = Len(machine[r]) + 1 /\ book = next)
  <2>1. Ended(r) /\ UNCHANGED <<cache, store>>
    BY <1>1, <1>6 DEF Advance, store, next
  <2> QED
    BY <2>1, OverInv DEF Ended, store
<1> QED
  BY <1>1, <1>4, <1>5, <1>6

LEMMA ShadowStepInv ==
  ASSUME ShadowInv, [BookNext]_bookVars
  PROVE  ShadowInv'
<1> USE DaysFacts
<1>0. BookTypeOK /\ (\A r \in Processes : ProcessInv(r)) /\ BookInv
  BY DEF ShadowInv
<1>1. CASE DayEnds
  <2>1. today \in Nat /\ today' = today + 1 /\ today' \in Days
    BY <1>0, <1>1 DEF DayEnds, BookTypeOK, Days
  <2>2. BookTypeOK'
    <3>1. now \in [Processes -> 1 .. today'] /\ Len(cache) <= today' /\ Len(book) <= today'
      <4>1. Len(cache) \in Nat /\ Len(cache) <= today /\ Len(book) \in Nat /\ Len(book) <= today
        BY <1>0, LenProperties DEF BookTypeOK, Candles
      <4>2. now \in [Processes -> 1 .. today] /\ 1 .. today \subseteq 1 .. today'
        BY <1>0, <2>1 DEF BookTypeOK
      <4>3. now \in [Processes -> 1 .. today']
        BY <4>2
      <4> QED
        BY <2>1, <4>1, <4>3
    <3> QED
      BY <1>0, <1>1, <2>1, <3>1 DEF DayEnds, BookTypeOK, store, local
  <2>3. ASSUME NEW r \in Processes PROVE ProcessInv(r)'
    <3>1. Len(daily[r]) <= today' /\ UNCHANGED <<daily, pc, machine, book>>
      BY <1>0, <1>1, <2>1, LenProperties DEF ProcessInv, BookTypeOK, Candles, DayEnds, store, local
    <3> QED
      BY <1>0, <3>1 DEF ProcessInv, Prefix
  <2>4. BookInv'
    BY <1>0, <1>1 DEF DayEnds, store, BookInv, DecisionsAreOfBook
  <2> QED
    BY <2>2, <2>3, <2>4 DEF ShadowInv
<1>2. CASE Revise
  <2>1. PICK d \in 1 .. today, v \in Versions : exchange' = [exchange EXCEPT ![d] = v]
    BY <1>2 DEF Revise
  <2>2. UNCHANGED <<today, cache, lock, store, pc, now, daily, machine>>
    BY <1>2 DEF Revise, local
  <2>3. BookTypeOK'
    BY <1>0, <2>1, <2>2 DEF BookTypeOK, store
  <2>4. ASSUME NEW r \in Processes PROVE ProcessInv(r)'
    BY <1>0, <2>2 DEF ProcessInv, Prefix, store
  <2>5. BookInv'
    BY <1>0, <2>2 DEF BookInv, DecisionsAreOfBook, store
  <2> QED
    BY <2>3, <2>4, <2>5 DEF ShadowInv
<1>3. ASSUME NEW r \in Processes, Begin(r) PROVE ShadowInv'
  <2>1. BookTypeOK'
    <3>1. today \in 1 .. today
      BY <1>0 DEF BookTypeOK, Days
    <3>2. pc' \in [Processes -> {"idle", "down", "lock", "refresh", "read", "open", "create",
                            "import", "restore", "initialize", "advance"}]
      BY <1>0, <1>3 DEF Begin, BookTypeOK
    <3>3. now' \in [Processes -> 1 .. today]
      BY <1>0, <1>3, <3>1 DEF Begin, BookTypeOK
    <3> QED
      BY <1>0, <1>3, <3>2, <3>3 DEF Begin, BookTypeOK, store
  <2>2. ProcessInv(r)'
    BY <1>0, <1>3 DEF Begin, ProcessInv, BookTypeOK
  <2> QED
    BY <1>3, <2>1, <2>2, GoesOn DEF Begin, store, BookTypeOK, ShadowInv
<1>4. ASSUME NEW r \in Processes, Dies(r) PROVE ShadowInv'
  BY <1>4, OverInv DEF Dies
<1>5. ASSUME NEW r \in Processes, Lock(r) PROVE ShadowInv'
  <2>1. CASE lock = NoRun
    <3>1. BookTypeOK'
      BY <1>0, <1>5, <2>1 DEF Lock, BookTypeOK, store
    <3>2. ProcessInv(r)'
      BY <1>0, <1>5, <2>1 DEF Lock, ProcessInv, BookTypeOK
    <3> QED
      BY <1>5, <2>1, <3>1, <3>2, GoesOn DEF Lock, store, BookTypeOK, ShadowInv
  <2>2. CASE lock # NoRun
    BY <1>5, <2>2, OverInv DEF Lock, Ended
  <2> QED
    BY <2>1, <2>2
<1>6. ASSUME NEW r \in Processes, Refresh(r) PROVE ShadowInv'
  <2>1. now[r] \in 1 .. today
    BY <1>0 DEF BookTypeOK
  <2>2. cache' \in Candles /\ Len(cache') <= today'
    BY <1>0, <1>6, <2>1, RefreshedType DEF Refresh
  <2>3. BookTypeOK'
    BY <1>0, <1>6, <2>2 DEF Refresh, BookTypeOK, store
  <2>4. ProcessInv(r)'
    BY <1>0, <1>6 DEF Refresh, ProcessInv, BookTypeOK
  <2> QED
    BY <1>6, <2>3, <2>4, GoesOn DEF Refresh, store, BookTypeOK, ShadowInv
<1>7. ASSUME NEW r \in Processes, Read(r) PROVE ShadowInv'
  <2>1. CASE cache = <<>>
    BY <1>7, <2>1, OverInv DEF Read, Ended
  <2>2. CASE cache # <<>>
    <3>1. now[r] \in Nat /\ now[r] <= today /\ today \in Nat
      BY <1>0 DEF BookTypeOK, Days
    <3>2. cache \in Seq(Versions) /\ Len(cache) \in Nat
      BY <1>0, LenProperties DEF BookTypeOK, Candles
    <3>3. Upto(cache, now[r]) \in Candles /\ Len(Upto(cache, now[r])) <= today
      BY <3>1, <3>2, UptoType DEF Candles
    <3>4. BookTypeOK'
      <4>1. 1 \in 1 .. today
        BY <1>0 DEF BookTypeOK, Days
      <4> QED
        BY <1>0, <1>7, <2>2, <3>3, <4>1 DEF Read, BookTypeOK, store
    <3>5. ProcessInv(r)'
      BY <1>0, <1>7, <2>2, <3>3 DEF Read, ProcessInv, BookTypeOK
    <3> QED
      BY <1>7, <2>2, <3>4, <3>5, GoesOn DEF Read, store, BookTypeOK, ShadowInv
  <2> QED
    BY <2>1, <2>2
<1>8. ASSUME NEW r \in Processes, Import(r) PROVE ShadowInv'
  <2>1. BookTypeOK'
    BY <1>0, <1>8 DEF Import, BookTypeOK
  <2>2. ProcessInv(r)'
    BY <1>0, <1>8 DEF Import, ProcessInv, BookTypeOK
  <2> QED
    BY <1>8, <2>1, <2>2, GoesOn DEF Import, BookTypeOK, ShadowInv
<1>9. ASSUME NEW r \in Processes, Restore(r) PROVE ShadowInv'
  <2>0. /\ daily[r] \in Seq(Versions) /\ book \in Seq(Versions)
        /\ Len(daily[r]) \in Nat /\ Len(book) \in Nat
    BY <1>0, LenProperties DEF BookTypeOK, Candles
  <2>1. CASE book = NoBook /\ Len(daily[r]) >= Seed
    <3> DEFINE seeded == Upto(daily[r], Seed)
    <3>1. /\ machine' = [machine EXCEPT ![r] = seeded] /\ pc' = [pc EXCEPT ![r] = "initialize"]
          /\ UNCHANGED <<today, exchange, cache, lock, store, now, daily>>
      BY <1>9, <2>1, NoBook = <<>> DEF Restore, NoBook
    <3>2. seeded \in Candles /\ Len(seeded) = Seed /\ Prefix(seeded, daily[r])
      <4>1. seeded \in Seq(Versions) /\ Len(seeded) = Seed
        BY <2>0, <2>1, UptoType
      <4>2. Prefix(seeded, daily[r])
        BY <2>0, UptoPrefix
      <4> QED
        BY <4>1, <4>2 DEF Candles
    <3> HIDE DEF seeded
    <3>3. BookTypeOK'
      BY <1>0, <3>1, <3>2 DEF BookTypeOK, store
    <3>4. ProcessInv(r)'
      BY <1>0, <3>1, <3>2 DEF ProcessInv, BookTypeOK
    <3> QED
      BY <3>1, <3>3, <3>4, GoesOn DEF store, BookTypeOK, ShadowInv
  <2>2. CASE book # NoBook /\ Verified(book, daily[r])
    <3>1. /\ machine' = [machine EXCEPT ![r] = book] /\ pc' = [pc EXCEPT ![r] = "advance"]
          /\ UNCHANGED <<today, exchange, cache, lock, store, now, daily>>
      BY <1>9, <2>2 DEF Restore
    <3>2. Prefix(book, daily[r]) /\ Len(book) >= Seed
      BY <1>0, <2>0, <2>2, UptoPrefix DEF Verified, BookInv
    <3>3. BookTypeOK'
      BY <1>0, <3>1 DEF BookTypeOK, store
    <3>4. ProcessInv(r)'
      <4>1. Prefix(book, book)
        BY <2>0 DEF Prefix
      <4> QED
        BY <1>0, <3>1, <3>2, <4>1 DEF ProcessInv, BookTypeOK, store
    <3> QED
      BY <3>1, <3>3, <3>4, GoesOn DEF store, BookTypeOK, ShadowInv
  <2>3. CASE Ended(r)
    BY <1>9, <2>3, OverInv DEF Restore, Ended
  <2> QED
    BY <1>9, <2>1, <2>2, <2>3 DEF Restore
<1>10. ASSUME NEW r \in Processes, Initialize(r) PROVE ShadowInv'
  <2>1. CASE book \notin {NoBook, machine[r]}
    <3>1. Over(r, "idle") /\ UNCHANGED <<cache, store>>
      BY <1>10, <2>1 DEF Initialize, Ended, store
    <3> QED
      BY <3>1, OverInv
  <2>2. CASE book \in {NoBook, machine[r]}
    <3>1. /\ book' = machine[r] /\ pc' = [pc EXCEPT ![r] = "advance"]
          /\ UNCHANGED <<today, exchange, cache, lock, versions, observed, decided, now, daily, machine>>
      BY <1>10, <2>2 DEF Initialize
    <3>2. /\ machine[r] \in Candles /\ Len(machine[r]) = Seed /\ Prefix(machine[r], daily[r])
          /\ Len(machine[r]) <= today
      BY <1>0, <1>10, LenProperties DEF Initialize, ProcessInv, BookTypeOK, Prefix, Candles, Days
    <3>3. BookTypeOK'
      BY <1>0, <3>1, <3>2 DEF BookTypeOK
    <3>4. ASSUME NEW q \in Processes PROVE ProcessInv(q)'
      <4>1. Prefix(machine[q], machine[q])
        BY <1>0, LenProperties DEF Prefix, BookTypeOK, Candles
      <4>2. CASE q = r
        BY <1>0, <3>1, <3>2, <4>1, <4>2 DEF ProcessInv, BookTypeOK, Prefix
      <4>3. CASE q # r
        <5>1. pc'[q] = pc[q] /\ daily' = daily /\ machine' = machine /\ today' = today
          BY <1>0, <3>1, <4>3 DEF BookTypeOK
        <5>2. pc[q] = "advance" => book # NoBook
          BY <1>0, LenProperties DEF ProcessInv, Prefix, NoBook, BookTypeOK, Candles
        <5>3. pc[q] = "advance" => book' = book
          BY <2>2, <3>1, <5>2
        <5> QED
          BY <1>0, <5>1, <5>3 DEF ProcessInv, Prefix
      <4> QED
        BY <4>2, <4>3
    <3>5. BookInv'
      <4>1. book' # NoBook
        BY <3>1, <3>2 DEF NoBook
      <4>2. CASE book = NoBook
        <5>1. decided' = {} /\ Len(book') = Seed
          BY <1>0, <3>1, <3>2, <4>2 DEF BookInv
        <5>2. Seed + 1 .. Len(book') = {}
          BY <5>1
        <5> QED
          BY <4>1, <5>1, <5>2 DEF BookInv, DecisionsAreOfBook
      <4>3. CASE book = machine[r]
        BY <1>0, <3>1, <4>1, <4>3 DEF BookInv, DecisionsAreOfBook
      <4> QED
        BY <2>2, <4>2, <4>3
    <3> QED
      BY <3>3, <3>4, <3>5 DEF ShadowInv
  <2> QED
    BY <2>1, <2>2
<1>11. ASSUME NEW r \in Processes, Advance(r) PROVE ShadowInv'
  BY <1>0, <1>11, AdvanceInv DEF ShadowInv
<1>12. ASSUME NEW r \in Processes, Finish(r) PROVE ShadowInv'
  BY <1>12, OverInv DEF Finish, Ended
<1>13. ASSUME NEW r \in Processes, Open(r) PROVE ShadowInv'
  <2>1. CASE versions <= 1
    <3>1. /\ pc' = [pc EXCEPT ![r] = IF versions = 0 THEN "create" ELSE "import"]
          /\ UNCHANGED <<today, exchange, cache, lock, store, now, daily, machine>>
      BY <1>0, <1>13, <2>1 DEF Open, BookTypeOK
    <3>2. BookTypeOK'
      BY <1>0, <3>1 DEF BookTypeOK, store
    <3>3. ProcessInv(r)'
      BY <1>0, <3>1 DEF ProcessInv, BookTypeOK
    <3> QED
      BY <3>1, <3>2, <3>3, GoesOn DEF store, BookTypeOK, ShadowInv
  <2>2. CASE Ended(r)
    BY <1>13, <2>2, OverInv DEF Open, Ended
  <2> QED
    BY <1>13, <2>1, <2>2 DEF Open
<1>14. ASSUME NEW r \in Processes, Create(r) PROVE ShadowInv'
  <2>1. BookTypeOK'
    BY <1>0, <1>14 DEF Create, BookTypeOK
  <2>2. ProcessInv(r)'
    BY <1>0, <1>14 DEF Create, ProcessInv, BookTypeOK
  <2> QED
    BY <1>14, <2>1, <2>2, GoesOn DEF Create, BookTypeOK, ShadowInv
<1>15. CASE UNCHANGED bookVars
  <2>1. BookTypeOK'
    BY <1>0, <1>15 DEF bookVars, store, local, BookTypeOK
  <2>2. ASSUME NEW r \in Processes PROVE ProcessInv(r)'
    BY <1>0, <1>15 DEF bookVars, store, local, ProcessInv, Prefix
  <2>3. BookInv'
    BY <1>0, <1>15 DEF bookVars, store, local, BookInv, DecisionsAreOfBook
  <2> QED
    BY <2>1, <2>2, <2>3 DEF ShadowInv
<1> QED
  BY <1>1, <1>2, <1>3, <1>4, <1>5, <1>6, <1>7, <1>8, <1>9, <1>10, <1>11, <1>12, <1>13, <1>14, <1>15
  DEF BookNext, BookStep

\* strategy_decisions and machine_state tell one story, whatever runs overlap,
\* crash or read other versions of the candles.
THEOREM BookIsConsistent == BookSpec => []DecisionsAreOfBook
<1>1. ShadowInv => DecisionsAreOfBook
  BY DEF ShadowInv, BookInv
<1> QED
  BY ShadowInitInv, ShadowStepInv, <1>1, PTL DEF BookSpec

\* The type invariant, with the bounds by the days that are over.
THEOREM ShadowTypesCorrect == BookSpec => []BookTypeOK
<1>1. ShadowInv => BookTypeOK
  BY DEF ShadowInv
<1> QED
  BY ShadowInitInv, ShadowStepInv, <1>1, PTL DEF BookSpec

\* A stored history is never rewritten: each step of the book adds one day to it,
\* and comes from the source of one run.
LEMMA StepAppends ==
  ASSUME ShadowInv, [BookNext]_bookVars
  PROVE  [/\ Upto(book', Len(book)) = book
          /\ book = NoBook \/ Len(book') = Len(book) + 1
          /\ \E r \in Processes : book' = Upto(daily[r], Len(book'))]_book
<1> USE DaysFacts
<1> SUFFICES ASSUME book' # book
             PROVE  /\ Upto(book', Len(book)) = book
                    /\ book = NoBook \/ Len(book') = Len(book) + 1
                    /\ \E r \in Processes : book' = Upto(daily[r], Len(book'))
  OBVIOUS
<1>0. BookTypeOK /\ (\A r \in Processes : ProcessInv(r))
  BY DEF ShadowInv
<1>1. book \in Seq(Versions) /\ book' \in Seq(Versions)
      /\ Len(book) \in Nat /\ Len(book') \in Nat
  BY <1>0, ShadowStepInv, LenProperties DEF ShadowInv, BookTypeOK, Candles
<1>2. PICK r \in Processes : Initialize(r) \/ Advance(r)
  BY DEF BookNext, BookStep, bookVars, store, local, DayEnds, Revise, Begin, Dies, Lock, Refresh, Read,
         Open, Create, Import, Restore, Finish
<1>3. daily[r] \in Seq(Versions)
  BY <1>0 DEF BookTypeOK, Candles
<1>4. ASSUME Prefix(book', daily[r])
      PROVE  \E q \in Processes : book' = Upto(daily[q], Len(book'))
  <2>1. Upto(book', Len(book')) = Upto(daily[r], Len(book'))
    BY <1>1, <1>3, <1>4, UptoOfPrefix
  <2> QED
    BY <1>1, <2>1, UptoAll
<1>5. CASE Initialize(r)
  <2>1. book = NoBook /\ book' = machine[r] /\ Prefix(machine[r], daily[r])
    BY <1>0, <1>5 DEF Initialize, ProcessInv
  <2>2. Upto(book', 0) = <<>>
    BY <1>1, UptoType, EmptySeq
  <2> QED
    BY <1>4, <2>1, <2>2 DEF NoBook
<1>6. CASE Advance(r)
  <2>1. /\ Prefix(book, book') /\ Len(book') = Len(book) + 1
        /\ Prefix(book', daily[r])
    BY <1>6, AdvanceInv
  <2>2. Upto(book', Len(book)) = book
    <3>1. Upto(book, Len(book)) = Upto(book', Len(book))
      BY <1>1, <2>1, UptoOfPrefix
    <3> QED
      BY <1>1, <3>1, UptoAll
  <2> QED
    BY <1>4, <2>1, <2>2
<1> QED
  BY <1>2, <1>5, <1>6

\* No run, whatever it read and however it is interleaved, replaces a stored day
\* or stores a day that its own source does not continue.
THEOREM BookOnlyGrows == BookSpec => OneSourceAppends
<1>1. ShadowInv /\ [BookNext]_bookVars =>
        [/\ Upto(book', Len(book)) = book
         /\ book = NoBook \/ Len(book') = Len(book) + 1
         /\ \E r \in Processes : book' = Upto(daily[r], Len(book'))]_book
  BY StepAppends
<1> QED
  BY ShadowInitInv, ShadowStepInv, <1>1, PTL DEF BookSpec, OneSourceAppends

-----------------------------------------------------------------------------
(* The first run.  Between reading that there is no version and inserting  *)
(* one nothing but the job's lock keeps another first run out, so that all *)
(* runs have to take it.                                                   *)

Inside(r) == pc[r] \notin {"idle", "down", "lock"}

\* Only the run that holds the lock is inside, and what it has read stands.
SetUpInv ==
  /\ \A r \in Processes : Inside(r) => lock = r
  /\ \A r \in Processes : pc[r] = "create" => versions = 0
  /\ SetUpOnce

LEMMA SetUpStepInv ==
  ASSUME Processes = Jobs, ShadowInv, SetUpInv, [BookNext]_bookVars
  PROVE  SetUpInv'
<1>0. /\ BookTypeOK /\ NoRun \notin Processes
      /\ \A q \in Processes : Inside(q) => lock = q
      /\ \A q \in Processes : pc[q] = "create" => versions = 0
      /\ versions \in Nat /\ versions <= 1
  BY NoRunType DEF ShadowInv, SetUpInv, SetUpOnce, BookTypeOK
<1>1. ASSUME UNCHANGED <<lock, pc, versions>> PROVE SetUpInv'
  BY <1>1 DEF SetUpInv, SetUpOnce, Inside
<1>2. ASSUME NEW r \in Processes, NEW as \in {"idle", "down"}, Over(r, as), versions' = versions
      PROVE  SetUpInv'
  BY <1>0, <1>2 DEF Over, SetUpInv, SetUpOnce, Inside, BookTypeOK
<1>3. ASSUME NEW r \in Processes, Inside(r), UNCHANGED <<lock, versions>>,
             NEW at, pc' = [pc EXCEPT ![r] = at], at = "create" => versions = 0
      PROVE  SetUpInv'
  BY <1>0, <1>3 DEF SetUpInv, SetUpOnce, Inside, BookTypeOK
<1>4. ASSUME NEW r \in Processes, Begin(r) PROVE SetUpInv'
  <2>1. pc' = [pc EXCEPT ![r] = "lock"] /\ UNCHANGED <<lock, versions>>
    BY <1>4 DEF Begin, store
  <2> QED
    BY <1>0, <2>1 DEF SetUpInv, SetUpOnce, Inside, BookTypeOK
<1>5. ASSUME NEW r \in Processes, Lock(r) PROVE SetUpInv'
  <2>1. CASE lock = NoRun
    <3>1. /\ pc[r] = "lock" /\ pc' = [pc EXCEPT ![r] = "refresh"]
          /\ lock' = r /\ versions' = versions
      BY <1>5, <2>1 DEF Lock, store
    <3>2. \A q \in Processes : ~Inside(q)
      BY <1>0, <2>1
    <3> QED
      BY <1>0, <3>1, <3>2 DEF SetUpInv, SetUpOnce, Inside, BookTypeOK
  <2>2. CASE lock # NoRun
    BY <1>2, <1>5, <2>2 DEF Lock, Ended, store
  <2> QED
    BY <2>1, <2>2
<1>6. ASSUME NEW r \in Processes, Create(r) PROVE SetUpInv'
  <2>1. /\ versions' = 1 /\ lock' = lock /\ lock = r
        /\ pc[r] = "create" /\ pc' = [pc EXCEPT ![r] = "import"]
    BY <1>0, <1>6 DEF Create, Inside
  <2>2. \A q \in Processes \ {r} : ~Inside(q)
    BY <1>0, <2>1
  <2> QED
    BY <1>0, <2>1, <2>2 DEF SetUpInv, SetUpOnce, Inside, BookTypeOK
<1>7. ASSUME NEW r \in Processes, Refresh(r) \/ Read(r) PROVE SetUpInv'
  BY <1>2, <1>3, <1>7 DEF Refresh, Read, Ended, Inside, store
<1>8. ASSUME NEW r \in Processes, Open(r) PROVE SetUpInv'
  BY <1>2, <1>3, <1>8 DEF Open, Ended, Inside, store
<1>9. ASSUME NEW r \in Processes, Import(r) \/ Restore(r) \/ Initialize(r) PROVE SetUpInv'
  BY <1>2, <1>3, <1>9 DEF Import, Restore, Initialize, Ended, Inside, store
<1>10. ASSUME NEW r \in Processes, Advance(r) \/ Finish(r) PROVE SetUpInv'
  BY <1>1, <1>2, <1>10 DEF Advance, DayStored, Finish, Ended, store
<1>11. ASSUME NEW r \in Processes, Dies(r) PROVE SetUpInv'
  BY <1>2, <1>11 DEF Dies, store
<1>12. ASSUME DayEnds \/ Revise \/ UNCHANGED bookVars PROVE SetUpInv'
  BY <1>1, <1>12 DEF DayEnds, Revise, bookVars, store, local
<1> QED
  BY <1>4, <1>5, <1>6, <1>7, <1>8, <1>9, <1>10, <1>11, <1>12 DEF BookNext, BookStep

\* When every run takes the job's lock, no number of jobs, however they crash, sets
\* the store up twice.  What breaks StateStaysUsable is a run without the lock.
THEOREM LockedRunsSetUpOnce ==
  ASSUME Processes = Jobs
  PROVE  BookSpec => []SetUpOnce
<1>1. BookInit => SetUpInv
  BY DEF BookInit, SetUpInv, SetUpOnce, Inside
<1>2. ShadowInv /\ SetUpInv /\ [BookNext]_bookVars => SetUpInv'
  BY SetUpStepInv
<1>3. SetUpInv => SetUpOnce
  BY DEF SetUpInv
<1> QED
  BY ShadowInitInv, ShadowStepInv, <1>1, <1>2, <1>3, PTL DEF BookSpec

=============================================================================
