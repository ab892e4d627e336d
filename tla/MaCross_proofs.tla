---------------------------- MODULE MaCross_proofs ----------------------------
(***************************************************************************)
(* For every length of the cooldowns, every mode and every feed: nothing is *)
(* opened while a cooldown runs, what is retried is what the present        *)
(* verdict asks for, and after an external close a live bar comes first.    *)
(***************************************************************************)
EXTENDS MaCross, FiniteSetTheorems, WellFoundedInduction, TLAPS

Orders == Entries \cup {"exit"}

Outcomes == [mem : Memory, side : Sides, out : Seq(Orders)]

\* A target that is to be sent again is that of the verdict.
Current(m) == m.pending \in Entries => m.pending = Target(m.verdict)

\* An outcome that opens something leaves no cooldown running.
Cautious(v) == \A i \in 1 .. Len(v.out) : v.out[i] \in Entries => ~Cooling(v.mem)

Sound(v) == v \in Outcomes /\ Current(v.mem) /\ Cautious(v)

LEMMA CountFacts == WinCount \in Nat /\ LossCount \in Nat /\ SameBarFlip \in BOOLEAN
BY CountsType, SameBarFlipType

LEMMA TargetType ==
  ASSUME NEW v \in Verdicts
  PROVE  /\ Target(v) \in Sides
         /\ v # "FLAT" => Target(v) \in Entries
BY DEF Verdicts, Target, Sides, Entries

-----------------------------------------------------------------------------
(* What the methods make of a memory.                                      *)

LEMMA QuietOutcome ==
  ASSUME NEW m \in Memory, NEW side \in Sides, Current(m)
  PROVE  Sound(Outcome(m, side, <<>>))
BY DEF Sound, Outcomes, Outcome, Cautious

LEMMA ExitOutcome ==
  ASSUME NEW m \in Memory, Current(m)
  PROVE  Sound(Outcome(m, "none", <<"exit">>))
BY DEF Sound, Outcomes, Outcome, Cautious, Orders, Entries, Sides

LEMMA SpentSound ==
  ASSUME NEW m \in Memory
  PROVE  /\ Spent(m) \in Memory
         /\ Spent(m).pending = m.pending /\ Spent(m).verdict = m.verdict
         /\ Spent(m).reset = m.reset
<1> DEFINE w == IF m.win > 0 THEN m.win - 1 ELSE m.win
           l == IF m.loss > 0 THEN m.loss - 1 ELSE m.loss
<1>1. w \in 0 .. WinCount /\ l \in 0 .. LossCount
  BY CountFacts DEF Memory
<1>2. Spent(m) = [m EXCEPT !.win = w, !.loss = l]
  BY DEF Spent, Memory
<1> HIDE DEF w, l
<1> QED
  BY <1>1, <1>2 DEF Memory

LEMMA StartCooldownsSound ==
  ASSUME NEW m \in Memory, NEW result
  PROVE  /\ StartCooldowns(m, result) \in Memory
         /\ StartCooldowns(m, result).pending = m.pending
         /\ StartCooldowns(m, result).verdict = m.verdict
         /\ StartCooldowns(m, result).reset = m.reset
         /\ ~Cooling(m) /\ ~Starts(result) => ~Cooling(StartCooldowns(m, result))
<1> DEFINE w == IF result = "win" THEN WinCount ELSE m.win
           l == IF result = "loss" THEN LossCount ELSE m.loss
<1>1. w \in 0 .. WinCount /\ l \in 0 .. LossCount
  BY CountFacts DEF Memory
<1>2. StartCooldowns(m, result) = [m EXCEPT !.win = w, !.loss = l]
  BY DEF StartCooldowns, Memory
<1>3. ~Cooling(m) /\ ~Starts(result) => ~(w > 0 \/ l > 0)
  BY CountFacts DEF Cooling, Starts, Memory
<1> HIDE DEF w, l
<1> QED
  BY <1>1, <1>2, <1>3 DEF Memory, Cooling

LEMMA OnTransitionSound ==
  ASSUME NEW m \in Memory, NEW side \in Sides, NEW result \in Results,
         Current(m), ~Cooling(m) \/ ~WouldOrder(side, m.verdict)
  PROVE  /\ Sound(OnTransition(m, side, m.verdict, result))
         /\ OnTransition(m, side, m.verdict, result).mem.reset = m.reset
<1> DEFINE t == Target(m.verdict)
           b == [m EXCEPT !.pending = t]
           f == [m EXCEPT !.pending = "flat"]
<1>0. m.verdict \in Verdicts /\ t \in Sides /\ (m.verdict # "FLAT" => t \in Entries)
  BY TargetType DEF Memory
<1>1. CASE ~WouldOrder(side, m.verdict)
  BY <1>1, QuietOutcome DEF OnTransition, Outcome
<1>2. CASE WouldOrder(side, m.verdict)
  <2>1. t \in Entries /\ ~Cooling(m)
    BY <1>0, <1>2 DEF WouldOrder
  <2>2. b \in Memory /\ Current(b) /\ ~Cooling(b) /\ b.reset = m.reset
    BY <2>1 DEF Memory, Current, Cooling, Sides
  <2>3. f \in Memory /\ Current(f) /\ f.reset = m.reset
    BY DEF Memory, Current, Entries
  <2>4. CASE side = "none"
    <3>1. OnTransition(m, side, m.verdict, result) = Outcome(b, t, <<t>>)
      BY <1>2, <2>4 DEF OnTransition
    <3>2. Sound(Outcome(b, t, <<t>>))
      BY <1>0, <2>1, <2>2 DEF Sound, Outcomes, Outcome, Cautious, Orders
    <3> HIDE DEF b
    <3> QED
      BY <2>2, <3>1, <3>2 DEF Outcome
  <2>5. CASE side # "none" /\ Flips(result)
    <3> DEFINE c == StartCooldowns(b, result)
    <3>1. OnTransition(m, side, m.verdict, result) = Outcome(c, t, <<"exit", t>>)
      BY <1>2, <2>5 DEF OnTransition
    <3>2. c \in Memory /\ Current(c) /\ c.reset = m.reset
      BY <2>2, StartCooldownsSound DEF Current
    <3>3. ~Cooling(c)
      BY <2>2, <2>5, StartCooldownsSound DEF Flips
    <3>4. Sound(Outcome(c, t, <<"exit", t>>))
      BY <1>0, <2>1, <3>2, <3>3 DEF Sound, Outcomes, Outcome, Cautious, Orders
    <3> QED
      BY <3>1, <3>2, <3>4 DEF Outcome
  <2>6. CASE side # "none" /\ ~Flips(result)
    <3> DEFINE c == StartCooldowns(f, result)
    <3>1. OnTransition(m, side, m.verdict, result) = Outcome(c, "none", <<"exit">>)
      BY <1>2, <2>6 DEF OnTransition
    <3>2. c \in Memory /\ Current(c) /\ c.reset = m.reset
      BY <2>3, StartCooldownsSound DEF Current
    <3> QED
      BY <3>1, <3>2, ExitOutcome DEF Outcome
  <2> QED
    BY <2>4, <2>5, <2>6
<1> QED
  BY <1>1, <1>2

LEMMA CoolingExitSound ==
  ASSUME NEW m \in Memory
  PROVE  Sound(CoolingExit(m)) /\ CoolingExit(m).mem.reset = m.reset
<1> DEFINE f == [m EXCEPT !.pending = "flat"]
<1>1. f \in Memory /\ Current(f) /\ f.reset = m.reset
  BY DEF Memory, Current, Entries
<1> QED
  BY <1>1, ExitOutcome DEF CoolingExit, Outcome

LEMMA RetrySound ==
  ASSUME NEW m \in Memory, NEW side \in Sides, NEW result \in Results, Current(m)
  PROVE  Sound(Retry(m, side, result)) /\ Retry(m, side, result).mem.reset = m.reset
BY QuietOutcome, OnTransitionSound DEF Retry, Outcome

LEMMA CatchUpSound ==
  ASSUME NEW m \in Memory, NEW side \in Sides, NEW result \in Results, Current(m),
         ~(Cooling(m) /\ Opposes(side, m.verdict))
  PROVE  Sound(CatchUp(m, side, result)) /\ CatchUp(m, side, result).mem.reset = m.reset
BY QuietOutcome, OnTransitionSound DEF CatchUp, Outcome

LEMMA TakenInSound ==
  ASSUME NEW m \in Memory, NEW v \in Verdicts, Current(m)
  PROVE  /\ TakenIn(m, v) \in Memory
         /\ Current(TakenIn(m, v))
         /\ TakenIn(m, v).reset = m.reset
         /\ TakenIn(m, v).verdict = v
         /\ m.pending = "none" => TakenIn(m, v).pending = "none"
         /\ Cooling(TakenIn(m, v)) <=> Cooling(m)
<1> DEFINE p == IF v = m.verdict THEN m.pending ELSE "none"
           a == m.at + 1
<1>1. p \in Sides \cup {"flat"} /\ (m.pending = "none" => p = "none") /\ a \in Nat
  BY DEF Memory, Sides
<1>2. p \in Entries => p = Target(v)
  BY DEF Current, Entries
<1>3. TakenIn(m, v) = [m EXCEPT !.at = a, !.verdict = v, !.pending = p]
  BY DEF TakenIn, Memory
<1> HIDE DEF p, a
<1> QED
  BY <1>1, <1>2, <1>3 DEF Memory, Current, Cooling

\* A change of verdict that spends no slot although a cooldown runs places no order.
LEMMA UnspentPlacesNothing ==
  ASSUME NEW m \in Memory, NEW side, Cooling(m), ~Spends(m, side, TRUE)
  PROVE  ~WouldOrder(side, m.verdict)
BY ModeType DEF Spends, Consumes, WouldOrder

LEMMA ResumedSound ==
  ASSUME NEW m \in Memory, NEW side \in Sides, NEW changed \in BOOLEAN,
         NEW result \in Results, Current(m)
  PROVE  /\ Sound(Resumed(m, side, changed, result))
         /\ Resumed(m, side, changed, result).mem.reset = m.reset
<1> DEFINE spends == Spends(m, side, changed)
           paid == IF spends THEN Spent(m) ELSE m
           known == [m EXCEPT !.restart = FALSE]
           done == [paid EXCEPT !.restart = FALSE]
<1>1. known \in Memory /\ Current(known) /\ known.reset = m.reset /\ known.verdict = m.verdict
      /\ (Cooling(known) <=> Cooling(m))
  BY DEF Memory, Current, Cooling
<1>2. done \in Memory /\ Current(done) /\ done.reset = m.reset
  <2>1. paid \in Memory /\ Current(paid) /\ paid.reset = m.reset
    BY SpentSound DEF Current
  <2> QED
    BY <2>1 DEF Memory, Current
<1>3. CASE Cooling(m) /\ Opposes(side, m.verdict)
  BY <1>2, <1>3, CoolingExitSound DEF Resumed
<1>4. CASE ~(Cooling(m) /\ Opposes(side, m.verdict)) /\ m.pending = "flat" /\ side # "none"
  BY <1>1, <1>4, ExitOutcome DEF Resumed, Outcome
<1> DEFINE above == \/ Cooling(m) /\ Opposes(side, m.verdict)
                    \/ m.pending = "flat" /\ side # "none"
<1>5. CASE ~above /\ spends
  BY <1>2, <1>5, QuietOutcome DEF Resumed, Outcome
<1>6. CASE ~above /\ ~spends /\ m.restart
  BY <1>1, <1>6, QuietOutcome, CatchUpSound DEF Resumed, Outcome
<1>7. CASE ~above /\ ~spends /\ ~m.restart /\ changed
  <2>1. ~Cooling(m) \/ ~WouldOrder(side, m.verdict)
    BY <1>7, UnspentPlacesNothing
  <2> QED
    BY <1>7, <2>1, OnTransitionSound DEF Resumed
<1>8. CASE ~above /\ ~spends /\ ~m.restart /\ ~changed
  BY <1>8, QuietOutcome, RetrySound DEF Resumed, Outcome
<1> QED
  BY <1>3, <1>4, <1>5, <1>6, <1>7, <1>8

LEMMA OnBarSound ==
  ASSUME NEW m \in Memory, NEW side \in Sides, NEW v \in Verdicts, NEW result \in Results,
         Current(m), m.reset => ~Cooling(m)
  PROVE  /\ Sound(OnBar(m, side, v, result))
         /\ ~OnBar(m, side, v, result).mem.reset
<1> DEFINE n == TakenIn(m, v)
           r == [n EXCEPT !.reset = FALSE]
           h == [n EXCEPT !.restart = FALSE, !.pending = "none"]
           u == [n EXCEPT !.hold = "none"]
<1>1. n \in Memory /\ Current(n) /\ n.verdict = v /\ n.reset \in BOOLEAN
      /\ (n.reset => ~Cooling(n))
  <2>1. n \in Memory /\ Current(n) /\ n.verdict = v /\ n.reset = m.reset
        /\ (Cooling(n) <=> Cooling(m))
    BY TakenInSound
  <2> QED
    BY <2>1 DEF Memory
<1>2. CASE n.reset
  <2>1. r \in Memory /\ Current(r) /\ r.verdict = v /\ ~r.reset /\ ~Cooling(r)
    BY <1>1, <1>2 DEF Memory, Current, Cooling
  <2>2. OnBar(m, side, v, result) = OnTransition(r, side, r.verdict, result)
    BY <1>2, <2>1 DEF OnBar
  <2> HIDE DEF r
  <2> QED
    BY <2>1, <2>2, OnTransitionSound
<1>3. CASE ~n.reset /\ n.hold = v
  <2>1. h \in Memory /\ Current(h) /\ ~h.reset
    BY <1>1, <1>3 DEF Memory, Current, Entries, Sides
  <2>2. OnBar(m, side, v, result) = Outcome(h, side, <<>>)
    BY <1>3 DEF OnBar
  <2> HIDE DEF h
  <2> QED
    BY <2>1, <2>2, QuietOutcome DEF Outcome
<1>4. CASE ~n.reset /\ n.hold # v
  <2>1. u \in Memory /\ Current(u) /\ ~u.reset
    BY <1>1, <1>4 DEF Memory, Current
  <2>2. OnBar(m, side, v, result) = Resumed(u, side, v # m.verdict, result)
    BY <1>4 DEF OnBar
  <2> DEFINE c == v # m.verdict
  <2>3. c \in BOOLEAN
    OBVIOUS
  <2> HIDE DEF u, c
  <2>4. Sound(Resumed(u, side, c, result)) /\ Resumed(u, side, c, result).mem.reset = u.reset
    BY <2>1, <2>3, ResumedSound
  <2> QED
    BY <2>1, <2>2, <2>4 DEF c
<1> QED
  BY <1>2, <1>3, <1>4

LEMMA StartupSound ==
  ASSUME NEW m \in Memory, NEW side \in Sides, NEW result \in Results, Current(m)
  PROVE  /\ Sound(Startup(m, side, result))
         /\ Startup(m, side, result).mem.reset = m.reset
         /\ m.pending = "none" /\ side = "none" =>
              /\ Startup(m, side, result).mem.pending = "none"
              /\ Startup(m, side, result).side = "none"
              /\ Startup(m, side, result).out = <<>>
<1> DEFINE n == [m EXCEPT !.startup = FALSE, !.restart = FALSE]
           s == [m EXCEPT !.startup = FALSE]
           o == Startup(m, side, result)
<1>1. n \in Memory /\ Current(n) /\ n.reset = m.reset /\ n.pending = m.pending
  BY DEF Memory, Current
<1>2. s \in Memory /\ Current(s) /\ s.reset = m.reset /\ s.pending = m.pending
  BY DEF Memory, Current
<1>3. CASE ~m.startup \/ (~m.restart /\ m.pending = "none")
  BY <1>2, <1>3, QuietOutcome DEF Startup, Outcome
<1> DEFINE acts == ~(~m.startup \/ (~m.restart /\ m.pending = "none"))
<1>4. CASE acts /\ m.pending = "flat" /\ side # "none"
  BY <1>1, <1>4, ExitOutcome DEF Startup, Outcome
<1>5. CASE acts /\ ~(m.pending = "flat" /\ side # "none")
           /\ m.pending \in Entries /\ side # m.pending
  <2>1. o = Retry(n, side, result)
    BY <1>5 DEF Startup
  <2>2. m.pending # "none"
    BY <1>5 DEF Entries
  <2> QED
    BY <1>1, <2>1, <2>2, RetrySound
<1> DEFINE rest == acts /\ ~(m.pending = "flat" /\ side # "none")
                   /\ ~(m.pending \in Entries /\ side # m.pending)
<1>6. CASE rest /\ Cooling(n) /\ Opposes(side, n.verdict)
  <2>1. o = CoolingExit(n)
    BY <1>6 DEF Startup
  <2> QED
    BY <1>1, <1>6, <2>1, CoolingExitSound DEF Opposes
<1>7. CASE rest /\ ~(Cooling(n) /\ Opposes(side, n.verdict))
  <2>1. o = CatchUp(n, side, result)
    BY <1>7 DEF Startup
  <2>2. side = "none" => o = Outcome(n, side, <<>>)
    BY <2>1 DEF CatchUp, Opposes
  <2>4. side = "none" => o.mem = n /\ o.side = "none" /\ o.out = <<>>
    BY <2>2 DEF Outcome
  <2> HIDE DEF n, o
  <2>3. Sound(o) /\ o.mem.reset = m.reset
    BY <1>1, <1>7, <2>1, CatchUpSound
  <2> QED
    BY <1>1, <2>3, <2>4 DEF o
<1> QED
  BY <1>3, <1>4, <1>5, <1>6, <1>7

\* Nothing restored and nothing pending: the startup changes no cooldown.
LEMMA StartupQuiet ==
  ASSUME NEW m \in Memory, NEW result, m.pending = "none"
  PROVE  Cooling(Startup(m, "none", result).mem) <=> Cooling(m)
<1>1. Startup(m, "none", result).mem \in
        {[m EXCEPT !.startup = FALSE], [m EXCEPT !.startup = FALSE, !.restart = FALSE]}
  BY DEF Startup, CatchUp, Outcome, Opposes, Entries
<1> QED
  BY <1>1 DEF Cooling, Memory

-----------------------------------------------------------------------------
(* The steps that only forget.                                             *)

\* An operator's close leaves no cooldown until the next live bar.
Trusted(m) == m \in Memory /\ Current(m) /\ (m.reset => ~Cooling(m))

LEMMA ReconciledTrusted ==
  ASSUME NEW m, NEW side, Trusted(m)
  PROVE  /\ Trusted(Reconciled(m, side))
         /\ Reconciled(m, side).reset = m.reset
         /\ m.pending = "none" => Reconciled(m, side).pending = "none"
<1>1. CASE Reconciled(m, side) = m
  BY <1>1
<1>2. CASE Reconciled(m, side) = [m EXCEPT !.pending = "none"]
  BY <1>2 DEF Trusted, Memory, Current, Cooling, Entries, Sides
<1> QED
  BY <1>1, <1>2 DEF Reconciled

LEMMA RejectedTrusted ==
  ASSUME NEW m, Trusted(m)
  PROVE  /\ Trusted(Rejected(m))
         /\ Rejected(m).reset = m.reset
         /\ Rejected(m).pending = "none"
         /\ Cooling(Rejected(m)) <=> Cooling(m)
BY DEF Rejected, Trusted, Memory, Current, Cooling, Entries, Sides

LEMMA ExternallyClosedTrusted ==
  ASSUME NEW m \in Memory, NEW cause
  PROVE  /\ Trusted(ExternallyClosed(m, cause))
         /\ ExternallyClosed(m, cause).pending = "none"
<1> DEFINE l == IF cause = "manual" THEN 0 ELSE LossCount
           r == cause = "manual"
           c == [m EXCEPT !.pending = "none", !.hold = "none", !.restart = FALSE, !.win = 0,
                          !.loss = l, !.reset = r]
<1>1. l \in 0 .. LossCount /\ (r => l = 0) /\ 0 \in 0 .. WinCount /\ r \in BOOLEAN
  BY CountFacts
<1>2. ExternallyClosed(m, cause) = c
  BY DEF ExternallyClosed
<1> HIDE DEF l, r
<1>3. c \in Memory
  BY <1>1 DEF Memory, Sides
<1>4. c.pending = "none" /\ c.win = 0 /\ c.loss = l /\ c.reset = r
  BY DEF Memory
<1> HIDE DEF c
<1> QED
  BY <1>1, <1>2, <1>3, <1>4 DEF Trusted, Current, Cooling, Entries

LEMMA StartedTrusted ==
  ASSUME NEW m, NEW side, Trusted(m)
  PROVE  /\ Trusted(Started(m, side))
         /\ Started(m, side).reset = m.reset
         /\ Started(m, side).pending = m.pending
BY DEF Started, Trusted, Memory, Current, Cooling

LEMMA SnapshotTrusted ==
  ASSUME NEW m, NEW g \in BOOLEAN, Trusted(m)
  PROVE  /\ Trusted(Durable(m))
         /\ Durable(m).reset = m.reset
         /\ Durable(m).pending = m.pending
         /\ Snapshot(m, g) \in [mem : Memory, gap : BOOLEAN]
         /\ Snapshot(m, g).mem = Durable(m)
<1>1. Trusted(Durable(m)) /\ Durable(m).reset = m.reset /\ Durable(m).pending = m.pending
  BY DEF Durable, Trusted, Memory, Current, Cooling
<1> QED
  BY <1>1 DEF Snapshot, Trusted

LEMMA ReplayedTrusted ==
  ASSUME NEW m, NEW side, NEW changed, NEW v \in Verdicts, Trusted(m)
  PROVE  /\ Trusted(Replayed(TakenIn(m, v), side, changed).mem)
         /\ Replayed(TakenIn(m, v), side, changed).mem.reset = m.reset
         /\ m.pending = "none" => Replayed(TakenIn(m, v), side, changed).mem.pending = "none"
<1> DEFINE n == TakenIn(m, v)
<1>1. n \in Memory /\ Current(n) /\ n.reset = m.reset
      /\ (m.pending = "none" => n.pending = "none") /\ (Cooling(n) <=> Cooling(m))
  BY TakenInSound DEF Trusted
<1> HIDE DEF n
<1>2. CASE Spends(n, side, changed)
  <2>1. ~n.reset
    BY <1>1, <1>2 DEF Spends, Trusted
  <2>2. Replayed(n, side, changed).mem = Spent(n)
    BY <1>2 DEF Replayed, Outcome
  <2> QED
    BY <1>1, <2>1, <2>2, SpentSound DEF Trusted, Current, n
<1>3. CASE ~Spends(n, side, changed)
  <2>1. Replayed(n, side, changed).mem = n
    BY <1>3 DEF Replayed, Outcome
  <2> QED
    BY <1>1, <2>1 DEF Trusted, n
<1> QED
  BY <1>2, <1>3

-----------------------------------------------------------------------------
(* The invariant.                                                          *)

MemoryInv == Trusted(mem) /\ Trusted(saved.mem)

\* Orders are those of the bar being submitted; none that opens is decided in a cooldown.
OrderInv ==
  /\ intents # <<>> => pc = "submit"
  /\ \A i \in 1 .. Len(intents) : intents[i] \in Entries => ~Cooling(mem)

\* A close is told before the loop goes on, and a slot without a trade tells it.
ToldInv ==
  /\ told # "none" => pc \in {"deliver", "down"} /\ slot = "none"
  /\ pc = "deliver" => told # "none"
  /\ unclear => slot = "none"
  /\ pc = "down" => mirror = "none"

\* Between an external close and the next live bar there is nothing to act upon.
AwaitInv ==
  /\ mem.reset \/ saved.mem.reset => ~eligible
  /\ ~eligible =>
       /\ slot = "none" /\ mirror = "none" /\ intents = <<>>
       /\ mem.pending = "none" /\ saved.mem.pending = "none"

IInv == TypeOK /\ MemoryInv /\ OrderInv /\ ToldInv /\ AwaitInv

LEMMA InitInv == Init => IInv
<1> SUFFICES ASSUME Init PROVE IInv
  OBVIOUS
<1>1. PICK v \in Verdicts : \E h \in {"none"} \cup ({v} \ {"FLAT"}) :
        /\ feed = <<v>>
        /\ mem = [at |-> 1, verdict |-> v, win |-> 0, loss |-> 0, pending |-> "none",
                  hold |-> h, reset |-> FALSE, restart |-> FALSE, startup |-> FALSE]
  BY DEF Init
<1>2. Trusted(mem) /\ mem.pending = "none" /\ ~mem.reset
  BY <1>1, CountFacts DEF Trusted, Memory, Current, Cooling, Entries, Sides, Verdicts
<1>3. saved = Snapshot(mem, FALSE)
  BY DEF Init
<1>4. Trusted(saved.mem) /\ saved \in [mem : Memory, gap : BOOLEAN]
      /\ saved.mem.pending = "none" /\ ~saved.mem.reset
  BY <1>2, <1>3, SnapshotTrusted
<1>5. feed \in Seq(Verdicts)
  BY <1>1
<1>6. /\ mirror = "none" /\ gap = FALSE
      /\ slot = "none" /\ begun = FALSE /\ gone = "no" /\ told = "none" /\ unclear = FALSE
      /\ opened = 0 /\ owed = FALSE /\ doubt = FALSE
      /\ pc = "down" /\ kind = "minute" /\ intents = <<>> /\ due = FALSE /\ fresh = TRUE
      /\ winFrom = 0 /\ lossFrom = 0 /\ enteredAt = 0 /\ eligible = TRUE
  BY DEF Init
<1>7. mem \in Memory /\ opened \in 0 .. MaxTrades /\ intents \in Seq(Entries \cup {"exit"})
  BY <1>2, <1>6, MaxTradesType DEF Trusted
<1>8. TypeOK
  BY <1>4, <1>5, <1>6, <1>7 DEF TypeOK, Sides, Stages
<1>9. MemoryInv
  BY <1>2, <1>4 DEF MemoryInv
<1>10. OrderInv
  BY <1>6 DEF OrderInv
<1>11. ToldInv /\ AwaitInv
  BY <1>2, <1>4, <1>6 DEF ToldInv, AwaitInv
<1> QED
  BY <1>8, <1>9, <1>10, <1>11 DEF IInv

\* Steps that neither the strategy nor the orders notice.
LEMMA QuietKeeps ==
  ASSUME IInv, TypeOK', UNCHANGED <<mem, mirror, saved, intents, eligible>>,
         slot' \in {slot, "none"}, intents # <<>> => pc' = "submit", ToldInv'
  PROVE  IInv'
BY DEF IInv, MemoryInv, OrderInv, AwaitInv

LEMMA DowntimeKeeps ==
  ASSUME IInv, NEW v \in Verdicts, Downtime(v)
  PROVE  IInv'
<1>1. TypeOK'
  BY DEF IInv, TypeOK, Downtime, stratVars, execVars, flowVars, histVars
<1> QED
  BY <1>1, QuietKeeps
  DEF IInv, OrderInv, ToldInv, Downtime, stratVars, execVars, flowVars, histVars

LEMMA ReplayEndsKeeps ==
  ASSUME IInv, ReplayBroken \/ ReplayDone
  PROVE  IInv'
<1>1. TypeOK'
  <2>1. CASE ReplayBroken
    BY <2>1 DEF IInv, TypeOK, ReplayBroken, execVars, histVars, Stages
  <2>2. CASE ReplayDone
    BY <2>2 DEF IInv, TypeOK, ReplayDone, stratVars, execVars, histVars, Stages
  <2> QED
    BY <2>1, <2>2
<1> QED
  BY <1>1, QuietKeeps
  DEF IInv, OrderInv, ToldInv, ReplayBroken, ReplayDone, stratVars, execVars, histVars

LEMMA BarBeginsKeeps ==
  ASSUME IInv, MinuteArrives \/ (\E v \in Verdicts : BarCompletes(v))
  PROVE  IInv'
<1>1. TypeOK'
  <2>1. CASE MinuteArrives
    BY <2>1 DEF IInv, TypeOK, MinuteArrives, Goto, stratVars, execVars, histVars, Stages
  <2>2. ASSUME NEW v \in Verdicts, BarCompletes(v) PROVE TypeOK'
    BY <2>2 DEF IInv, TypeOK, BarCompletes, Goto, stratVars, execVars, histVars, Stages
  <2> QED
    BY <2>1, <2>2
<1> QED
  BY <1>1, QuietKeeps
  DEF IInv, OrderInv, ToldInv, MinuteArrives, BarCompletes, Goto, stratVars, execVars, histVars

LEMMA VenueKeeps ==
  ASSUME IInv, VenueUnclear \/ VenueAgrees \/ (\E cause \in Causes : ClosureBooked(cause))
  PROVE  IInv'
<1>1. TypeOK'
  <2>1. CASE VenueUnclear
    BY <2>1 DEF IInv, TypeOK, VenueUnclear, Goto, stratVars, histVars, Stages
  <2>2. CASE VenueAgrees
    BY <2>2 DEF IInv, TypeOK, VenueAgrees, Goto, stratVars, histVars, Stages
  <2>3. ASSUME NEW cause \in Causes, ClosureBooked(cause) PROVE TypeOK'
    BY <2>3 DEF IInv, TypeOK, ClosureBooked, Goto, stratVars, histVars, Stages, Sides
  <2> QED
    BY <2>1, <2>2, <2>3
<1> QED
  BY <1>1, QuietKeeps
  DEF IInv, OrderInv, ToldInv, VenueUnclear, VenueAgrees, ClosureBooked, Goto, stratVars,
      histVars, Causes

LEMMA VenueClosesKeeps ==
  ASSUME IInv, NEW how \in {"manual", "liquidated"}, VenueCloses(how)
  PROVE  IInv'
<1>1. TypeOK'
  BY DEF IInv, TypeOK, VenueCloses, stratVars, flowVars, histVars
<1> QED
  BY <1>1, QuietKeeps DEF IInv, OrderInv, ToldInv, VenueCloses, stratVars, flowVars, histVars

\* The executor on a close: it empties the slot or leaves the trade there.
Closing == NoClose \/ CloseAccepted \/ (\E x \in BOOLEAN : CloseFails(x))

LEMMA ClosingFacts ==
  ASSUME TypeOK, Closing
  PROVE  /\ slot' \in {slot, "none"}
         /\ begun' \in BOOLEAN
         /\ gone' \in {"no", "self", "manual", "liquidated"}
         /\ owed' \in BOOLEAN
         /\ UNCHANGED <<told, unclear, opened, doubt>>
BY DEF TypeOK, Closing, NoClose, CloseAccepted, CloseFails, execVars

LEMMA RetriesKeep ==
  ASSUME IInv, RetryIdle \/ RetryAccepted \/ (\E x \in BOOLEAN : RetryFails(x)) \/ NothingOwed
  PROVE  IInv'
<1>1. CASE NothingOwed
  <2>1. TypeOK'
    BY <1>1 DEF IInv, TypeOK, NothingOwed, Goto, stratVars, execVars, histVars, Stages
  <2> QED
    BY <1>1, <2>1, QuietKeeps
    DEF IInv, OrderInv, ToldInv, NothingOwed, Goto, stratVars, execVars, histVars
<1>2. CASE Retried /\ Closing
  <2>1. TypeOK'
    BY <1>2, ClosingFacts DEF IInv, TypeOK, Retried, Goto, stratVars, histVars, Stages, Sides
  <2> QED
    BY <1>2, <2>1, ClosingFacts, QuietKeeps
    DEF IInv, OrderInv, ToldInv, Retried, Goto, stratVars, histVars
<1> QED
  BY <1>1, <1>2 DEF RetryIdle, RetryAccepted, RetryFails, Closing

LEMMA FlipClosesKeeps ==
  ASSUME IInv, NEW side \in Entries, FlipCloses(side)
  PROVE  IInv'
<1>1. Closing
  BY DEF FlipCloses, Closing
<1>2. TypeOK'
  BY <1>1, ClosingFacts DEF IInv, TypeOK, FlipCloses, Loop, histVars, Sides
<1> QED
  BY <1>1, <1>2, ClosingFacts, QuietKeeps
  DEF IInv, OrderInv, ToldInv, FlipCloses, Submits, Loop, histVars

-----------------------------------------------------------------------------
(* The orders.                                                             *)

LEMMA TailOrders ==
  ASSUME IInv, intents # <<>>, intents' = Tail(intents),
         Cooling(mem') <=> Cooling(mem), UNCHANGED pc
  PROVE  OrderInv' /\ intents' \in Seq(Orders) /\ eligible /\ pc = "submit"
<1>1. intents \in Seq(Orders) /\ pc = "submit" /\ eligible
  BY DEF IInv, TypeOK, OrderInv, AwaitInv, Orders
<1>2. /\ Tail(intents) \in Seq(Orders)
      /\ \A i \in 1 .. Len(Tail(intents)) :
           i + 1 \in 1 .. Len(intents) /\ Tail(intents)[i] = intents[i + 1]
  BY <1>1
<1> QED
  BY <1>1, <1>2 DEF IInv, OrderInv

LEMMA ExitKeeps ==
  ASSUME IInv, ExitSubmitted, Closing
  PROVE  IInv'
<1>1. UNCHANGED <<mem, mirror, saved, pc, eligible>> /\ intents # <<>> /\ intents' = Tail(intents)
  BY DEF ExitSubmitted, Submits, Done, Loop, histVars
<1>2. OrderInv' /\ intents' \in Seq(Orders) /\ eligible /\ pc = "submit"
  BY <1>1, TailOrders
<1>3. TypeOK'
  BY <1>2, ClosingFacts DEF IInv, TypeOK, ExitSubmitted, Loop, histVars, Sides, Orders
<1> QED
  BY <1>1, <1>2, <1>3, ClosingFacts DEF IInv, MemoryInv, ToldInv, AwaitInv

LEMMA NotFilledKeeps ==
  ASSUME IInv, NEW side \in Entries, NEW x \in BOOLEAN,
         FlipFails(side, x) \/ EntryNotFilled(side, x)
  PROVE  IInv'
<1>1. /\ UNCHANGED <<mirror, saved, pc, eligible>>
      /\ intents # <<>> /\ intents' = Tail(intents) /\ mem' = Rejected(mem)
  BY DEF FlipFails, EntryNotFilled, Submits, Done, Loop, histVars
<1>2. /\ Trusted(mem') /\ mem'.reset = mem.reset
      /\ mem'.pending = "none" /\ (Cooling(mem') <=> Cooling(mem))
  BY <1>1, RejectedTrusted DEF IInv, MemoryInv
<1>3. OrderInv' /\ intents' \in Seq(Orders) /\ eligible /\ pc = "submit"
  BY <1>1, <1>2, TailOrders
<1>4. TypeOK' /\ slot' = slot /\ UNCHANGED <<told, unclear>>
  <2>1. CASE FlipFails(side, x)
    BY <1>2, <1>3, <2>1 DEF IInv, TypeOK, FlipFails, CloseFails, Loop, histVars, Trusted, Orders
  <2>2. CASE EntryNotFilled(side, x)
    BY <1>2, <1>3, <2>2 DEF IInv, TypeOK, EntryNotFilled, Loop, histVars, Trusted, Orders
  <2> QED
    BY <2>1, <2>2
<1> QED
  BY <1>1, <1>2, <1>3, <1>4 DEF IInv, MemoryInv, ToldInv, AwaitInv

LEMMA FillsKeeps ==
  ASSUME IInv, NEW side \in Entries, EntryFills(side)
  PROVE  IInv' /\ ~Cooling(mem) /\ eligible
<1>1. /\ UNCHANGED <<mem, mirror, saved, pc, eligible, told>>
      /\ intents # <<>> /\ intents' = Tail(intents) /\ intents[1] = side
      /\ slot' = side /\ opened' = opened + 1 /\ unclear' = FALSE
  BY DEF EntryFills, Submits, Done, Loop
<1>2. OrderInv' /\ intents' \in Seq(Orders) /\ eligible /\ pc = "submit"
  BY <1>1, TailOrders
<1>3. ~Cooling(mem)
  <2>1. 1 \in 1 .. Len(intents)
    BY <1>1 DEF IInv, TypeOK
  <2> QED
    BY <1>1, <2>1 DEF IInv, OrderInv
<1>4. opened' \in 0 .. MaxTrades
  BY <1>1, MaxTradesType DEF IInv, TypeOK, EntryFills
<1>5. TypeOK'
  <2>1. mem.at \in Nat
    BY DEF IInv, TypeOK, Memory
  <2> QED
    BY <1>1, <1>2, <1>4, <2>1 DEF IInv, TypeOK, EntryFills, Loop, Sides, Orders
<1>6. told = "none"
  BY <1>2 DEF IInv, ToldInv
<1> QED
  BY <1>1, <1>2, <1>3, <1>5, <1>6 DEF IInv, MemoryInv, ToldInv, AwaitInv

-----------------------------------------------------------------------------
(* Stops, starts and replays.                                              *)

LEMMA CrashKeeps ==
  ASSUME IInv, Crash
  PROVE  IInv'
<1>1. TypeOK'
  <2>1. mem' \in Memory /\ gap' \in BOOLEAN /\ intents' \in Seq(Entries \cup {"exit"})
    BY DEF IInv, TypeOK, Crash
  <2> QED
    BY <2>1 DEF IInv, TypeOK, Crash, histVars, Stages, Sides
<1> QED
  BY <1>1 DEF IInv, MemoryInv, OrderInv, ToldInv, AwaitInv, Crash, histVars

LEMMA ClassifyKeeps ==
  ASSUME IInv, NEW cause \in Causes, Classify(cause)
  PROVE  IInv'
<1> DEFINE m == IF cause = "manual" THEN ExternallyClosed(saved.mem, cause) ELSE saved.mem
<1>1. /\ Trusted(m) /\ (cause = "manual" => m.pending = "none")
      /\ saved.gap \in BOOLEAN /\ (cause # "manual" => m = saved.mem)
  BY ExternallyClosedTrusted DEF IInv, MemoryInv, Trusted, TypeOK
<1>2. mem' = Durable(m) /\ saved' = Snapshot(m, saved.gap)
  BY DEF Classify
<1> HIDE DEF m
<1>3. /\ Trusted(mem') /\ saved'.mem = mem' /\ saved' \in [mem : Memory, gap : BOOLEAN]
      /\ mem'.reset = m.reset /\ mem'.pending = m.pending
  BY <1>1, <1>2, SnapshotTrusted
<1>4. /\ pc = "down" /\ slot = "none" /\ mirror = "none" /\ intents = <<>>
      /\ UNCHANGED <<slot, mirror, told, pc, intents>> /\ unclear' = FALSE
  BY DEF Classify, IInv, ToldInv, OrderInv, flowVars
<1>5. IF cause = "manual" THEN eligible' = FALSE ELSE eligible' = eligible
  BY DEF Classify, Heard, histVars
<1>6. winFrom' \in Nat /\ lossFrom' \in Nat /\ enteredAt' \in Nat /\ eligible' \in BOOLEAN
  <2>1. CASE cause = "manual"
    <3>1. Heard(cause, 0)
      BY <2>1 DEF Classify
    <3> QED
      BY <3>1 DEF Heard, IInv, TypeOK
  <2>2. CASE cause # "manual"
    <3>1. UNCHANGED <<winFrom, lossFrom, enteredAt, eligible>>
      BY <2>2 DEF Classify, histVars
    <3> QED
      BY <3>1 DEF IInv, TypeOK
  <2> QED
    BY <2>1, <2>2
<1>7. TypeOK'
  BY <1>3, <1>4, <1>6 DEF Classify, IInv, TypeOK, flowVars, Trusted
<1>8. AwaitInv'
  BY <1>1, <1>3, <1>4, <1>5 DEF IInv, AwaitInv
<1> QED
  BY <1>3, <1>4, <1>7, <1>8 DEF IInv, MemoryInv, OrderInv, ToldInv

LEMMA RestartKeeps ==
  ASSUME IInv, Restart
  PROVE  IInv'
<1> DEFINE settled == Reconciled(saved.mem, slot)
           heard == IF told = "none" THEN settled ELSE ExternallyClosed(settled, told)
<1>1. /\ Trusted(settled) /\ settled.reset = saved.mem.reset
      /\ (saved.mem.pending = "none" => settled.pending = "none")
  BY ReconciledTrusted DEF IInv, MemoryInv
<1>2. /\ Trusted(heard) /\ (told # "none" => heard.pending = "none")
      /\ (told = "none" => heard = settled)
  BY <1>1, ExternallyClosedTrusted DEF Trusted
<1>3. mem' = Started(heard, slot) /\ saved' = IF told = "none" THEN saved ELSE Snapshot(heard, gap)
  BY DEF Restart
<1> HIDE DEF settled, heard
<1>4. Trusted(mem') /\ mem'.reset = heard.reset /\ mem'.pending = heard.pending
  BY <1>2, <1>3, StartedTrusted
<1>5. /\ Trusted(saved'.mem) /\ saved' \in [mem : Memory, gap : BOOLEAN]
      /\ saved'.mem.reset = (IF told = "none" THEN saved.mem.reset ELSE heard.reset)
      /\ saved'.mem.pending = (IF told = "none" THEN saved.mem.pending ELSE heard.pending)
  <2>1. gap \in BOOLEAN /\ Trusted(saved.mem) /\ saved \in [mem : Memory, gap : BOOLEAN]
    BY DEF IInv, TypeOK, MemoryInv
  <2> QED
    BY <1>2, <1>3, <2>1, SnapshotTrusted
<1>6. /\ mirror' = slot /\ slot' = slot /\ told' = "none" /\ pc' = "replay"
      /\ intents' = intents /\ intents = <<>>
      /\ (told # "none" => slot = "none" /\ eligible' = FALSE)
      /\ (told = "none" => eligible' = eligible /\ unclear' = unclear)
      /\ unclear' \in BOOLEAN
  BY DEF Restart, Heard, histVars, IInv, TypeOK, ToldInv, OrderInv
<1>7. winFrom' \in Nat /\ lossFrom' \in Nat /\ enteredAt' \in Nat /\ eligible' \in BOOLEAN
  <2>1. heard.at \in Nat
    BY <1>2 DEF Trusted, Memory
  <2>2. CASE told = "none"
    BY <2>2 DEF Restart, histVars, IInv, TypeOK
  <2>3. CASE told # "none"
    <3>1. Heard(told, heard.at)
      BY <2>3 DEF Restart, heard, settled
    <3> QED
      BY <2>1, <3>1 DEF Heard, IInv, TypeOK
  <2> QED
    BY <2>2, <2>3
<1>8. TypeOK'
  BY <1>4, <1>5, <1>6, <1>7 DEF Restart, IInv, TypeOK, Trusted, Stages, Causes
<1>9. AwaitInv'
  BY <1>1, <1>2, <1>4, <1>5, <1>6 DEF IInv, AwaitInv
<1> QED
  BY <1>4, <1>5, <1>6, <1>8, <1>9 DEF IInv, MemoryInv, OrderInv, ToldInv

LEMMA ReplayBarKeeps ==
  ASSUME IInv, ReplayBar
  PROVE  IInv'
<1> DEFINE v == feed[mem.at + 1]
           side == mirror
           changed == TakenIn(mem, v).verdict # mem.verdict
           r == Replayed(TakenIn(mem, v), side, changed).mem
<1>1. v \in Verdicts
  BY DEF IInv, TypeOK, Memory, ReplayBar, Behind
<1> HIDE DEF v, side, changed
<1>2. /\ Trusted(r) /\ r.reset = mem.reset /\ (mem.pending = "none" => r.pending = "none")
  BY <1>1, ReplayedTrusted DEF IInv, MemoryInv
<1>3. mem' = Reconciled(r, slot)
  BY DEF ReplayBar, v, side, changed
<1> HIDE DEF r
<1>4. /\ Trusted(mem') /\ mem'.reset = mem.reset
      /\ (mem.pending = "none" => mem'.pending = "none")
  BY <1>2, <1>3, ReconciledTrusted
<1>5. intents = <<>>
  BY DEF IInv, OrderInv, ReplayBar
<1>6. UNCHANGED <<mirror, saved, slot, told, unclear, pc, intents, eligible>>
  BY DEF ReplayBar, execVars, flowVars, histVars
<1>7. TypeOK'
  <2>1. mem' \in Memory /\ gap' \in BOOLEAN
    BY <1>4 DEF Trusted, ReplayBar
  <2>2. UNCHANGED <<mirror, saved, slot, begun, gone, told, unclear, opened, owed, doubt>>
    BY DEF ReplayBar, execVars
  <2>3. UNCHANGED <<pc, kind, intents, due, fresh, feed, winFrom, lossFrom, enteredAt, eligible>>
    BY DEF ReplayBar, flowVars, histVars
  <2> QED
    BY <2>1, <2>2, <2>3 DEF IInv, TypeOK
<1> QED
  BY <1>4, <1>5, <1>6, <1>7 DEF IInv, MemoryInv, OrderInv, ToldInv, AwaitInv

LEMMA DeliverKeeps ==
  ASSUME IInv, Deliver
  PROVE  IInv'
<1> DEFINE m == ExternallyClosed(mem, told)
<1>1. Trusted(m) /\ m.pending = "none"
  BY ExternallyClosedTrusted DEF IInv, TypeOK
<1>2. mem' = m /\ saved' = Snapshot(m, gap) /\ Heard(told, m.at)
  BY DEF Deliver
<1> HIDE DEF m
<1>3. /\ Trusted(saved'.mem) /\ saved'.mem.pending = "none"
      /\ saved' \in [mem : Memory, gap : BOOLEAN]
  BY <1>1, <1>2, SnapshotTrusted DEF IInv, TypeOK
<1>4. m.at \in Nat
  BY <1>1 DEF Trusted, Memory
<1>5. /\ winFrom' \in Nat /\ lossFrom' \in Nat /\ enteredAt' \in Nat /\ eligible' = FALSE
  BY <1>2, <1>4 DEF Heard, IInv, TypeOK
<1>6. /\ slot = "none" /\ slot' = slot /\ mirror' = slot /\ intents = <<>> /\ intents' = intents
      /\ told' = "none" /\ pc' = "retry"
  BY DEF Deliver, Goto, IInv, ToldInv, OrderInv
<1>7. TypeOK'
  BY <1>1, <1>2, <1>3, <1>5, <1>6 DEF IInv, TypeOK, Deliver, Goto, Trusted, Stages, Causes
<1> QED
  BY <1>1, <1>2, <1>3, <1>5, <1>6, <1>7 DEF IInv, MemoryInv, OrderInv, ToldInv, AwaitInv

-----------------------------------------------------------------------------
(* The decision.                                                           *)

LEMMA DecidedKeeps ==
  ASSUME IInv, NEW v, NEW g \in BOOLEAN, Decided(v, g), Sound(v),
         v.mem.reset => ~Cooling(v.mem) /\ ~eligible',
         eligible' \in BOOLEAN, kind = "bar" \/ UNCHANGED eligible,
         ~eligible' => ~eligible /\ v.mem.pending = "none" /\ v.side = "none" /\ v.out = <<>>
  PROVE  IInv'
<1>1. /\ Trusted(v.mem) /\ v.mem \in Memory /\ v.side \in Sides /\ v.out \in Seq(Orders)
      /\ \A i \in 1 .. Len(v.out) : v.out[i] \in Entries => ~Cooling(v.mem)
  BY DEF Sound, Outcomes, Cautious, Trusted
<1>2. /\ mem' = v.mem /\ mirror' = v.side /\ intents' = v.out
      /\ pc' = "submit" /\ gap' = g
      /\ UNCHANGED <<slot, begun, gone, told, unclear, opened, owed, doubt, kind, feed, enteredAt>>
  BY DEF Decided, execVars
<1>3. saved' = Snapshot(v.mem, g) \/ (saved' = saved /\ eligible' = eligible)
  BY DEF Decided
<1>4. /\ Trusted(saved'.mem) /\ saved' \in [mem : Memory, gap : BOOLEAN]
      /\ (~eligible' => saved'.mem.pending = "none") /\ (saved'.mem.reset => ~eligible')
  <2>1. CASE saved' = saved /\ eligible' = eligible
    BY <2>1 DEF IInv, TypeOK, MemoryInv, AwaitInv
  <2>2. CASE saved' = Snapshot(v.mem, g)
    BY <1>1, <2>2, SnapshotTrusted
  <2> QED
    BY <1>3, <2>1, <2>2
<1>5. due' \in BOOLEAN /\ fresh' = FALSE
  BY DEF Decided
<1>6. winFrom' \in Nat /\ lossFrom' \in Nat
  <2>1. v.mem.at \in Nat
    BY <1>1 DEF Memory
  <2> QED
    BY <2>1 DEF Decided, IInv, TypeOK
<1>7. TypeOK'
  BY <1>1, <1>2, <1>4, <1>5, <1>6 DEF IInv, TypeOK, Stages, Orders
<1>8. ToldInv'
  BY <1>2 DEF IInv, ToldInv, Decided
<1>9. AwaitInv'
  BY <1>2, <1>4 DEF IInv, AwaitInv
<1> QED
  BY <1>1, <1>2, <1>4, <1>7, <1>8, <1>9 DEF IInv, MemoryInv, OrderInv

LEMMA DecideKeeps ==
  ASSUME IInv, Decide
  PROVE  IInv'
<1>0. /\ mem \in Memory /\ Current(mem) /\ (mem.reset => ~Cooling(mem) /\ ~eligible)
      /\ mirror \in Sides /\ gap \in BOOLEAN /\ eligible \in BOOLEAN
      /\ (~eligible => mirror = "none" /\ mem.pending = "none")
  BY DEF IInv, TypeOK, MemoryInv, Trusted, AwaitInv
<1>1. ASSUME NEW hole \in BOOLEAN, NEW result \in Results, DecideMinute(hole, result)
      PROVE  IInv'
  <2> DEFINE o == Startup(mem, mirror, result)
             g == gap \/ hole
  <2>1. /\ Sound(o) /\ o.mem.reset = mem.reset
        /\ ~eligible => o.mem.pending = "none" /\ o.side = "none" /\ o.out = <<>>
    BY <1>0, StartupSound
  <2>2. mem.reset => ~Cooling(o.mem)
    BY <1>0, StartupQuiet
  <2>3. Decided(o, g) /\ eligible' = eligible /\ g \in BOOLEAN
    BY <1>0, <1>1 DEF DecideMinute
  <2> HIDE DEF o, g
  <2> QED
    BY <1>0, <2>1, <2>2, <2>3, DecidedKeeps
<1>2. ASSUME NEW result \in Results, DecideBar(result)
      PROVE  IInv'
  <2> DEFINE v == feed[mem.at + 1]
             o == OnBar(mem, mirror, v, result)
  <2>1. v \in Verdicts
    BY <1>2 DEF IInv, TypeOK, Memory, DecideBar, Behind
  <2>2. Decided(o, FALSE) /\ eligible' = TRUE /\ kind = "bar"
    BY <1>2 DEF DecideBar
  <2> HIDE DEF v
  <2>3. Sound(o) /\ ~o.mem.reset
    BY <1>0, <2>1, OnBarSound
  <2> HIDE DEF o
  <2> QED
    BY <2>2, <2>3, DecidedKeeps
<1>3. CASE SkipBar
  <2> DEFINE o == Outcome(mem, mirror, <<>>)
  <2>1. Sound(o) /\ o.mem = mem /\ o.side = mirror /\ o.out = <<>>
    BY <1>0, QuietOutcome DEF Outcome
  <2>2. Decided(o, TRUE) /\ eligible' = eligible
    BY <1>3 DEF SkipBar
  <2> HIDE DEF o
  <2> QED
    BY <1>0, <2>1, <2>2, DecidedKeeps
<1> QED
  BY <1>1, <1>2, <1>3 DEF Decide

LEMMA BarEndsKeeps ==
  ASSUME IInv, BarEnds
  PROVE  IInv'
<1> DEFINE m == Reconciled(mem, slot)
<1>1. /\ Trusted(m) /\ m.reset = mem.reset /\ (mem.pending = "none" => m.pending = "none")
  BY ReconciledTrusted DEF IInv, MemoryInv
<1>2. /\ mem' = m /\ mirror' = slot /\ intents = <<>> /\ intents' = intents /\ pc' = "idle"
      /\ UNCHANGED <<slot, told, unclear, eligible>> /\ told = "none"
      /\ saved' = IF due THEN Snapshot(m, gap) ELSE saved
  BY DEF BarEnds, execVars, histVars, IInv, ToldInv
<1> HIDE DEF m
<1>3. /\ Trusted(saved'.mem) /\ saved' \in [mem : Memory, gap : BOOLEAN]
      /\ (mem.pending = "none" /\ saved.mem.pending = "none" => saved'.mem.pending = "none")
      /\ (saved'.mem.reset => mem.reset \/ saved.mem.reset)
  <2>1. gap \in BOOLEAN /\ saved \in [mem : Memory, gap : BOOLEAN] /\ Trusted(saved.mem)
    BY DEF IInv, TypeOK, MemoryInv
  <2>2. CASE due
    BY <1>1, <1>2, <2>1, <2>2, SnapshotTrusted
  <2>3. CASE ~due
    BY <1>2, <2>1, <2>3
  <2> QED
    BY <2>2, <2>3
<1>4. TypeOK'
  BY <1>1, <1>2, <1>3 DEF IInv, TypeOK, BarEnds, Trusted, execVars, histVars, Stages
<1>5. AwaitInv'
  BY <1>1, <1>2, <1>3 DEF IInv, AwaitInv
<1> QED
  BY <1>1, <1>2, <1>3, <1>4, <1>5 DEF IInv, MemoryInv, OrderInv, ToldInv

-----------------------------------------------------------------------------

LEMMA StutterKeeps ==
  ASSUME IInv, UNCHANGED vars
  PROVE  IInv'
BY QuietKeeps
DEF IInv, TypeOK, OrderInv, ToldInv, vars, stratVars, execVars, flowVars, histVars

LEMMA EntryKeeps ==
  ASSUME IInv, NEW side \in Entries, Entry(side)
  PROVE  IInv'
BY FlipClosesKeeps, FillsKeeps, NotFilledKeeps DEF Entry

LEMMA NextKeeps == IInv /\ [Next]_vars => IInv'
<1> SUFFICES ASSUME IInv, [Next]_vars PROVE IInv'
  OBVIOUS
<1>1. CASE Restart
  BY <1>1, RestartKeeps
<1>2. CASE Replay
  BY <1>2, ReplayBarKeeps, ReplayEndsKeeps DEF Replay
<1>3. CASE LiveBar
  <2>1. CASE MinuteArrives \/ (\E v \in Verdicts : BarCompletes(v))
    BY <2>1, BarBeginsKeeps
  <2>2. CASE Venue
    BY <2>2, VenueKeeps, DeliverKeeps DEF Venue
  <2>3. CASE RetryIdle \/ RetryAccepted \/ (\E x \in BOOLEAN : RetryFails(x)) \/ NothingOwed
    BY <2>3, RetriesKeep
  <2>4. CASE Decide
    BY <2>4, DecideKeeps
  <2>5. CASE ExitIdle \/ ExitAccepted \/ (\E x \in BOOLEAN : ExitFails(x))
    <3>1. ExitSubmitted /\ Closing
      BY <2>5 DEF ExitIdle, ExitAccepted, ExitFails, Closing
    <3> QED
      BY <3>1, ExitKeeps
  <2>6. CASE \E side \in Entries : Entry(side)
    BY <2>6, EntryKeeps
  <2>7. CASE BarEnds
    BY <2>7, BarEndsKeeps
  <2> QED
    BY <1>3, <2>1, <2>2, <2>3, <2>4, <2>5, <2>6, <2>7 DEF LiveBar
<1>4. CASE Crash
  BY <1>4, CrashKeeps
<1>5. CASE Offline
  <2>1. {"manual", "liquidated"} \subseteq Causes
    BY DEF Causes
  <2> QED
    BY <1>5, <2>1, DowntimeKeeps, ClassifyKeeps DEF Offline
<1>6. CASE \E how \in {"manual", "liquidated"} : VenueCloses(how)
  BY <1>6, VenueClosesKeeps
<1>7. CASE UNCHANGED vars
  BY <1>7, StutterKeeps
<1> QED
  BY <1>1, <1>2, <1>3, <1>4, <1>5, <1>6, <1>7 DEF Next

LEMMA Invariance == Spec => []IInv
BY InitInv, NextKeeps, PTL DEF Spec

\* A trade is opened only by an entry that is filled.
LEMMA OnlyFillsOpen ==
  ASSUME IInv, [Next]_vars, opened' # opened
  PROVE  \E side \in Entries : EntryFills(side)
<1>1. ~(UNCHANGED vars) /\ ~Restart /\ ~Replay /\ ~Crash /\ ~Offline
  BY DEF vars, execVars, Restart, Replay, ReplayBar, ReplayBroken, ReplayDone, Crash, Offline,
         Downtime, Classify
<1>2. ~Venue /\ ~Decide /\ ~BarEnds /\ ~MinuteArrives /\ ~(\E v \in Verdicts : BarCompletes(v))
  BY DEF execVars, Venue, VenueUnclear, VenueAgrees, ClosureBooked, Deliver, Decide, DecideMinute,
         DecideBar, SkipBar, Decided, BarEnds, MinuteArrives, BarCompletes
<1>3. ~Closing
  BY ClosingFacts DEF IInv
<1>4. /\ ~(RetryIdle \/ RetryAccepted \/ (\E x \in BOOLEAN : RetryFails(x)) \/ NothingOwed)
      /\ ~(ExitIdle \/ ExitAccepted \/ (\E x \in BOOLEAN : ExitFails(x)))
  BY <1>3 DEF Closing, RetryIdle, RetryAccepted, RetryFails, NothingOwed, ExitIdle,
              ExitAccepted, ExitFails, execVars
<1>5. ~(\E how \in {"manual", "liquidated"} : VenueCloses(how))
  BY DEF VenueCloses
<1>6. PICK side \in Entries : Entry(side)
  BY <1>1, <1>2, <1>4, <1>5 DEF Next, LiveBar
<1>7. EntryFills(side)
  BY <1>3, <1>6 DEF Entry, FlipCloses, FlipFails, EntryNotFilled, Closing
<1> QED
  BY <1>7

-----------------------------------------------------------------------------
(* Theorems.                                                               *)

\* The memory of the strategy, its snapshot and the executor slot keep their types through
\* every restart: no cooldown counter leaves its range (_consume_cooldown, restore_state).
THEOREM TypeCorrect == Spec => []TypeOK
BY Invariance, PTL DEF IInv

\* What is sent again is what the present verdict asks for
\* (on_bar, _reconcile_startup_positions, portfolio_live.py's snapshot and restore).
THEOREM TargetIsAlwaysCurrent == Spec => []TargetIsCurrent
<1>1. IInv => TargetIsCurrent
  BY DEF IInv, MemoryInv, Trusted, Current, TargetIsCurrent
<1> QED
  BY <1>1, Invariance, PTL

\* No transition, retry or catch-up opens a trade while a cooldown runs
\* (on_bar, _on_transition, _restart_catch_up).
THEOREM NoEntryDuringCooldown == Spec => NoEntryWhileCooling
<1>1. IInv /\ [Next]_vars => [opened' # opened => ~Cooling(mem)]_vars
  BY OnlyFillsOpen, FillsKeeps
<1> QED
  BY <1>1, Invariance, PTL DEF Spec, NoEntryWhileCooling

\* After an external close no trade is opened before a live bar of the timeframe
\* (on_external_position_closed, _reconcile_startup_positions).
THEOREM ReplacementWaits == Spec => ReplacementAwaitsBoundary
<1>1. IInv /\ [Next]_vars => [opened' # opened => eligible]_vars
  BY OnlyFillsOpen, FillsKeeps
<1> QED
  BY <1>1, Invariance, PTL DEF Spec, ReplacementAwaitsBoundary

-----------------------------------------------------------------------------
(***************************************************************************)
(* What one timeframe of the moving-average strategy remembers is right,   *)
(* and what it opens follows the feed.                                     *)
(*                                                                         *)
(* Above, a method is known by what it may ask for.  Here the methods get  *)
(* their shapes (what an outcome is, by its orders), and the invariant     *)
(* grows in four parts:                                                    *)
(*   Standing   where memory, snapshot, executor and orders stand in the   *)
(*              feed: the memory is that of a bar that was read, the       *)
(*              snapshot is not ahead of it, a slot holds the side of the  *)
(*              bar it was entered on;                                     *)
(*   FreshInv   a target that is still to be reached is for a verdict that *)
(*              has changed since the last entry;                          *)
(*   ChargeInv  a position against the verdict is owed, closed at the      *)
(*              venue, or still to be looked at by the strategy;           *)
(*   CoolInv    the cooldowns, in memory and in the snapshot, are what the *)
(*              feed has left of them since the bar they began at.         *)
(* The first three hold in every mode, the last in the two modes in which  *)
(* the feed alone decides what a bar costs.                                *)
(***************************************************************************)
LEMMA IntervalFinite ==
  ASSUME NEW a \in Int, NEW b \in Int
  PROVE  IsFiniteSet(a .. b)
BY FS_Interval

-----------------------------------------------------------------------------
(* The outcomes of the methods.                                            *)

\* The bar, the verdict and the hold are the input's.
Placed(o, m) == o.mem.at = m.at /\ o.mem.verdict = m.verdict /\ o.mem.hold = m.hold

Quiet(o, side, p) == o.out = <<>> /\ o.side = side /\ o.mem.pending = p
Leaves(o) == o.out = <<"exit">> /\ o.mem.pending = "flat"

\* The entry for the verdict, after the close of what is held.
Enters(o, side) ==
  /\ Target(o.mem.verdict) # "none"
  /\ o.mem.pending = Target(o.mem.verdict)
  /\ o.out = IF side = "none" THEN <<Target(o.mem.verdict)>>
             ELSE <<"exit", Target(o.mem.verdict)>>

Shape(o, m, side) ==
  Placed(o, m) /\ (Quiet(o, side, m.pending) \/ Leaves(o) \/ Enters(o, side))

\* The cooldowns of an outcome: those it had, or those that a close began.
Kept(o, m) == o.mem.win = m.win /\ o.mem.loss = m.loss
Began(o, m) ==
  /\ o.mem.win \in {m.win, WinCount} /\ o.mem.loss \in {m.loss, LossCount}
  /\ o.out = <<>> => Kept(o, m)

LEMMA OutcomeShape ==
  ASSUME NEW m \in Memory, NEW side, NEW out
  PROVE  /\ Outcome(m, side, out).mem = m
         /\ Outcome(m, side, out).side = side
         /\ Outcome(m, side, out).out = out
BY DEF Outcome

LEMMA OnTransitionShape ==
  ASSUME NEW m \in Memory, NEW side \in Sides, NEW result \in Results
  PROVE  LET o == OnTransition(m, side, m.verdict, result)
         IN  /\ Shape(o, m, side) /\ Began(o, m)
             /\ o.out = <<>> <=> ~WouldOrder(side, m.verdict)
<1> DEFINE t == Target(m.verdict)
           b == [m EXCEPT !.pending = t]
           f == [m EXCEPT !.pending = "flat"]
           o == OnTransition(m, side, m.verdict, result)
<1>0. m.verdict \in Verdicts /\ t \in Sides /\ (m.verdict # "FLAT" => t \in Entries)
  BY TargetType DEF Memory
<1>1. CASE ~WouldOrder(side, m.verdict)
  <2>1. o = Outcome(m, side, <<>>)
    BY <1>1 DEF OnTransition
  <2> HIDE DEF o
  <2>2. o.mem = m /\ o.out = <<>> /\ o.side = side
    BY <2>1, OutcomeShape
  <2> QED
    BY <1>1, <2>2 DEF Shape, Placed, Quiet, Began, Kept, o
<1>2. CASE WouldOrder(side, m.verdict)
  <2>0. t \in Entries /\ t # "none"
    BY <1>0, <1>2 DEF WouldOrder, Entries
  <2>1. b \in Memory /\ b.at = m.at /\ b.verdict = m.verdict /\ b.hold = m.hold
        /\ b.pending = t /\ b.win = m.win /\ b.loss = m.loss
    BY <2>0 DEF Memory, Sides
  <2>2. f \in Memory /\ f.at = m.at /\ f.verdict = m.verdict /\ f.hold = m.hold
        /\ f.pending = "flat" /\ f.win = m.win /\ f.loss = m.loss
    BY DEF Memory
  <2>3. ASSUME NEW x \in Memory
        PROVE  LET c == StartCooldowns(x, result)
               IN  /\ c \in Memory /\ c.at = x.at /\ c.verdict = x.verdict /\ c.hold = x.hold
                   /\ c.pending = x.pending
                   /\ c.win \in {x.win, WinCount} /\ c.loss \in {x.loss, LossCount}
    BY StartCooldownsSound DEF StartCooldowns, Memory
  <2>4. CASE side = "none"
    <3>1. o = Outcome(b, t, <<t>>)
      BY <1>2, <2>4 DEF OnTransition
    <3> HIDE DEF b, o
    <3>2. o.mem = b /\ o.out = <<t>> /\ o.out # <<>>
      <4>1. o.mem = b /\ o.out = <<t>>
        BY <2>1, <3>1, OutcomeShape
      <4> QED
        BY <4>1
    <3>3. Placed(o, m) /\ o.mem.verdict = m.verdict
      BY <2>1, <3>2 DEF Placed
    <3>4. Enters(o, side)
      BY <2>0, <2>1, <2>4, <3>2, <3>3 DEF Enters
    <3>5. Began(o, m)
      BY <2>1, <3>2 DEF Began
    <3> QED
      BY <1>2, <3>2, <3>3, <3>4, <3>5 DEF Shape, o
  <2>5. CASE side # "none" /\ Flips(result)
    <3> DEFINE c == StartCooldowns(b, result)
    <3>1. o = Outcome(c, t, <<"exit", t>>)
      BY <1>2, <2>5 DEF OnTransition
    <3> HIDE DEF b
    <3>3. /\ c \in Memory /\ c.at = m.at /\ c.verdict = m.verdict /\ c.hold = m.hold
          /\ c.pending = t
          /\ c.win \in {m.win, WinCount} /\ c.loss \in {m.loss, LossCount}
      BY <2>1, <2>3
    <3> HIDE DEF c, o
    <3>2. o.mem = c /\ o.out = <<"exit", t>>
      BY <3>1, <3>3, OutcomeShape
    <3> QED
      BY <1>2, <2>0, <2>5, <3>2, <3>3 DEF Shape, Placed, Enters, Began, o
  <2>6. CASE side # "none" /\ ~Flips(result)
    <3> DEFINE c == StartCooldowns(f, result)
    <3>1. o = Outcome(c, "none", <<"exit">>)
      BY <1>2, <2>6 DEF OnTransition
    <3> HIDE DEF f
    <3>3. /\ c \in Memory /\ c.at = m.at /\ c.verdict = m.verdict /\ c.hold = m.hold
          /\ c.pending = "flat"
          /\ c.win \in {m.win, WinCount} /\ c.loss \in {m.loss, LossCount}
      BY <2>2, <2>3
    <3> HIDE DEF c, o
    <3>2. o.mem = c /\ o.out = <<"exit">>
      BY <3>1, <3>3, OutcomeShape
    <3> QED
      BY <1>2, <3>2, <3>3 DEF Shape, Placed, Leaves, Began, o
  <2> QED
    BY <2>4, <2>5, <2>6
<1> QED
  BY <1>1, <1>2

LEMMA CoolingExitShape ==
  ASSUME NEW m \in Memory, NEW side
  PROVE  LET o == CoolingExit(m)
         IN  Shape(o, m, side) /\ Kept(o, m) /\ Leaves(o)
BY DEF CoolingExit, Outcome, Shape, Placed, Kept, Leaves, Memory

LEMMA CatchUpShape ==
  ASSUME NEW m \in Memory, NEW side \in Sides, NEW result \in Results
  PROVE  LET o == CatchUp(m, side, result)
         IN  /\ Shape(o, m, side) /\ Began(o, m)
             /\ Opposes(side, m.verdict) => o.out # <<>>
             /\ ~Opposes(side, m.verdict) => o.out = <<>>
<1>1. CASE Opposes(side, m.verdict)
  BY <1>1, OnTransitionShape DEF CatchUp, Opposes, WouldOrder
<1>2. CASE ~Opposes(side, m.verdict)
  <2>1. CatchUp(m, side, result) = Outcome(m, side, <<>>)
    BY <1>2 DEF CatchUp
  <2> QED
    BY <1>2, <2>1, OutcomeShape DEF Shape, Placed, Quiet, Began, Kept
<1> QED
  BY <1>1, <1>2

LEMMA RetryShape ==
  ASSUME NEW m \in Memory, NEW side \in Sides, NEW result \in Results
  PROVE  LET o == Retry(m, side, result)
         IN  /\ Shape(o, m, side) /\ Began(o, m)
             /\ o.out = <<>> <=> Cooling(m) \/ ~WouldOrder(side, m.verdict)
<1>1. CASE Cooling(m)
  <2>1. Retry(m, side, result) = Outcome(m, side, <<>>)
    BY <1>1 DEF Retry
  <2> QED
    BY <1>1, <2>1, OutcomeShape DEF Shape, Placed, Quiet, Began, Kept
<1>2. CASE ~Cooling(m)
  BY <1>2, OnTransitionShape DEF Retry
<1> QED
  BY <1>1, <1>2

LessOne(x) == IF x > 0 THEN x - 1 ELSE x
Paid(o, m, spends) ==
  /\ o.mem.win = IF spends THEN LessOne(m.win) ELSE m.win
  /\ o.mem.loss = IF spends THEN LessOne(m.loss) ELSE m.loss

LEMMA SpentShape ==
  ASSUME NEW m \in Memory
  PROVE  /\ Spent(m) \in Memory
         /\ Spent(m).at = m.at /\ Spent(m).verdict = m.verdict /\ Spent(m).hold = m.hold
         /\ Spent(m).pending = m.pending
         /\ Spent(m).win = LessOne(m.win) /\ Spent(m).loss = LessOne(m.loss)
<1>1. Spent(m) = [m EXCEPT !.win = LessOne(m.win), !.loss = LessOne(m.loss)]
  BY DEF Spent, Memory, LessOne
<1> QED
  BY <1>1, SpentSound DEF Memory

LEMMA UncoolBegan ==
  ASSUME NEW m \in Memory, ~Cooling(m)
  PROVE  m.win = 0 /\ m.loss = 0
BY CountFacts DEF Cooling, Memory

LEMMA ResumedShape ==
  ASSUME NEW m \in Memory, NEW side \in Sides, NEW changed \in BOOLEAN,
         NEW result \in Results, changed => m.pending = "none"
  PROVE  LET o == Resumed(m, side, changed, result)
             v == m.verdict
         IN  /\ Shape(o, m, side)
             /\ o.out # <<>> /\ ~Leaves(o) => changed \/ Opposes(side, v) \/ m.pending \in Entries
             /\ o.out = <<>> /\ Opposes(side, v) => ~changed /\ ~m.restart /\ m.pending = "none"
             /\ ~Cooling(m) => Began(o, m)
             /\ Cooling(m) /\ Mode # "order_opportunity" => Paid(o, m, Spends(m, side, changed))
<1> DEFINE o == Resumed(m, side, changed, result)
           v == m.verdict
           spends == Spends(m, side, changed)
           paid == IF spends THEN Spent(m) ELSE m
           known == [m EXCEPT !.restart = FALSE]
           done == [paid EXCEPT !.restart = FALSE]
<1>1. /\ known \in Memory /\ known.at = m.at /\ known.verdict = v /\ known.hold = m.hold
      /\ known.pending = m.pending /\ known.win = m.win /\ known.loss = m.loss
      /\ (Cooling(known) <=> Cooling(m))
  BY DEF Memory, Cooling
<1>2. /\ done \in Memory /\ done.at = m.at /\ done.verdict = v /\ done.hold = m.hold
      /\ done.pending = m.pending
      /\ done.win = (IF spends THEN LessOne(m.win) ELSE m.win)
      /\ done.loss = (IF spends THEN LessOne(m.loss) ELSE m.loss)
  <2>1. /\ paid \in Memory /\ paid.at = m.at /\ paid.verdict = v /\ paid.hold = m.hold
        /\ paid.pending = m.pending
        /\ paid.win = (IF spends THEN LessOne(m.win) ELSE m.win)
        /\ paid.loss = (IF spends THEN LessOne(m.loss) ELSE m.loss)
    BY SpentShape
  <2> HIDE DEF paid, spends
  <2> QED
    BY <2>1 DEF Memory
<1>3. spends => Cooling(m) /\ changed
  BY DEF Spends
<1>4. m.pending \in Sides \cup {"flat"}
  BY DEF Memory
<1>5. CASE Cooling(m) /\ Opposes(side, v)
  <2>1. o = CoolingExit(done)
    BY <1>5 DEF Resumed
  <2> HIDE DEF o, done, spends
  <2>2. Shape(o, done, side) /\ Kept(o, done) /\ Leaves(o)
    BY <1>2, <2>1, CoolingExitShape
  <2> QED
    BY <1>2, <1>5, <2>2 DEF Shape, Placed, Leaves, Kept, Paid, o, spends
<1>6. CASE ~(Cooling(m) /\ Opposes(side, v)) /\ m.pending = "flat" /\ side # "none"
  <2>1. o = Outcome(known, "none", <<"exit">>)
    BY <1>6 DEF Resumed
  <2>2. ~changed /\ ~spends
    BY <1>3, <1>6
  <2> HIDE DEF o, known, spends
  <2>3. o.mem = known /\ o.out = <<"exit">>
    BY <1>1, <2>1, OutcomeShape
  <2>4. Leaves(o)
    BY <1>1, <1>6, <2>3 DEF Leaves
  <2> QED
    BY <1>1, <1>6, <2>2, <2>3, <2>4 DEF Shape, Placed, Began, Kept, Paid, o, spends
<1> DEFINE above == \/ Cooling(m) /\ Opposes(side, v)
                    \/ m.pending = "flat" /\ side # "none"
<1>7. CASE ~above /\ spends
  <2>1. o = Outcome(done, side, <<>>)
    BY <1>7 DEF Resumed
  <2>2. Cooling(m) /\ ~Opposes(side, v)
    BY <1>3, <1>7
  <2> HIDE DEF o, done
  <2>3. o.mem = done /\ o.out = <<>> /\ o.side = side
    BY <1>2, <2>1, OutcomeShape
  <2> QED
    BY <1>2, <1>7, <2>2, <2>3 DEF Shape, Placed, Quiet, Paid, o
<1>8. CASE ~above /\ ~spends /\ m.restart /\ ~changed /\ Cooling(m) /\ WouldOrder(side, v)
  <2>1. o = Outcome(known, side, <<>>)
    BY <1>8 DEF Resumed
  <2> HIDE DEF o, known, spends
  <2>3. o.mem = known /\ o.out = <<>> /\ o.side = side
    BY <1>1, <2>1, OutcomeShape
  <2> QED
    BY <1>1, <1>8, <2>3 DEF Shape, Placed, Quiet, Paid, o, spends
<1>9. CASE ~above /\ ~spends /\ m.restart /\ ~(~changed /\ Cooling(m) /\ WouldOrder(side, v))
  <2>1. o = CatchUp(known, side, result)
    BY <1>9 DEF Resumed
  <2> HIDE DEF o, known, spends
  <2>2. /\ Shape(o, known, side) /\ Began(o, known)
        /\ (Opposes(side, v) => o.out # <<>>)
        /\ (~Opposes(side, v) => o.out = <<>>)
    BY <1>1, <2>1, CatchUpShape
  <2>3. Shape(o, m, side) /\ Began(o, m)
    BY <1>1, <2>2 DEF Shape, Placed, Began, Kept
  <2>4. Cooling(m) => Paid(o, m, spends)
    BY <1>9, <2>2, <2>3 DEF Began, Kept, Paid
  <2> QED
    BY <2>2, <2>3, <2>4 DEF o, spends
<1>10. CASE ~above /\ ~spends /\ ~m.restart /\ changed
  <2>1. o = OnTransition(m, side, v, result)
    BY <1>10 DEF Resumed
  <2> HIDE DEF o, spends
  <2>2. /\ Shape(o, m, side) /\ Began(o, m)
        /\ (o.out = <<>> <=> ~WouldOrder(side, v))
    BY <2>1, OnTransitionShape
  <2>3. Cooling(m) => ~WouldOrder(side, v)
    BY <1>10, UnspentPlacesNothing DEF spends
  <2>4. Cooling(m) => Paid(o, m, spends)
    BY <1>10, <2>2, <2>3 DEF Began, Kept, Paid
  <2>5. Opposes(side, v) => o.out # <<>>
    BY <2>2 DEF Opposes, WouldOrder
  <2> QED
    BY <1>10, <2>2, <2>4, <2>5 DEF o, spends
<1>11. CASE ~above /\ ~spends /\ ~m.restart /\ ~changed /\ m.pending \in Entries
  <2>1. o = Retry(m, side, result)
    BY <1>11 DEF Resumed
  <2> HIDE DEF o, spends
  <2>2. /\ Shape(o, m, side) /\ Began(o, m)
        /\ (o.out = <<>> <=> Cooling(m) \/ ~WouldOrder(side, v))
    BY <2>1, RetryShape
  <2>4. Cooling(m) => Paid(o, m, spends)
    BY <1>11, <2>2 DEF Began, Kept, Paid
  <2>5. Opposes(side, v) => o.out # <<>>
    BY <1>11, <2>2 DEF Opposes, WouldOrder
  <2> QED
    BY <1>11, <2>2, <2>4, <2>5 DEF o, spends
<1>12. CASE ~above /\ ~spends /\ ~m.restart /\ ~changed /\ m.pending \notin Entries
  <2>1. o = Outcome(m, side, <<>>)
    BY <1>12 DEF Resumed
  <2>2. Opposes(side, v) => m.pending = "none"
    BY <1>4, <1>12 DEF Opposes, Sides
  <2> HIDE DEF o, spends
  <2>3. o.mem = m /\ o.out = <<>> /\ o.side = side
    BY <2>1, OutcomeShape
  <2> QED
    BY <1>12, <2>2, <2>3 DEF Shape, Placed, Quiet, Began, Kept, Paid, o, spends
<1> QED
  <2>1. \/ Cooling(m) /\ Opposes(side, v)
        \/ ~(Cooling(m) /\ Opposes(side, v)) /\ m.pending = "flat" /\ side # "none"
        \/ ~above
    OBVIOUS
  <2>2. ~above => \/ spends
                  \/ ~spends /\ m.restart
                  \/ ~spends /\ ~m.restart /\ changed
                  \/ ~spends /\ ~m.restart /\ ~changed
    OBVIOUS
  <2> HIDE DEF above, spends
  <2> QED
    BY <1>5, <1>6, <1>7, <1>8, <1>9, <1>10, <1>11, <1>12, <2>1, <2>2

\* A change to this verdict spends a slot, in the modes in which the feed alone decides.
Counts(v) == Mode = "directional_transition" => v # "FLAT"

LEMMA SpendsCounts ==
  ASSUME NEW m \in Memory, NEW side, NEW changed \in BOOLEAN, Mode # "order_opportunity"
  PROVE  Spends(m, side, changed) <=> changed /\ Cooling(m) /\ Counts(m.verdict)
BY ModeType DEF Spends, Consumes, Counts

\* A hold is on an idle strategy.
Held(m) == m.hold # "none" => ~m.reset /\ ~Cooling(m) /\ m.pending = "none"

LEMMA OnBarShape ==
  ASSUME NEW m \in Memory, NEW side \in Sides, NEW v \in Verdicts, NEW result \in Results,
         Held(m), m.hold # "none" => side = "none"
  PROVE  LET o == OnBar(m, side, v, result)
             p == IF v = m.verdict THEN m.pending ELSE "none"
         IN  /\ o.mem.at = m.at + 1 /\ o.mem.verdict = v
             /\ o.mem.hold = IF m.hold = v THEN v ELSE "none"
             /\ Quiet(o, side, p) \/ Leaves(o) \/ Enters(o, side)
             /\ o.out # <<>> /\ ~Leaves(o) =>
                  m.reset \/ v # m.verdict \/ Opposes(side, v) \/ m.pending \in Entries
             /\ o.out = <<>> /\ Opposes(side, v) =>
                  v = m.verdict /\ ~m.restart /\ m.pending = "none"
             /\ m.hold = v => o.out = <<>> /\ Kept(o, m)
             /\ ~Cooling(m) => Began(o, m)
             /\ Cooling(m) /\ ~m.reset /\ Mode # "order_opportunity" =>
                  Paid(o, m, v # m.verdict /\ Counts(v))
<1> DEFINE o == OnBar(m, side, v, result)
           p == IF v = m.verdict THEN m.pending ELSE "none"
           n == TakenIn(m, v)
           r == [n EXCEPT !.reset = FALSE]
           h == [n EXCEPT !.restart = FALSE, !.pending = "none"]
           u == [n EXCEPT !.hold = "none"]
           c == v # m.verdict
<1>0. c \in BOOLEAN /\ v # "none" /\ m.hold \in Verdicts \cup {"none"} /\ m.reset \in BOOLEAN
      /\ "none" \notin Verdicts
  BY DEF Memory, Verdicts
<1>1. /\ n \in Memory /\ n.at = m.at + 1 /\ n.verdict = v /\ n.hold = m.hold
      /\ n.pending = p /\ n.reset = m.reset /\ n.restart = m.restart
      /\ n.win = m.win /\ n.loss = m.loss
  <2>1. p \in Sides \cup {"flat"} /\ m.at + 1 \in Nat
    BY DEF Memory, Sides
  <2>2. n = [m EXCEPT !.at = m.at + 1, !.verdict = v, !.pending = p]
    BY DEF TakenIn, Memory
  <2> HIDE DEF p, n
  <2> QED
    BY <2>1, <2>2 DEF Memory
<1>2. p = m.pending \/ (c /\ p = "none")
  OBVIOUS
<1> HIDE DEF n, c
<1>3. CASE m.reset
  <2>1. /\ r \in Memory /\ r.at = m.at + 1 /\ r.verdict = v /\ r.hold = "none"
        /\ r.pending = p /\ r.win = m.win /\ r.loss = m.loss
    BY <1>1, <1>3 DEF Memory, Held
  <2>2. o = OnTransition(r, side, r.verdict, result)
    BY <1>1, <1>3, <2>1 DEF OnBar, n
  <2> HIDE DEF r, o, p
  <2>3. /\ Shape(o, r, side) /\ Began(o, r)
        /\ (o.out = <<>> <=> ~WouldOrder(side, r.verdict))
    BY <2>1, <2>2, OnTransitionShape
  <2>4. Opposes(side, v) => o.out # <<>>
    BY <2>1, <2>3 DEF Opposes, WouldOrder
  <2>5. Began(o, m)
    BY <2>1, <2>3 DEF Began, Kept
  <2>6. m.hold = "none"
    BY <1>3 DEF Held
  <2> QED
    BY <1>0, <1>3, <2>1, <2>3, <2>4, <2>5, <2>6 DEF Shape, Placed, o, p
<1>4. CASE ~m.reset /\ m.hold = v
  <2>0. m.hold # "none" /\ side = "none" /\ ~Cooling(m) /\ m.pending = "none" /\ p = "none"
    BY <1>0, <1>4 DEF Held
  <2>1. /\ h \in Memory /\ h.at = m.at + 1 /\ h.verdict = v /\ h.hold = v
        /\ h.pending = "none" /\ h.win = m.win /\ h.loss = m.loss
    BY <1>1, <1>4 DEF Memory, Sides
  <2>2. o = Outcome(h, side, <<>>)
    BY <1>1, <1>4 DEF OnBar, n
  <2> HIDE DEF h, o, p
  <2>3. o.mem = h /\ o.out = <<>> /\ o.side = side
    BY <2>1, <2>2, OutcomeShape
  <2> QED
    BY <1>4, <2>0, <2>1, <2>3 DEF Quiet, Began, Kept, Opposes, o, p
<1>5. CASE ~m.reset /\ m.hold # v
  <2>1. /\ u \in Memory /\ u.at = m.at + 1 /\ u.verdict = v /\ u.hold = "none"
        /\ u.pending = p /\ u.restart = m.restart /\ u.win = m.win /\ u.loss = m.loss
        /\ (Cooling(u) <=> Cooling(m))
    BY <1>1, <1>5 DEF Memory, Cooling
  <2>2. o = Resumed(u, side, c, result)
    BY <1>1, <1>5 DEF OnBar, n, c
  <2>3. c => u.pending = "none"
    BY <1>1, <2>1 DEF c
  <2> HIDE DEF u, o
  <2>4. /\ Shape(o, u, side)
        /\ (o.out # <<>> /\ ~Leaves(o) => c \/ Opposes(side, v) \/ u.pending \in Entries)
        /\ (o.out = <<>> /\ Opposes(side, v) => ~c /\ ~u.restart /\ u.pending = "none")
        /\ (~Cooling(u) => Began(o, u))
        /\ (Cooling(u) /\ Mode # "order_opportunity" => Paid(o, u, Spends(u, side, c)))
    BY <1>0, <2>1, <2>2, <2>3, ResumedShape
  <2>5. Mode # "order_opportunity" /\ Cooling(m) => (Spends(u, side, c) <=> c /\ Counts(v))
    BY <1>0, <2>1, SpendsCounts
  <2>6. Cooling(m) /\ Mode # "order_opportunity" => Paid(o, m, c /\ Counts(v))
    BY <2>1, <2>4, <2>5 DEF Paid
  <2>7. ~Cooling(m) => Began(o, m)
    BY <2>1, <2>4 DEF Began, Kept
  <2>8. o.out # <<>> /\ ~Leaves(o) => c \/ Opposes(side, v) \/ m.pending \in Entries
    BY <1>2, <2>1, <2>4
  <2>9. o.out = <<>> /\ Opposes(side, v) => ~c /\ ~m.restart /\ m.pending = "none"
    BY <1>2, <2>1, <2>4
  <2>10. /\ o.mem.at = m.at + 1 /\ o.mem.verdict = v /\ o.mem.hold = "none"
         /\ Quiet(o, side, p) \/ Leaves(o) \/ Enters(o, side)
    BY <2>1, <2>4 DEF Shape, Placed
  <2> HIDE DEF p
  <2> QED
    BY <1>5, <2>6, <2>7, <2>8, <2>9, <2>10 DEF o, p, c
<1> QED
  BY <1>0, <1>3, <1>4, <1>5

LEMMA StartupShape ==
  ASSUME NEW m \in Memory, NEW side \in Sides, NEW result \in Results, Current(m)
  PROVE  LET o == Startup(m, side, result)
         IN  /\ Shape(o, m, side)
             /\ o.out # <<>> /\ ~Leaves(o) => Opposes(side, m.verdict) \/ m.pending \in Entries
             /\ o.out = <<>> /\ Opposes(side, m.verdict) =>
                  m.pending # "none" \/ ~(m.restart /\ m.startup)
             /\ side = "none" /\ m.pending = "none" => o.out = <<>>
             /\ Began(o, m) /\ (Cooling(m) => Kept(o, m))
<1> DEFINE n == [m EXCEPT !.startup = FALSE, !.restart = FALSE]
           s == [m EXCEPT !.startup = FALSE]
           o == Startup(m, side, result)
           v == m.verdict
<1>1. /\ n \in Memory /\ n.at = m.at /\ n.verdict = v /\ n.hold = m.hold /\ n.pending = m.pending
      /\ n.win = m.win /\ n.loss = m.loss /\ (Cooling(n) <=> Cooling(m))
  BY DEF Memory, Cooling
<1>2. /\ s \in Memory /\ s.at = m.at /\ s.verdict = v /\ s.hold = m.hold /\ s.pending = m.pending
      /\ s.win = m.win /\ s.loss = m.loss
  BY DEF Memory
<1> DEFINE still == ~m.startup \/ (~m.restart /\ m.pending = "none")
<1>3. CASE still
  <2>1. o = Outcome(s, side, <<>>)
    BY <1>3 DEF Startup
  <2> HIDE DEF o, s
  <2>2. o.mem = s /\ o.out = <<>> /\ o.side = side
    BY <1>2, <2>1, OutcomeShape
  <2> QED
    BY <1>2, <1>3, <2>2 DEF Shape, Placed, Quiet, Began, Kept, o
<1>4. CASE ~still /\ m.pending = "flat" /\ side # "none"
  <2>1. o = Outcome(n, "none", <<"exit">>)
    BY <1>4 DEF Startup
  <2> HIDE DEF o, n
  <2>2. o.mem = n /\ o.out = <<"exit">>
    BY <1>1, <2>1, OutcomeShape
  <2>3. Leaves(o)
    BY <1>1, <1>4, <2>2 DEF Leaves
  <2> QED
    BY <1>1, <1>4, <2>2, <2>3 DEF Shape, Placed, Began, Kept, o
<1> DEFINE target == m.pending \in Entries /\ side # m.pending
<1>5. CASE ~still /\ ~(m.pending = "flat" /\ side # "none") /\ target
  <2>1. o = Retry(n, side, result)
    BY <1>5 DEF Startup
  <2>2. m.pending # "none"
    BY <1>5 DEF Entries
  <2> HIDE DEF o, n, still
  <2>3. /\ Shape(o, n, side) /\ Began(o, n)
        /\ (o.out = <<>> <=> Cooling(n) \/ ~WouldOrder(side, n.verdict))
    BY <1>1, <2>1, RetryShape
  <2>4. Shape(o, m, side) /\ Began(o, m) /\ (Cooling(m) => Kept(o, m))
    BY <1>1, <2>3 DEF Shape, Placed, Began, Kept
  <2> QED
    BY <1>5, <2>2, <2>4 DEF o
<1>6. CASE ~still /\ ~(m.pending = "flat" /\ side # "none") /\ ~target
           /\ Cooling(n) /\ Opposes(side, n.verdict)
  <2>1. o = CoolingExit(n)
    BY <1>6 DEF Startup
  <2> HIDE DEF o, n
  <2>3. Shape(o, n, side) /\ Kept(o, n) /\ Leaves(o)
    BY <1>1, <2>1, CoolingExitShape
  <2>4. Shape(o, m, side) /\ Kept(o, m) /\ Began(o, m) /\ o.out # <<>>
    BY <1>1, <2>3 DEF Shape, Placed, Began, Kept, Leaves
  <2> QED
    BY <1>1, <1>6, <2>3, <2>4 DEF Opposes, o
<1>7. CASE ~still /\ ~(m.pending = "flat" /\ side # "none") /\ ~target
           /\ ~(Cooling(n) /\ Opposes(side, n.verdict))
  <2>1. o = CatchUp(n, side, result)
    BY <1>7 DEF Startup
  <2> HIDE DEF o, n, still
  <2>3. /\ Shape(o, n, side) /\ Began(o, n)
        /\ (Opposes(side, v) => o.out # <<>>)
        /\ (~Opposes(side, v) => o.out = <<>>)
    BY <1>1, <2>1, CatchUpShape
  <2>4. Shape(o, m, side) /\ Began(o, m) /\ (Cooling(m) => Kept(o, m))
    BY <1>1, <1>7, <2>3 DEF Shape, Placed, Began, Kept
  <2> QED
    BY <2>3, <2>4 DEF Opposes, o
<1> QED
  BY <1>3, <1>4, <1>5, <1>6, <1>7

-----------------------------------------------------------------------------
(* Where the strategy stands in the feed, and the executor with it.        *)

Read(m, f) == m.at \in 1 .. Len(f) /\ m.verdict = f[m.at]

\* The side is the one that the verdict of bar e asked for, e not after b.
Named(side, e, b, f) == e \in 1 .. b /\ side = Target(f[e])

Grows(f, g) == Len(f) <= Len(g) /\ \A i \in 1 .. Len(f) : g[i] = f[i]

\* The snapshot is not ahead of the memory; both know the verdict of their bar.
PlaceInv == Read(mem, feed) /\ Read(saved.mem, feed) /\ saved.mem.at <= mem.at

\* A strategy without a gap has taken in every bar but the one in hand.
Awaits == kind = "bar" /\ pc \in {"retry", "decide"}
LevelInv ==
  /\ pc \in {"venue", "deliver"} => kind = "minute"
  /\ pc \notin {"down", "replay"} /\ ~gap => Len(feed) = IF Awaits THEN mem.at + 1 ELSE mem.at

\* What the executor holds was entered on a bar of the snapshot, and the strategy knows it.
SlotInv ==
  /\ begun \/ gone # "no" => slot # "none"
  /\ owed => begun
  /\ enteredAt <= saved.mem.at
  /\ slot # "none" => Named(slot, enteredAt, saved.mem.at, feed)
  /\ pc \notin {"down", "submit"} =>
       /\ slot # "none" => slot = mirror
       /\ mirror # "none" => Named(mirror, enteredAt, saved.mem.at, feed)
  /\ pc = "replay" /\ slot # "none" => mem.restart /\ mem.startup

\* Orders are for the verdict, and the snapshot they were saved in is of their bar.
IntentInv ==
  /\ intents # <<>> => due /\ saved.mem.at = mem.at
  /\ \/ intents \in {<<>>, <<"exit">>}
     \/ /\ Target(mem.verdict) # "none"
        /\ intents \in {<<Target(mem.verdict)>>, <<"exit", Target(mem.verdict)>>}
  /\ fresh => pc # "submit"

HoldInv ==
  /\ saved.mem.hold = mem.hold
  /\ Held(mem) /\ Held(saved.mem)
  /\ mem.hold # "none" =>
       /\ slot = "none" /\ mirror = "none" /\ intents = <<>> /\ told = "none"
       /\ winFrom = 0 /\ lossFrom = 0

Standing == PlaceInv /\ LevelInv /\ SlotInv /\ IntentInv /\ HoldInv

LEMMA GrowsFacts ==
  ASSUME NEW f \in Seq(Verdicts), NEW g \in Seq(Verdicts), Grows(f, g)
  PROVE  /\ \A m \in Memory : Read(m, f) => Read(m, g)
         /\ \A side : \A e \in Nat : \A b \in 1 .. Len(f) : Named(side, e, b, f) => Named(side, e, b, g)
BY DEF Grows, Read, Named, Memory

LEMMA GrowsBy ==
  ASSUME feed \in Seq(Verdicts), feed' = feed \/ \E v \in Verdicts : feed' = Append(feed, v)
  PROVE  Grows(feed, feed') /\ feed' \in Seq(Verdicts)
BY DEF Grows

LEMMA TailFacts ==
  ASSUME NEW t \in Entries, NEW s \in {<<"exit">>, <<t>>, <<"exit", t>>}
  PROVE  /\ s # <<>>
         /\ s = <<"exit">> => Head(s) = "exit" /\ Tail(s) = <<>>
         /\ s = <<t>> => Head(s) = t /\ Tail(s) = <<>>
         /\ s = <<"exit", t>> => Head(s) = "exit" /\ Tail(s) = <<t>>
         /\ t # "exit" /\ <<t>> # <<"exit">> /\ <<t>> # <<>> /\ <<"exit">> # <<>>
<1>1. t # "exit"
  BY DEF Entries
<1>2. /\ Len(<<"exit">>) = 1 /\ <<"exit">>[1] = "exit" /\ Head(<<"exit">>) = "exit"
      /\ Tail(<<"exit">>) = <<>>
  OBVIOUS
<1>3. Len(<<t>>) = 1 /\ <<t>>[1] = t /\ Head(<<t>>) = t /\ Tail(<<t>>) = <<>>
  OBVIOUS
<1>4. Len(<<"exit", t>>) = 2 /\ Head(<<"exit", t>>) = "exit" /\ Tail(<<"exit", t>>) = <<t>>
  OBVIOUS
<1>5. Len(<<>>) = 0
  OBVIOUS
<1>6. <<t>> # <<"exit">> /\ <<t>> # <<>> /\ <<"exit">> # <<>>
      /\ <<"exit", t>> # <<>> /\ <<"exit", t>> # <<t>> /\ <<"exit", t>> # <<"exit">>
  BY <1>1, <1>2, <1>3, <1>4, <1>5
<1>7. s = <<"exit">> \/ s = <<t>> \/ s = <<"exit", t>>
  OBVIOUS
<1>8. s # <<>>
  BY <1>6, <1>7
<1>9. s = <<"exit">> => Head(s) = "exit" /\ Tail(s) = <<>>
  BY <1>2
<1>10. s = <<t>> => Head(s) = t /\ Tail(s) = <<>>
  BY <1>3
<1>11. s = <<"exit", t>> => Head(s) = "exit" /\ Tail(s) = <<t>>
  BY <1>4
<1> QED
  BY <1>1, <1>6, <1>8, <1>9, <1>10, <1>11

\* The first order, and what is left after it.
LEMMA NextOrder ==
  ASSUME IInv, Standing, intents # <<>>
  PROVE  LET t == Target(mem.verdict)
         IN  \/ intents = <<"exit">> /\ Head(intents) = "exit" /\ Tail(intents) = <<>>
             \/ /\ t \in Entries
                /\ intents = <<"exit", t>> /\ Head(intents) = "exit" /\ Tail(intents) = <<t>>
             \/ t \in Entries /\ intents = <<t>> /\ Head(intents) = t /\ Tail(intents) = <<>>
<1> DEFINE t == Target(mem.verdict)
<1>1. t \in Sides
  BY TargetType DEF IInv, TypeOK, Memory
<1>2. "long" \in Entries
  BY DEF Entries
<1>3. CASE intents = <<"exit">>
  BY <1>2, <1>3, TailFacts
<1>4. CASE intents # <<"exit">>
  <2>1. t \in Entries /\ intents \in {<<t>>, <<"exit", t>>}
    BY <1>1, <1>4 DEF Standing, IntentInv, Sides
  <2> HIDE DEF t
  <2>2. intents \in {<<"exit">>, <<t>>, <<"exit", t>>}
    BY <2>1
  <2> QED
    BY <2>1, <2>2, TailFacts DEF t
<1> QED
  BY <1>3, <1>4

LEMMA PlaceFacts ==
  ASSUME IInv, PlaceInv
  PROVE  /\ feed \in Seq(Verdicts) /\ Len(feed) \in Nat
         /\ mem.at \in 1 .. Len(feed) /\ mem.verdict = feed[mem.at] /\ mem.at \in Nat
         /\ saved.mem.at \in 1 .. Len(feed) /\ saved.mem.at <= mem.at /\ saved.mem.at \in Nat
         /\ mem \in Memory /\ saved.mem \in Memory /\ enteredAt \in Nat
BY DEF IInv, TypeOK, MemoryInv, Trusted, PlaceInv, Read, Memory

\* Steps of the executor and of the loop between two decisions.
LEMMA StepStands ==
  ASSUME IInv, Standing, Grows(feed, feed'), feed' \in Seq(Verdicts),
         UNCHANGED <<mem, mirror, saved, due, fresh, winFrom, lossFrom, enteredAt>>,
         slot' \in {slot, "none"}, begun' \/ gone' # "no" => slot' # "none", owed' => begun',
         intents' \in {intents, Tail(intents)} \/ intents' = intents,
         intents' # intents => intents # <<>>,
         told' # "none" => told # "none" \/ slot # "none",
         pc' \notin {"down", "submit"} => pc \notin {"down", "submit"},
         pc' = "replay" => pc = "replay", pc' = "submit" => pc = "submit",
         LevelInv'
  PROVE  Standing'
<1>1. /\ feed \in Seq(Verdicts) /\ Len(feed) \in Nat
      /\ saved.mem.at \in 1 .. Len(feed) /\ enteredAt \in Nat
      /\ mem \in Memory /\ saved.mem \in Memory
  BY PlaceFacts DEF Standing
<1>2. PlaceInv'
  BY <1>1, GrowsFacts DEF Standing, PlaceInv
<1>3. ASSUME NEW side, Named(side, enteredAt, saved.mem.at, feed)
      PROVE  Named(side, enteredAt, saved.mem.at, feed')
  BY <1>1, <1>3, GrowsFacts
<1>4. SlotInv'
  BY <1>3 DEF Standing, SlotInv
<1>5. IntentInv'
  <2>1. CASE intents' = intents
    BY <2>1 DEF Standing, IntentInv
  <2>2. CASE intents' # intents
    <3>1. intents # <<>> /\ intents' = Tail(intents)
      BY <2>2
    <3>2. \/ intents' = <<>>
          \/ Target(mem.verdict) \in Entries /\ intents' = <<Target(mem.verdict)>>
      BY <3>1, NextOrder
    <3> QED
      BY <3>1, <3>2 DEF Standing, IntentInv, Entries
  <2> QED
    BY <2>1, <2>2
<1>6. HoldInv'
  <2>1. CASE mem.hold = "none"
    BY <2>1 DEF Standing, HoldInv
  <2>2. CASE mem.hold # "none"
    <3>1. slot = "none" /\ told = "none" /\ intents = <<>> /\ intents' = <<>>
      BY <2>2 DEF Standing, HoldInv
    <3> QED
      BY <3>1 DEF Standing, HoldInv
  <2> QED
    BY <2>1, <2>2
<1> QED
  BY <1>2, <1>4, <1>5, <1>6 DEF Standing

LEMMA ClosingSlot ==
  ASSUME TypeOK, SlotInv, Closing
  PROVE  /\ begun' \/ gone' # "no" => slot' # "none"
         /\ owed' => begun'
BY DEF TypeOK, SlotInv, Closing, NoClose, CloseAccepted, CloseFails, execVars

LEMMA WaitingStands ==
  ASSUME IInv, Standing, \/ \E v \in Verdicts : Downtime(v)
                         \/ ReplayBroken \/ ReplayDone \/ MinuteArrives
                         \/ \E v \in Verdicts : BarCompletes(v)
                         \/ \E how \in {"manual", "liquidated"} : VenueCloses(how)
                         \/ UNCHANGED vars
  PROVE  Standing'
<1>0. /\ feed \in Seq(Verdicts) /\ Len(feed) \in Nat
      /\ mem.at \in 1 .. Len(feed) /\ mem.at \in Nat
  BY PlaceFacts DEF Standing
<1>1. Grows(feed, feed') /\ feed' \in Seq(Verdicts)
  BY <1>0, GrowsBy
  DEF Downtime, ReplayBroken, ReplayDone, MinuteArrives, BarCompletes, VenueCloses, vars
<1>2. /\ UNCHANGED <<mem, mirror, saved, due, fresh, winFrom, lossFrom, enteredAt, intents>>
      /\ UNCHANGED <<slot, begun, owed, told>>
      /\ gone' = gone \/ slot # "none"
  BY DEF Downtime, ReplayBroken, ReplayDone, MinuteArrives, BarCompletes, VenueCloses, vars,
         stratVars, execVars, flowVars, histVars, Goto
<1>3. /\ (pc' \notin {"down", "submit"} => pc \notin {"down", "submit"})
      /\ (pc' = "replay" => pc = "replay") /\ (pc' = "submit" => pc = "submit")
  BY DEF Downtime, ReplayBroken, ReplayDone, MinuteArrives, BarCompletes, VenueCloses, vars,
         flowVars, Goto
<1>4. LevelInv'
  <2>1. ASSUME NEW v \in Verdicts, Downtime(v) PROVE LevelInv'
    BY <2>1 DEF Downtime, flowVars, LevelInv
  <2>2. CASE ReplayBroken
    BY <2>2 DEF ReplayBroken, LevelInv
  <2>3. CASE ReplayDone
    BY <1>0, <2>3 DEF ReplayDone, Behind, LevelInv, Awaits, stratVars
  <2>4. CASE MinuteArrives
    BY <2>4 DEF MinuteArrives, Goto, LevelInv, Awaits, stratVars, Standing
  <2>5. ASSUME NEW v \in Verdicts, BarCompletes(v) PROVE LevelInv'
    <3>1. Len(feed') = Len(feed) + 1
      BY <1>0, <2>5 DEF BarCompletes
    <3>2. pc = "idle" /\ pc' = "retry" /\ kind' = "bar" /\ gap' = gap /\ mem' = mem
      BY <2>5 DEF BarCompletes, Goto, stratVars
    <3> QED
      BY <1>0, <3>1, <3>2 DEF LevelInv, Awaits, Standing
  <2>6. CASE (\E how \in {"manual", "liquidated"} : VenueCloses(how)) \/ UNCHANGED vars
    <3>1. UNCHANGED <<feed, kind, pc, gap, mem>>
      BY <2>6 DEF VenueCloses, vars, stratVars, flowVars
    <3> QED
      BY <3>1 DEF Standing, LevelInv, Awaits
  <2> QED
    BY <2>1, <2>2, <2>3, <2>4, <2>5, <2>6
<1>5. begun' \/ gone' # "no" => slot' # "none"
  BY <1>2 DEF Standing, SlotInv
<1>6. owed' => begun'
  BY <1>2 DEF Standing, SlotInv
<1> QED
  BY <1>1, <1>2, <1>3, <1>4, <1>5, <1>6, StepStands

LEMMA VenueStands ==
  ASSUME IInv, Standing,
         VenueUnclear \/ VenueAgrees \/ (\E cause \in Causes : ClosureBooked(cause))
  PROVE  Standing'
<1>0. feed \in Seq(Verdicts) /\ feed' = feed
  BY PlaceFacts DEF Standing, VenueUnclear, VenueAgrees, ClosureBooked
<1>1. Grows(feed, feed') /\ feed' \in Seq(Verdicts)
  BY <1>0, GrowsBy
<1>2. /\ UNCHANGED <<mem, mirror, saved, due, fresh, winFrom, lossFrom, enteredAt, intents>>
      /\ UNCHANGED <<gap, kind>> /\ pc = "venue" /\ pc' \in {"retry", "deliver"}
  BY DEF VenueUnclear, VenueAgrees, ClosureBooked, Goto, stratVars, histVars
<1>3. /\ slot' \in {slot, "none"}
      /\ (begun' \/ gone' # "no" => slot' # "none") /\ (owed' => begun')
      /\ (told' # "none" => told # "none" \/ slot # "none")
  BY DEF VenueUnclear, VenueAgrees, ClosureBooked, Standing, SlotInv
<1>4. LevelInv'
  BY <1>0, <1>2 DEF Standing, LevelInv, Awaits
<1> QED
  BY <1>1, <1>2, <1>3, <1>4, StepStands

LEMMA ClosesStand ==
  ASSUME IInv, Standing,
         \/ RetryIdle \/ RetryAccepted \/ (\E x \in BOOLEAN : RetryFails(x)) \/ NothingOwed
         \/ ExitIdle \/ ExitAccepted \/ (\E x \in BOOLEAN : ExitFails(x))
         \/ \E side \in Entries : FlipCloses(side)
  PROVE  Standing'
<1>0. \/ NothingOwed
      \/ Retried /\ Closing
      \/ ExitSubmitted /\ Closing
      \/ \E side \in Entries : FlipCloses(side) /\ Closing
  BY DEF RetryIdle, RetryAccepted, RetryFails, ExitIdle, ExitAccepted, ExitFails, Closing, FlipCloses
<1>1. feed' = feed /\ feed \in Seq(Verdicts)
  BY <1>0, PlaceFacts DEF Standing, NothingOwed, Retried, ExitSubmitted, FlipCloses, Loop
<1>2. Grows(feed, feed') /\ feed' \in Seq(Verdicts)
  BY <1>1, GrowsBy
<1>3. /\ UNCHANGED <<mem, mirror, saved, due, fresh, winFrom, lossFrom, enteredAt, gap, kind>>
      /\ \/ pc = "retry" /\ pc' = "decide" /\ intents' = intents
         \/ pc = "submit" /\ pc' = "submit" /\ intents' = intents
         \/ pc = "submit" /\ pc' = "submit" /\ intents # <<>> /\ intents' = Tail(intents)
  BY <1>0 DEF NothingOwed, Retried, ExitSubmitted, FlipCloses, Loop, Goto, Submits, Done,
              stratVars, histVars
<1>4. TypeOK /\ SlotInv
  BY DEF IInv, Standing
<1>5. /\ slot' \in {slot, "none"} /\ told' = told
      /\ (begun' \/ gone' # "no" => slot' # "none") /\ (owed' => begun')
  <2>1. CASE NothingOwed
    BY <1>4, <2>1 DEF NothingOwed, execVars, SlotInv
  <2>2. CASE Closing
    BY <1>4, <2>2, ClosingFacts, ClosingSlot
  <2> QED
    BY <1>0, <2>1, <2>2
<1>6. LevelInv'
  BY <1>1, <1>3 DEF Standing, LevelInv, Awaits
<1> QED
  BY <1>2, <1>3, <1>5, <1>6, StepStands

LEMMA NotFilledStands ==
  ASSUME IInv, Standing, NEW side \in Entries, NEW x \in BOOLEAN,
         FlipFails(side, x) \/ EntryNotFilled(side, x)
  PROVE  Standing'
<1>1. /\ UNCHANGED <<mirror, gap, saved, pc, kind, due, fresh, feed>>
      /\ UNCHANGED <<winFrom, lossFrom, enteredAt, told, slot>>
      /\ intents # <<>> /\ intents' = Tail(intents) /\ mem' = Rejected(mem) /\ pc = "submit"
  BY DEF FlipFails, CloseFails, EntryNotFilled, Submits, Done, Loop, histVars
<1>2. mem \in Memory
  BY PlaceFacts DEF Standing
<1>3. /\ mem'.at = mem.at /\ mem'.verdict = mem.verdict /\ mem'.hold = mem.hold
      /\ mem'.restart = mem.restart /\ mem'.startup = mem.startup
  BY <1>1, <1>2 DEF Rejected, Memory
<1>4. PlaceInv'
  BY <1>1, <1>3 DEF Standing, PlaceInv, Read
<1>5. LevelInv'
  BY <1>1, <1>3 DEF Standing, LevelInv, Awaits
<1>6. (begun' \/ gone' # "no" => slot' # "none") /\ (owed' => begun')
  BY DEF FlipFails, CloseFails, EntryNotFilled, Standing, SlotInv
<1>7. SlotInv'
  BY <1>1, <1>6 DEF Standing, SlotInv
<1>8. IntentInv'
  <2>1. \/ intents' = <<>>
        \/ Target(mem.verdict) \in Entries /\ intents' = <<Target(mem.verdict)>>
    BY <1>1, NextOrder
  <2> QED
    BY <1>1, <1>3, <2>1 DEF Standing, IntentInv, Entries
<1>9. HoldInv'
  <2>1. mem.hold = "none"
    BY <1>1 DEF Standing, HoldInv
  <2> QED
    BY <1>1, <1>3, <2>1 DEF Standing, HoldInv, Held
<1> QED
  BY <1>4, <1>5, <1>7, <1>8, <1>9 DEF Standing

\* What is opened is on the side of the verdict of the newest bar.
LEMMA FillsStand ==
  ASSUME IInv, Standing, NEW side \in Entries, EntryFills(side)
  PROVE  /\ Standing'
         /\ slot' = Target(feed[Len(feed)])
         /\ slot' = Target(mem.verdict) /\ intents' = <<>> /\ enteredAt' = mem.at
<1>1. /\ UNCHANGED <<mem, mirror, gap, saved, pc, kind, due, fresh, feed>>
      /\ UNCHANGED <<begun, gone, told, owed, winFrom, lossFrom>>
      /\ intents # <<>> /\ intents' = Tail(intents) /\ Head(intents) = side /\ pc = "submit"
      /\ slot = "none" /\ slot' = side /\ enteredAt' = mem.at /\ ~gap
  BY DEF EntryFills, Admitted, Submits, Done, Loop
<1>2. /\ Len(feed) \in Nat /\ mem.at \in 1 .. Len(feed) /\ mem.verdict = feed[mem.at]
      /\ mem.at \in Nat
  BY PlaceFacts DEF Standing
<1>3. side = Target(mem.verdict) /\ intents' = <<>>
  <2>1. side # "exit"
    BY DEF Entries
  <2> QED
    BY <1>1, <2>1, NextOrder
<1>4. Len(feed) = mem.at
  BY <1>1 DEF Standing, LevelInv, Awaits
<1>5. saved.mem.at = mem.at
  BY <1>1 DEF Standing, IntentInv
<1>6. Named(slot', enteredAt', saved'.mem.at, feed')
  BY <1>1, <1>2, <1>3, <1>5 DEF Named
<1>7. PlaceInv' /\ LevelInv'
  BY <1>1 DEF Standing, PlaceInv, Read, LevelInv, Awaits
<1>8. SlotInv'
  BY <1>1, <1>2, <1>5, <1>6 DEF Standing, SlotInv, Entries
<1>9. IntentInv'
  BY <1>1, <1>3 DEF Standing, IntentInv
<1>10. HoldInv'
  BY <1>1 DEF Standing, HoldInv
<1> QED
  BY <1>1, <1>2, <1>3, <1>4, <1>7, <1>8, <1>9, <1>10 DEF Standing

-----------------------------------------------------------------------------
(* What the other methods keep.                                            *)

\* The same bar, verdict, hold and cooldowns.
Same(n, m) ==
  /\ n \in Memory /\ n.at = m.at /\ n.verdict = m.verdict /\ n.hold = m.hold
  /\ n.reset = m.reset /\ n.win = m.win /\ n.loss = m.loss

LEMMA DurableSame ==
  ASSUME NEW m \in Memory
  PROVE  /\ Same(Durable(m), m) /\ Durable(m).pending = m.pending
         /\ ~Durable(m).restart /\ ~Durable(m).startup
BY DEF Durable, Same, Memory

LEMMA StartedSame ==
  ASSUME NEW m \in Memory, NEW side
  PROVE  /\ Same(Started(m, side), m) /\ Started(m, side).pending = m.pending
         /\ side # "none" => Started(m, side).restart /\ Started(m, side).startup
BY DEF Started, Same, Memory

LEMMA ReconciledSame ==
  ASSUME NEW m \in Memory, NEW side
  PROVE  /\ Same(Reconciled(m, side), m)
         /\ Reconciled(m, side).restart = m.restart
         /\ Reconciled(m, side).startup = m.startup
         /\ Reconciled(m, side).pending =
              IF m.pending = (IF side = "none" THEN "flat" ELSE side) THEN "none" ELSE m.pending
<1>1. CASE Reconciled(m, side) = m
  BY <1>1 DEF Reconciled, Same, Memory
<1>2. CASE Reconciled(m, side) = [m EXCEPT !.pending = "none"] /\ Reconciled(m, side) # m
  BY <1>2 DEF Reconciled, Same, Memory, Sides
<1> QED
  BY <1>1, <1>2 DEF Reconciled

LEMMA RejectedSame ==
  ASSUME NEW m \in Memory
  PROVE  Same(Rejected(m), m) /\ Rejected(m).pending = "none"
BY DEF Rejected, Same, Memory, Sides

LEMMA ExternallyClosedPlace ==
  ASSUME NEW m \in Memory, NEW cause
  PROVE  LET n == ExternallyClosed(m, cause)
         IN  /\ n \in Memory /\ n.at = m.at /\ n.verdict = m.verdict /\ n.hold = "none"
             /\ n.pending = "none" /\ n.win = 0
             /\ n.loss = IF cause = "manual" THEN 0 ELSE LossCount
             /\ n.reset = (cause = "manual")
<1> DEFINE l == IF cause = "manual" THEN 0 ELSE LossCount
           r == cause = "manual"
           c == [m EXCEPT !.pending = "none", !.hold = "none", !.restart = FALSE, !.win = 0,
                          !.loss = l, !.reset = r]
<1>1. r \in BOOLEAN
  OBVIOUS
<1>2. ExternallyClosed(m, cause) = c /\ c \in Memory
  <2>1. Trusted(ExternallyClosed(m, cause))
    BY ExternallyClosedTrusted
  <2>2. ExternallyClosed(m, cause) = c
    BY DEF ExternallyClosed
  <2> QED
    BY <2>1, <2>2 DEF Trusted
<1> HIDE DEF l, r
<1>3. /\ c.at = m.at /\ c.verdict = m.verdict /\ c.hold = "none" /\ c.pending = "none"
      /\ c.win = 0 /\ c.loss = l /\ c.reset = r
  BY DEF Memory
<1> HIDE DEF c
<1> QED
  BY <1>2, <1>3 DEF l, r

LEMMA TakenInPlace ==
  ASSUME NEW m \in Memory, NEW v \in Verdicts
  PROVE  LET n == TakenIn(m, v)
         IN  /\ n \in Memory /\ n.at = m.at + 1 /\ n.verdict = v /\ n.hold = m.hold
             /\ n.pending = (IF v = m.verdict THEN m.pending ELSE "none")
             /\ n.reset = m.reset /\ n.restart = m.restart /\ n.startup = m.startup
             /\ n.win = m.win /\ n.loss = m.loss
<1> DEFINE p == IF v = m.verdict THEN m.pending ELSE "none"
<1>1. p \in Sides \cup {"flat"} /\ m.at + 1 \in Nat
  BY DEF Memory, Sides
<1>2. TakenIn(m, v) = [m EXCEPT !.at = m.at + 1, !.verdict = v, !.pending = p]
  BY DEF TakenIn, Memory
<1> HIDE DEF p
<1>3. /\ TakenIn(m, v) \in Memory /\ TakenIn(m, v).at = m.at + 1 /\ TakenIn(m, v).verdict = v
      /\ TakenIn(m, v).hold = m.hold /\ TakenIn(m, v).pending = p
      /\ TakenIn(m, v).reset = m.reset /\ TakenIn(m, v).restart = m.restart
      /\ TakenIn(m, v).startup = m.startup
      /\ TakenIn(m, v).win = m.win /\ TakenIn(m, v).loss = m.loss
  BY <1>1, <1>2 DEF Memory
<1> QED
  BY <1>3 DEF p

\* A bar that is replayed: only the cooldowns go down, by a slot each.
LEMMA ReplayedPlace ==
  ASSUME NEW m \in Memory, NEW side, NEW v \in Verdicts, NEW c \in BOOLEAN, c <=> v # m.verdict
  PROVE  LET n == Replayed(TakenIn(m, v), side, c).mem
         IN  /\ n \in Memory /\ n.at = m.at + 1 /\ n.verdict = v /\ n.hold = m.hold
             /\ n.pending = (IF v = m.verdict THEN m.pending ELSE "none")
             /\ n.reset = m.reset /\ n.restart = m.restart /\ n.startup = m.startup
             /\ ~Cooling(m) => n.win = m.win /\ n.loss = m.loss
             /\ Cooling(m) /\ Mode # "order_opportunity" =>
                  /\ n.win = IF c /\ Counts(v) THEN LessOne(m.win) ELSE m.win
                  /\ n.loss = IF c /\ Counts(v) THEN LessOne(m.loss) ELSE m.loss
<1> DEFINE t == TakenIn(m, v)
           n == Replayed(t, side, c).mem
<1>1. /\ t \in Memory /\ t.at = m.at + 1 /\ t.verdict = v /\ t.hold = m.hold
      /\ t.pending = (IF v = m.verdict THEN m.pending ELSE "none")
      /\ t.reset = m.reset /\ t.restart = m.restart /\ t.startup = m.startup
      /\ t.win = m.win /\ t.loss = m.loss /\ (Cooling(t) <=> Cooling(m))
  BY TakenInPlace DEF Cooling
<1> HIDE DEF t
<1>2. n = IF Spends(t, side, c) THEN Spent(t) ELSE t
  BY DEF Replayed, Outcome
<1>3. Mode # "order_opportunity" => (Spends(t, side, c) <=> c /\ Cooling(m) /\ Counts(v))
  BY <1>1, SpendsCounts
<1>4. Spends(t, side, c) => Cooling(m)
  BY <1>1 DEF Spends
<1>5. Spent(t).restart = t.restart /\ Spent(t).startup = t.startup
      /\ Spent(t).reset = t.reset
  BY <1>1 DEF Spent, Memory
<1>6. CASE Spends(t, side, c)
  BY <1>1, <1>2, <1>3, <1>4, <1>5, <1>6, SpentShape DEF t
<1>7. CASE ~Spends(t, side, c)
  BY <1>1, <1>2, <1>3, <1>7 DEF t
<1> QED
  BY <1>6, <1>7

-----------------------------------------------------------------------------
(* The steps that change the memory.                                       *)

LEMMA HeldSame ==
  ASSUME NEW m \in Memory, NEW n, Same(n, m), n.pending = "none" \/ n.pending = m.pending, Held(m)
  PROVE  Held(n)
BY DEF Held, Same, Cooling

LEMMA ReadSame ==
  ASSUME NEW m, NEW n, NEW f, n.at = m.at, n.verdict = m.verdict, Read(m, f)
  PROVE  Read(n, f)
BY DEF Read

LEMMA CrashStands ==
  ASSUME IInv, Standing, Crash
  PROVE  Standing'
<1>1. /\ UNCHANGED <<saved, slot, begun, gone, enteredAt, winFrom, lossFrom, told, feed>>
      /\ mem' = saved.mem /\ mirror' = "none" /\ pc' = "down" /\ intents' = <<>>
      /\ ~owed'
  BY DEF Crash, histVars
<1>2. PlaceInv'
  BY <1>1, PlaceFacts DEF Standing, PlaceInv
<1> QED
  BY <1>1, <1>2 DEF Standing, LevelInv, SlotInv, IntentInv, HoldInv

LEMMA ClassifyStands ==
  ASSUME IInv, Standing, NEW cause \in {"manual", "liquidated"}, Classify(cause)
  PROVE  Standing'
<1> DEFINE m == IF cause = "manual" THEN ExternallyClosed(saved.mem, cause) ELSE saved.mem
<1>0. saved.mem \in Memory /\ PlaceInv /\ Held(saved.mem)
  BY PlaceFacts DEF Standing, HoldInv
<1>1. /\ m \in Memory /\ m.at = saved.mem.at /\ m.verdict = saved.mem.verdict
      /\ (m.hold = saved.mem.hold \/ m.hold = "none") /\ Held(m)
  BY <1>0, ExternallyClosedPlace DEF Held
<1>2. mem' = Durable(m) /\ saved'.mem = Durable(m)
  BY DEF Classify, Snapshot
<1> HIDE DEF m
<1>3. /\ Same(mem', m) /\ mem'.pending = m.pending /\ saved'.mem = mem' /\ Held(mem')
  <2>1. Same(mem', m) /\ mem'.pending = m.pending
    BY <1>1, <1>2, DurableSame
  <2> QED
    BY <1>1, <1>2, <2>1, HeldSame
<1>4. /\ UNCHANGED <<feed, slot, begun, gone, told, owed, pc, intents, mirror, fresh>>
      /\ slot = "none" /\ pc = "down" /\ mirror = "none" /\ intents = <<>> /\ told = "none"
      /\ enteredAt' \in {0, enteredAt}
      /\ winFrom' \in {0, winFrom} /\ lossFrom' \in {0, lossFrom}
  BY DEF Classify, Heard, flowVars, histVars, IInv, ToldInv, OrderInv
<1>5. PlaceInv'
  <2>1. Read(mem', feed)
    BY <1>0, <1>1, <1>3, ReadSame DEF PlaceInv, Same
  <2>2. mem'.at \in Nat
    BY <1>3 DEF Same, Memory
  <2> QED
    BY <1>3, <1>4, <2>1, <2>2 DEF PlaceInv
<1>6. SlotInv'
  <2>1. saved'.mem.at = saved.mem.at /\ saved.mem.at \in Nat /\ enteredAt \in Nat
    BY <1>1, <1>3, PlaceFacts DEF Standing, Same
  <2> QED
    BY <1>4, <2>1 DEF Standing, SlotInv
<1>7. HoldInv'
  BY <1>1, <1>3, <1>4 DEF Standing, HoldInv, Same
<1> QED
  BY <1>4, <1>5, <1>6, <1>7 DEF Standing, LevelInv, IntentInv

LEMMA RestartStands ==
  ASSUME IInv, Standing, Restart
  PROVE  Standing'
<1> DEFINE settled == Reconciled(saved.mem, slot)
           heard == IF told = "none" THEN settled ELSE ExternallyClosed(settled, told)
<1>0. saved.mem \in Memory /\ PlaceInv /\ Held(saved.mem)
  BY PlaceFacts DEF Standing, HoldInv
<1>1. settled \in Memory /\ settled.at = saved.mem.at /\ settled.verdict = saved.mem.verdict
      /\ settled.hold = saved.mem.hold /\ Held(settled)
  <2>1. Same(settled, saved.mem) /\ settled.pending \in {"none", saved.mem.pending}
    BY <1>0, ReconciledSame
  <2> HIDE DEF settled
  <2> QED
    BY <1>0, <2>1, HeldSame DEF Same
<1>2. /\ heard \in Memory /\ heard.at = saved.mem.at /\ heard.verdict = saved.mem.verdict
      /\ heard.hold = (IF told = "none" THEN saved.mem.hold ELSE "none") /\ Held(heard)
  BY <1>1, ExternallyClosedPlace DEF Held
<1>3. mem' = Started(heard, slot) /\ saved' = IF told = "none" THEN saved ELSE Snapshot(heard, gap)
  BY DEF Restart
<1> HIDE DEF settled, heard
<1>4. /\ Same(mem', heard) /\ mem'.pending = heard.pending /\ Held(mem')
      /\ (slot # "none" => mem'.restart /\ mem'.startup)
  <2>1. Same(mem', heard) /\ mem'.pending = heard.pending
        /\ (slot # "none" => mem'.restart /\ mem'.startup)
    BY <1>2, <1>3, StartedSame
  <2> QED
    BY <1>2, <2>1, HeldSame
<1>5. /\ saved'.mem \in Memory /\ saved'.mem.at = saved.mem.at
      /\ saved'.mem.verdict = saved.mem.verdict /\ saved'.mem.hold = heard.hold
      /\ Held(saved'.mem)
  <2>1. CASE told = "none"
    BY <1>0, <1>2, <1>3, <2>1
  <2>2. CASE told # "none"
    <3>1. saved'.mem = Durable(heard)
      BY <1>3, <2>2 DEF Snapshot
    <3>2. Same(saved'.mem, heard) /\ saved'.mem.pending = heard.pending
      BY <1>2, <3>1, DurableSame
    <3> QED
      BY <1>2, <3>2, HeldSame DEF Same
  <2> QED
    BY <2>1, <2>2
<1>6. /\ UNCHANGED <<feed, slot, begun, gone, intents, fresh>> /\ mirror' = slot
      /\ pc' = "replay" /\ told' = "none" /\ intents = <<>> /\ owed' = (begun /\ gone = "no")
      /\ (told # "none" => slot = "none")
      /\ (told = "none" => UNCHANGED <<enteredAt, winFrom, lossFrom>>)
      /\ enteredAt' \in {0, enteredAt}
  BY DEF Restart, Heard, histVars, IInv, ToldInv, OrderInv
<1>7. saved.mem.at \in Nat /\ enteredAt \in Nat
  BY PlaceFacts DEF Standing
<1>8. PlaceInv'
  <2>1. Read(mem', feed) /\ Read(saved'.mem, feed)
    BY <1>0, <1>2, <1>4, <1>5, ReadSame DEF PlaceInv, Same
  <2> QED
    BY <1>2, <1>4, <1>5, <1>6, <1>7, <2>1 DEF PlaceInv, Same
<1>9. SlotInv'
  <2>1. CASE slot = "none"
    <3>1. ~begun /\ gone = "no" /\ enteredAt <= saved.mem.at
      BY <2>1 DEF Standing, SlotInv
    <3>2. ~begun' /\ gone' = "no" /\ ~owed' /\ slot' = "none" /\ mirror' = "none"
      BY <1>6, <2>1, <3>1
    <3>3. enteredAt' <= saved'.mem.at
      BY <1>5, <1>6, <1>7, <3>1
    <3> QED
      BY <3>2, <3>3 DEF SlotInv
  <2>2. CASE slot # "none"
    <3>1. told = "none" /\ enteredAt' = enteredAt
      BY <1>6, <2>2
    <3>2. Named(slot, enteredAt, saved.mem.at, feed)
      BY <2>2 DEF Standing, SlotInv
    <3>3. slot' = slot /\ mirror' = slot /\ saved'.mem.at = saved.mem.at /\ feed' = feed
          /\ mem'.restart /\ mem'.startup
      BY <1>4, <1>5, <1>6, <2>2
    <3> QED
      BY <1>6, <3>1, <3>2, <3>3 DEF Standing, SlotInv
  <2> QED
    BY <2>1, <2>2
<1>10. HoldInv'
  BY <1>2, <1>4, <1>5, <1>6 DEF Standing, HoldInv, Same
<1> QED
  BY <1>6, <1>8, <1>9, <1>10 DEF Standing, LevelInv, IntentInv

LEMMA ReplayBarStands ==
  ASSUME IInv, Standing, ReplayBar
  PROVE  Standing'
<1> DEFINE v == feed[mem.at + 1]
           c == v # mem.verdict
           r == Replayed(TakenIn(mem, v), mirror, c).mem
<1>0. /\ feed \in Seq(Verdicts) /\ Len(feed) \in Nat /\ mem.at \in 1 .. Len(feed)
      /\ saved.mem.at \in Nat /\ mem.at \in Nat /\ saved.mem.at <= mem.at /\ mem \in Memory
      /\ mem.at < Len(feed)
  BY PlaceFacts DEF Standing, ReplayBar, Behind
<1>1. v \in Verdicts /\ c \in BOOLEAN /\ (c <=> v # mem.verdict)
  BY <1>0
<1>2. mem' = Reconciled(r, slot)
  <2>1. TakenIn(mem, v).verdict = v
    BY <1>0, <1>1, TakenInPlace
  <2> QED
    BY <2>1 DEF ReplayBar
<1> HIDE DEF v, c
<1>3. /\ r \in Memory /\ r.at = mem.at + 1 /\ r.verdict = v /\ r.hold = mem.hold
      /\ r.pending \in {mem.pending, "none"}
      /\ r.reset = mem.reset /\ r.restart = mem.restart /\ r.startup = mem.startup
      /\ (~Cooling(mem) => r.win = mem.win /\ r.loss = mem.loss)
  <2>1. /\ r \in Memory /\ r.at = mem.at + 1 /\ r.verdict = v /\ r.hold = mem.hold
        /\ r.pending = (IF v = mem.verdict THEN mem.pending ELSE "none")
        /\ r.reset = mem.reset /\ r.restart = mem.restart /\ r.startup = mem.startup
        /\ (~Cooling(mem) => r.win = mem.win /\ r.loss = mem.loss)
    BY <1>0, <1>1, ReplayedPlace
  <2> HIDE DEF r
  <2> QED
    BY <2>1
<1>4. Held(mem)
  BY DEF Standing, HoldInv
<1> HIDE DEF r
<1>5. Held(r)
  BY <1>3, <1>4 DEF Held, Cooling
<1>6. /\ Same(mem', r) /\ mem'.restart = r.restart /\ mem'.startup = r.startup
      /\ mem'.pending \in {r.pending, "none"}
  BY <1>2, <1>3, ReconciledSame
<1>7. Held(mem')
  BY <1>3, <1>5, <1>6, HeldSame
<1>8. /\ UNCHANGED <<mirror, saved, slot, begun, gone, told, owed, pc, intents, fresh, feed>>
      /\ UNCHANGED <<winFrom, lossFrom, enteredAt>> /\ pc = "replay"
  BY DEF ReplayBar, execVars, flowVars, histVars
<1>9. PlaceInv'
  <2>1. Read(mem', feed)
    BY <1>0, <1>3, <1>6 DEF Read, Same, v
  <2> QED
    BY <1>0, <1>3, <1>6, <1>8, <2>1 DEF Standing, PlaceInv, Same
<1>10. SlotInv'
  BY <1>3, <1>6, <1>8 DEF Standing, SlotInv
<1>11. HoldInv'
  BY <1>3, <1>6, <1>7, <1>8 DEF Standing, HoldInv, Same
<1>12. intents = <<>>
  BY <1>8 DEF IInv, OrderInv
<1> QED
  BY <1>8, <1>9, <1>10, <1>11, <1>12 DEF Standing, LevelInv, IntentInv

LEMMA DeliverStands ==
  ASSUME IInv, Standing, Deliver
  PROVE  Standing'
<1> DEFINE m == ExternallyClosed(mem, told)
<1>0. /\ mem \in Memory /\ PlaceInv /\ mem.at \in Nat /\ mem.at \in 1 .. Len(feed)
      /\ enteredAt \in Nat /\ saved.mem.at \in Nat /\ saved.mem.at <= mem.at
  BY PlaceFacts DEF Standing
<1>1. m \in Memory /\ m.at = mem.at /\ m.verdict = mem.verdict /\ m.hold = "none"
  BY <1>0, ExternallyClosedPlace
<1>2. mem' = m /\ saved'.mem = Durable(m)
  BY DEF Deliver, Snapshot
<1> HIDE DEF m
<1>3. Same(saved'.mem, m)
  BY <1>1, <1>2, DurableSame
<1>4. /\ UNCHANGED <<feed, slot, begun, gone, owed, intents, fresh, kind, gap>>
      /\ slot = "none" /\ mirror' = "none" /\ intents = <<>>
      /\ told' = "none" /\ pc = "deliver" /\ pc' = "retry" /\ enteredAt' \in {0, enteredAt}
  BY DEF Deliver, Goto, Heard, IInv, ToldInv, OrderInv
<1>5. PlaceInv'
  <2>1. Read(mem', feed) /\ Read(saved'.mem, feed)
    BY <1>0, <1>1, <1>2, <1>3, ReadSame DEF PlaceInv, Same
  <2> QED
    BY <1>0, <1>1, <1>2, <1>3, <1>4, <2>1 DEF PlaceInv, Same
<1>6. LevelInv'
  BY <1>1, <1>2, <1>4 DEF Standing, LevelInv, Awaits
<1>7. SlotInv'
  BY <1>0, <1>1, <1>3, <1>4 DEF Standing, SlotInv, Same
<1>8. HoldInv'
  BY <1>1, <1>2, <1>3 DEF HoldInv, Held, Same
<1> QED
  BY <1>4, <1>5, <1>6, <1>7, <1>8 DEF Standing, IntentInv

LEMMA BarEndsStand ==
  ASSUME IInv, Standing, BarEnds
  PROVE  Standing'
<1> DEFINE m == Reconciled(mem, slot)
<1>0. /\ mem \in Memory /\ PlaceInv /\ mem.at \in Nat /\ mem.at \in 1 .. Len(feed)
      /\ enteredAt \in Nat /\ saved.mem.at \in Nat /\ saved.mem.at <= mem.at
      /\ Held(mem) /\ Held(saved.mem)
  BY PlaceFacts DEF Standing, HoldInv
<1>1. /\ Same(m, mem) /\ m.pending \in {"none", mem.pending} /\ m \in Memory
  BY <1>0, ReconciledSame DEF Same
<1>2. mem' = m /\ saved' = IF due THEN Snapshot(m, gap) ELSE saved
  BY DEF BarEnds
<1> HIDE DEF m
<1>3. Held(m)
  BY <1>0, <1>1, HeldSame
<1>4. /\ saved'.mem.at \in {saved.mem.at, mem.at} /\ Read(saved'.mem, feed)
      /\ saved'.mem.hold = saved.mem.hold /\ Held(saved'.mem)
  <2>1. CASE due
    <3>1. saved'.mem = Durable(m)
      BY <1>2, <2>1 DEF Snapshot
    <3>2. Same(saved'.mem, m) /\ saved'.mem.pending = m.pending
      BY <1>1, <3>1, DurableSame
    <3>3. Held(saved'.mem)
      BY <1>1, <1>3, <3>2, HeldSame
    <3> QED
      BY <1>0, <1>1, <3>2, <3>3, ReadSame DEF PlaceInv, Same, Standing, HoldInv
  <2>2. CASE ~due
    BY <1>0, <1>2, <2>2 DEF PlaceInv
  <2> QED
    BY <2>1, <2>2
<1>5. /\ UNCHANGED <<feed, slot, begun, gone, owed, told, kind, gap, enteredAt, winFrom, lossFrom>>
      /\ mirror' = slot /\ pc = "submit" /\ pc' = "idle" /\ intents' = <<>>
  BY DEF BarEnds, execVars, histVars
<1>6. PlaceInv'
  <2>1. Read(mem', feed)
    BY <1>0, <1>1, <1>2, ReadSame DEF PlaceInv, Same
  <2> QED
    BY <1>0, <1>1, <1>2, <1>4, <1>5, <2>1 DEF PlaceInv, Same
<1>7. LevelInv'
  BY <1>1, <1>2, <1>5 DEF Standing, LevelInv, Awaits, Same
<1>8. SlotInv'
  <2>1. ASSUME slot # "none" PROVE Named(slot, enteredAt, saved'.mem.at, feed)
    BY <1>0, <1>4, <2>1 DEF Standing, SlotInv, Named
  <2> QED
    BY <1>0, <1>4, <1>5, <2>1 DEF Standing, SlotInv
<1>9. HoldInv'
  BY <1>1, <1>2, <1>3, <1>4, <1>5 DEF Standing, HoldInv, Same
<1> QED
  BY <1>5, <1>6, <1>7, <1>8, <1>9 DEF Standing, IntentInv

-----------------------------------------------------------------------------
(* Changes of verdict between two bars.                                    *)

LEMMA LeastNat ==
  ASSUME NEW T, T \subseteq Nat, T # {}
  PROVE  \E x \in T : \A y \in T : x <= y
<1> DEFINE R == OpToRel(<, Nat)
<1>1. \E x \in T : \A y \in T : ~ (<<y, x>> \in R)
  BY NatLessThanWellFounded, WFMin
<1>2. ASSUME NEW x \in Nat, NEW y \in Nat, ~(<<y, x>> \in R)
      PROVE  x <= y
  <2>1. y < x <=> <<y, x>> \in R
    <3>1. R = {ss \in Nat \X Nat : ss[1] < ss[2]}
      BY DEF OpToRel
    <3>2. <<y, x>> \in Nat \X Nat /\ <<y, x>>[1] = y /\ <<y, x>>[2] = x
      OBVIOUS
    <3> QED
      BY <3>1, <3>2
  <2> HIDE DEF R
  <2> QED
    BY <1>2, <2>1
<1> QED
  BY <1>1, <1>2

\* The verdict has changed after the last entry, or there is none to count from.
FreshAt(e, b, f) == e = 0 \/ \E i \in e + 1 .. b : f[i] # f[i - 1]

LEMMA FreshLater ==
  ASSUME NEW e \in Nat, NEW b \in Nat, NEW c \in Nat, b <= c, NEW f, FreshAt(e, b, f)
  PROVE  FreshAt(e, c, f)
<1>1. CASE e = 0
  BY <1>1 DEF FreshAt
<1>2. CASE e # 0
  <2>1. PICK i \in e + 1 .. b : f[i] # f[i - 1]
    BY <1>2 DEF FreshAt
  <2>2. i \in e + 1 .. c
    BY <2>1
  <2> QED
    BY <2>1, <2>2 DEF FreshAt
<1> QED
  BY <1>1, <1>2

LEMMA FreshGrows ==
  ASSUME NEW f \in Seq(Verdicts), NEW g, Grows(f, g), NEW e \in Nat, NEW b \in 1 .. Len(f),
         FreshAt(e, b, f)
  PROVE  FreshAt(e, b, g)
<1>1. CASE e = 0
  BY <1>1 DEF FreshAt
<1>2. CASE e # 0
  <2>1. PICK i \in e + 1 .. b : f[i] # f[i - 1]
    BY <1>2 DEF FreshAt
  <2>2. i \in 1 .. Len(f) /\ i - 1 \in 1 .. Len(f)
    BY <1>2, <2>1
  <2>3. g[i] = f[i] /\ g[i - 1] = f[i - 1]
    BY <2>2 DEF Grows
  <2> QED
    BY <2>1, <2>3 DEF FreshAt
<1> QED
  BY <1>1, <1>2

\* A bar of another verdict than an earlier one has a change of verdict between them.
LEMMA ChangeBetween ==
  ASSUME NEW f, NEW e \in Nat, NEW c \in Nat, e <= c, f[e] # f[c]
  PROVE  \E i \in e + 1 .. c : f[i] # f[i - 1]
<1> DEFINE T == {i \in e + 1 .. c : f[i] # f[e]}
<1>0. e # c
  OBVIOUS
<1>1. c \in T
  BY <1>0
<1>2. T \subseteq Nat /\ T # {}
  BY <1>1
<1>3. PICK x \in T : \A y \in T : x <= y
  BY <1>2, LeastNat
<1>4. x \in e + 1 .. c /\ f[x] # f[e]
  BY <1>3
<1>5. f[x - 1] = f[e]
  <2> SUFFICES ASSUME f[x - 1] # f[e] PROVE FALSE
    OBVIOUS
  <2>1. x - 1 # e
    OBVIOUS
  <2>2. x - 1 \in T
    BY <1>4, <2>1
  <2>3. x <= x - 1
    BY <1>3, <2>2
  <2> QED
    BY <1>4, <2>3
<1> QED
  BY <1>4, <1>5

LEMMA OpposedFresh ==
  ASSUME NEW f, NEW side, NEW e \in Nat, NEW b \in Nat, NEW c \in Nat, b <= c,
         Named(side, e, b, f), Opposes(side, f[c])
  PROVE  FreshAt(e, c, f)
<1>1. e <= c /\ f[e] # f[c]
  BY DEF Named, Opposes
<1> QED
  BY <1>1, ChangeBetween DEF FreshAt

-----------------------------------------------------------------------------
(* What is to be entered is not entered yet.                               *)

\* A target, in memory or in the snapshot, is of a verdict not entered, or it is what
\* the executor has just been given, and it is settled before anything else is sent.
FreshInv ==
  /\ intents \notin {<<>>, <<"exit">>} => FreshAt(enteredAt, mem.at, feed)
  /\ pc # "down" /\ mem.pending \in Entries =>
       \/ FreshAt(enteredAt, mem.at, feed)
       \/ pc = "submit" /\ slot = mem.pending /\ intents = <<>>
  /\ saved.mem.pending \in Entries =>
       \/ FreshAt(enteredAt, saved.mem.at, feed)
       \/ told # "none"
       \/ /\ slot = saved.mem.pending /\ ~begun
          /\ fresh \/ (pc = "submit" /\ due /\ intents = <<>>)
  /\ mem.reset \/ saved.mem.reset => enteredAt = 0

LEMMA StepFresh ==
  ASSUME IInv, Standing, FreshInv, Grows(feed, feed'),
         UNCHANGED <<mem, saved, due, fresh, enteredAt>>,
         intents' # intents => intents # <<>> /\ intents' = Tail(intents),
         pc' # "down" => pc # "down",
         pc = "submit" /\ intents = <<>> => UNCHANGED <<pc, slot, begun, intents>>,
         fresh /\ ~begun /\ slot # "none" => (slot' = slot /\ ~begun') \/ told' # "none",
         told # "none" => told' # "none"
  PROVE  FreshInv'
<1>1. /\ feed \in Seq(Verdicts) /\ mem.at \in 1 .. Len(feed) /\ saved.mem.at \in 1 .. Len(feed)
      /\ enteredAt \in Nat
  BY PlaceFacts DEF Standing
<1>2. /\ FreshAt(enteredAt, mem.at, feed) => FreshAt(enteredAt, mem.at, feed')
      /\ FreshAt(enteredAt, saved.mem.at, feed) => FreshAt(enteredAt, saved.mem.at, feed')
  BY <1>1, FreshGrows
<1>3. intents' \notin {<<>>, <<"exit">>} => intents \notin {<<>>, <<"exit">>}
  <2>1. CASE intents' = intents
    BY <2>1
  <2>2. CASE intents' # intents
    <3>1. intents = <<"exit">> => Tail(intents) = <<>>
      OBVIOUS
    <3> QED
      BY <2>2, <3>1
  <2> QED
    BY <2>1, <2>2
<1>4. intents' \notin {<<>>, <<"exit">>} => FreshAt(enteredAt', mem'.at, feed')
  BY <1>2, <1>3 DEF FreshInv
<1>5. pc' # "down" /\ mem'.pending \in Entries =>
        \/ FreshAt(enteredAt', mem'.at, feed')
        \/ pc' = "submit" /\ slot' = mem'.pending /\ intents' = <<>>
  BY <1>2 DEF FreshInv
<1>6. saved'.mem.pending \in Entries =>
        \/ FreshAt(enteredAt', saved'.mem.at, feed')
        \/ told' # "none"
        \/ /\ slot' = saved'.mem.pending /\ ~begun'
           /\ fresh' \/ (pc' = "submit" /\ due' /\ intents' = <<>>)
  <2> SUFFICES ASSUME saved.mem.pending \in Entries, ~FreshAt(enteredAt, saved.mem.at, feed),
                      told = "none", told' = "none"
               PROVE  /\ slot' = saved.mem.pending /\ ~begun'
                      /\ fresh \/ (pc' = "submit" /\ due /\ intents' = <<>>)
    BY <1>2
  <2>1. /\ slot = saved.mem.pending /\ ~begun
        /\ fresh \/ (pc = "submit" /\ due /\ intents = <<>>)
    BY DEF FreshInv
  <2>2. slot # "none"
    BY <2>1 DEF Entries
  <2> QED
    BY <2>1, <2>2
<1>7. mem'.reset \/ saved'.mem.reset => enteredAt' = 0
  BY DEF FreshInv
<1> QED
  BY <1>4, <1>5, <1>6, <1>7 DEF FreshInv

LEMMA WaitingFresh ==
  ASSUME IInv, Standing, FreshInv,
         \/ \E v \in Verdicts : Downtime(v)
         \/ ReplayBroken \/ ReplayDone \/ MinuteArrives
         \/ \E v \in Verdicts : BarCompletes(v)
         \/ VenueUnclear \/ VenueAgrees \/ (\E cause \in Causes : ClosureBooked(cause))
         \/ \E how \in {"manual", "liquidated"} : VenueCloses(how)
         \/ UNCHANGED vars
  PROVE  FreshInv'
<1>0. feed \in Seq(Verdicts)
  BY PlaceFacts DEF Standing
<1>1. feed' = feed \/ \E v \in Verdicts : feed' = Append(feed, v)
  BY DEF Downtime, ReplayBroken, ReplayDone, MinuteArrives, BarCompletes, VenueCloses, vars,
         VenueUnclear, VenueAgrees, ClosureBooked
<1>2. Grows(feed, feed')
  BY <1>0, <1>1, GrowsBy
<1>3. /\ UNCHANGED <<mem, saved, due, fresh, enteredAt, intents>>
      /\ pc' # "down" => pc # "down"
      /\ pc = "submit" => UNCHANGED <<pc, slot, begun>>
      /\ (slot' = slot /\ begun' = begun) \/ told' # "none"
  BY DEF Downtime, ReplayBroken, ReplayDone, MinuteArrives, BarCompletes, VenueCloses, vars,
         VenueUnclear, VenueAgrees, ClosureBooked, Goto, stratVars, execVars, flowVars, histVars,
         Causes
<1>4. told # "none" => told' # "none"
  BY DEF Downtime, ReplayBroken, ReplayDone, MinuteArrives, BarCompletes, VenueCloses, vars,
         VenueUnclear, VenueAgrees, ClosureBooked, Goto, stratVars, execVars, flowVars, histVars,
         Causes
<1> QED
  BY <1>2, <1>3, <1>4, StepFresh

LEMMA ClosesFresh ==
  ASSUME IInv, Standing, FreshInv,
         \/ RetryIdle \/ RetryAccepted \/ (\E x \in BOOLEAN : RetryFails(x)) \/ NothingOwed
         \/ ExitIdle \/ ExitAccepted \/ (\E x \in BOOLEAN : ExitFails(x))
         \/ \E side \in Entries : FlipCloses(side)
  PROVE  FreshInv'
<1>0. \/ NothingOwed
      \/ Retried /\ Closing
      \/ ExitSubmitted /\ Closing
      \/ \E side \in Entries : FlipCloses(side) /\ Closing
  BY DEF RetryIdle, RetryAccepted, RetryFails, ExitIdle, ExitAccepted, ExitFails, Closing, FlipCloses
<1>1. feed' = feed /\ feed \in Seq(Verdicts)
  BY <1>0, PlaceFacts DEF Standing, NothingOwed, Retried, ExitSubmitted, FlipCloses, Loop
<1>2. Grows(feed, feed')
  BY <1>1, GrowsBy
<1>3. /\ UNCHANGED <<mem, saved, due, fresh, enteredAt>>
      /\ \/ pc = "retry" /\ pc' = "decide" /\ intents' = intents
         \/ pc = "submit" /\ pc' = "submit" /\ intents # <<>> /\ intents' = intents
         \/ pc = "submit" /\ pc' = "submit" /\ intents # <<>> /\ intents' = Tail(intents)
  BY <1>0 DEF NothingOwed, Retried, ExitSubmitted, FlipCloses, Loop, Goto, Submits, Done,
              stratVars, histVars
<1>4. told' = told
  <2>1. CASE NothingOwed
    BY <2>1 DEF NothingOwed, execVars
  <2>2. CASE Closing
    BY <2>2, ClosingFacts DEF IInv
  <2> QED
    BY <1>0, <2>1, <2>2
<1>5. fresh /\ ~begun /\ slot # "none" => slot' = slot /\ ~begun'
  <2>1. CASE pc = "submit"
    BY <2>1 DEF Standing, IntentInv
  <2>2. CASE NothingOwed
    BY <2>2 DEF NothingOwed, execVars
  <2>3. CASE Retried /\ Closing
    <3>1. begun
      BY <2>3 DEF Retried, Standing, SlotInv
    <3> QED
      BY <3>1
  <2>4. (ExitSubmitted \/ \E side \in Entries : FlipCloses(side)) => pc = "submit"
    BY DEF ExitSubmitted, FlipCloses, Submits
  <2> QED
    BY <1>0, <2>1, <2>2, <2>3, <2>4
<1> QED
  BY <1>2, <1>3, <1>4, <1>5, StepFresh

LEMMA NotFilledFresh ==
  ASSUME IInv, Standing, FreshInv, NEW side \in Entries, NEW x \in BOOLEAN,
         FlipFails(side, x) \/ EntryNotFilled(side, x)
  PROVE  FreshInv'
<1>1. /\ UNCHANGED <<saved, pc, fresh, feed, enteredAt, told>>
      /\ intents # <<>> /\ intents' = Tail(intents) /\ Head(intents) = side
      /\ mem' = Rejected(mem) /\ pc = "submit"
  BY DEF FlipFails, CloseFails, EntryNotFilled, Submits, Done, Loop, histVars
<1>2. mem \in Memory
  BY PlaceFacts DEF Standing
<1>3. mem'.pending = "none" /\ mem'.reset = mem.reset
  BY <1>1, <1>2, RejectedSame DEF Same
<1>4. intents' = <<>>
  <2>1. side # "exit"
    BY DEF Entries
  <2> QED
    BY <1>1, <2>1, NextOrder
<1>5. ~fresh
  BY <1>1 DEF Standing, IntentInv
<1>6. saved.mem.pending \in Entries => FreshAt(enteredAt, saved.mem.at, feed) \/ told # "none"
  BY <1>1, <1>5 DEF FreshInv
<1>7. mem'.pending \notin Entries
  BY <1>3 DEF Entries
<1> QED
  BY <1>1, <1>3, <1>4, <1>6, <1>7 DEF FreshInv

LEMMA FillsFresh ==
  ASSUME IInv, Standing, FreshInv, NEW side \in Entries, EntryFills(side)
  PROVE  FreshInv' /\ FreshAt(enteredAt, mem.at, feed)
<1>1. /\ UNCHANGED <<mem, saved, pc, due, fresh, feed, begun, told>>
      /\ intents # <<>> /\ Head(intents) = side /\ pc = "submit" /\ slot = "none"
  BY DEF EntryFills, Admitted, Submits, Done, Loop
<1>2. slot' = Target(mem.verdict) /\ intents' = <<>> /\ enteredAt' = mem.at
  BY FillsStand
<1>3. /\ mem.at \in 1 .. Len(feed) /\ mem.verdict = feed[mem.at]
      /\ saved.mem.at \in 1 .. Len(feed) /\ saved.mem.verdict = feed[saved.mem.at]
  BY PlaceFacts DEF Standing, PlaceInv, Read
<1>4. due /\ saved.mem.at = mem.at
  BY <1>1 DEF Standing, IntentInv
<1>5. /\ mem.pending \in Entries => mem.pending = Target(mem.verdict)
      /\ saved.mem.pending \in Entries => saved.mem.pending = Target(mem.verdict)
  BY <1>3, <1>4 DEF IInv, MemoryInv, Trusted, Current
<1>6. ~begun
  BY <1>1 DEF Standing, SlotInv
<1>7. ~mem.reset /\ ~saved.mem.reset
  BY <1>1 DEF IInv, AwaitInv
<1>8. FreshAt(enteredAt, mem.at, feed)
  <2>1. <<"exit">>[1] = "exit" /\ Head(<<"exit">>) = "exit" /\ side # "exit"
    BY DEF Entries
  <2>2. intents \notin {<<>>, <<"exit">>}
    BY <1>1, <2>1
  <2> QED
    BY <2>2 DEF FreshInv
<1> QED
  BY <1>1, <1>2, <1>4, <1>5, <1>6, <1>7, <1>8 DEF FreshInv

LEMMA CrashFresh ==
  ASSUME IInv, Standing, FreshInv, Crash
  PROVE  FreshInv'
<1>1. /\ UNCHANGED <<saved, slot, begun, enteredAt, told, feed>>
      /\ mem' = saved.mem /\ pc' = "down" /\ intents' = <<>> /\ fresh'
  BY DEF Crash, histVars
<1> QED
  BY <1>1 DEF FreshInv

LEMMA ClassifyFresh ==
  ASSUME IInv, Standing, FreshInv, NEW cause \in {"manual", "liquidated"}, Classify(cause)
  PROVE  FreshInv'
<1> DEFINE m == IF cause = "manual" THEN ExternallyClosed(saved.mem, cause) ELSE saved.mem
<1>0. saved.mem \in Memory
  BY PlaceFacts DEF Standing
<1>1. /\ m \in Memory /\ m.at = saved.mem.at
      /\ (cause = "manual" => m.pending = "none")
      /\ (cause # "manual" => m = saved.mem)
  BY <1>0, ExternallyClosedPlace
<1>2. mem' = Durable(m) /\ saved'.mem = Durable(m)
  BY DEF Classify, Snapshot
<1> HIDE DEF m
<1>3. mem'.pending = m.pending /\ mem'.at = m.at /\ mem'.reset = m.reset /\ saved'.mem = mem'
  BY <1>1, <1>2, DurableSame DEF Same
<1>4. /\ UNCHANGED <<feed, told, pc, intents>> /\ intents = <<>>
      /\ slot = "none" /\ pc = "down" /\ told = "none"
      /\ (cause = "manual" => enteredAt' = 0) /\ (cause # "manual" => enteredAt' = enteredAt)
  BY DEF Classify, Heard, flowVars, histVars, IInv, ToldInv, OrderInv
<1>5. CASE cause = "manual"
  BY <1>1, <1>3, <1>4, <1>5 DEF FreshInv, FreshAt, Entries
<1>6. CASE cause # "manual"
  <2>1. saved.mem.pending \in Entries => FreshAt(enteredAt, saved.mem.at, feed)
    BY <1>4 DEF FreshInv, Entries
  <2> QED
    BY <1>1, <1>3, <1>4, <1>6, <2>1 DEF FreshInv
<1> QED
  BY <1>5, <1>6

LEMMA RestartFresh ==
  ASSUME IInv, Standing, FreshInv, Restart
  PROVE  FreshInv'
<1> DEFINE settled == Reconciled(saved.mem, slot)
           heard == IF told = "none" THEN settled ELSE ExternallyClosed(settled, told)
<1>0. saved.mem \in Memory
  BY PlaceFacts DEF Standing
<1>1. /\ settled \in Memory /\ settled.at = saved.mem.at /\ settled.reset = saved.mem.reset
      /\ settled.pending = (IF saved.mem.pending = (IF slot = "none" THEN "flat" ELSE slot)
                            THEN "none" ELSE saved.mem.pending)
  BY <1>0, ReconciledSame DEF Same
<1> HIDE DEF settled
<1>2. /\ heard \in Memory /\ heard.at = saved.mem.at
      /\ (told = "none" => heard = settled)
      /\ (told # "none" => heard.pending = "none" /\ heard.reset = (told = "manual"))
  BY <1>1, ExternallyClosedPlace
<1>3. mem' = Started(heard, slot) /\ saved' = IF told = "none" THEN saved ELSE Snapshot(heard, gap)
  BY DEF Restart, settled
<1> HIDE DEF heard
<1>4. mem'.at = saved.mem.at /\ mem'.pending = heard.pending /\ mem'.reset = heard.reset
  BY <1>2, <1>3, StartedSame DEF Same
<1>5. /\ UNCHANGED <<feed, slot, begun, intents, fresh, due>> /\ intents = <<>>
      /\ pc' = "replay" /\ told' = "none" /\ pc = "down"
      /\ (told = "none" => enteredAt' = enteredAt)
      /\ (told # "none" => enteredAt' = (IF told = "manual" THEN 0 ELSE enteredAt))
  BY DEF Restart, Heard, histVars, IInv, ToldInv, OrderInv
<1>6. CASE told # "none"
  <2>1. saved'.mem = Durable(heard)
    BY <1>3, <1>6 DEF Snapshot
  <2>2. saved'.mem.pending = "none" /\ saved'.mem.reset = (told = "manual")
    BY <1>2, <1>6, <2>1, DurableSame DEF Same
  <2>3. mem'.pending = "none" /\ mem'.reset = (told = "manual")
    BY <1>2, <1>4, <1>6
  <2>4. "none" \notin Entries
    BY DEF Entries
  <2> QED
    BY <1>5, <1>6, <2>2, <2>3, <2>4 DEF FreshInv
<1>7. CASE told = "none"
  <2>1. saved' = saved /\ mem'.pending = settled.pending /\ mem'.reset = saved.mem.reset
    BY <1>1, <1>2, <1>3, <1>4, <1>7
  <2>2. saved.mem.pending \in Entries =>
          \/ FreshAt(enteredAt, saved.mem.at, feed)
          \/ slot = saved.mem.pending /\ ~begun /\ fresh
    BY <1>5, <1>7 DEF FreshInv
  <2>3. mem'.pending \in Entries => saved.mem.pending \in Entries /\ slot # saved.mem.pending
    BY <1>1, <2>1 DEF Entries
  <2> QED
    BY <1>4, <1>5, <1>7, <2>1, <2>2, <2>3 DEF FreshInv
<1> QED
  BY <1>6, <1>7

LEMMA ReplayBarFresh ==
  ASSUME IInv, Standing, FreshInv, ReplayBar
  PROVE  FreshInv'
<1> DEFINE v == feed[mem.at + 1]
           c == v # mem.verdict
           r == Replayed(TakenIn(mem, v), mirror, c).mem
<1>0. /\ feed \in Seq(Verdicts) /\ mem.at \in Nat /\ mem \in Memory /\ enteredAt \in Nat
      /\ mem.at < Len(feed)
  BY PlaceFacts DEF Standing, ReplayBar, Behind
<1>1. v \in Verdicts /\ c \in BOOLEAN /\ (c <=> v # mem.verdict)
  BY <1>0
<1>2. mem' = Reconciled(r, slot)
  <2>1. TakenIn(mem, v).verdict = v
    BY <1>0, <1>1, TakenInPlace
  <2> QED
    BY <2>1 DEF ReplayBar
<1> HIDE DEF v, c
<1>3. /\ r \in Memory /\ r.at = mem.at + 1
      /\ r.pending = (IF v = mem.verdict THEN mem.pending ELSE "none") /\ r.reset = mem.reset
  BY <1>0, <1>1, ReplayedPlace
<1> HIDE DEF r
<1>4. mem'.at = mem.at + 1 /\ mem'.reset = mem.reset /\ mem'.pending \in {"none", mem.pending}
  BY <1>2, <1>3, ReconciledSame DEF Same
<1>5. /\ UNCHANGED <<saved, slot, begun, told, pc, intents, fresh, due, feed, enteredAt>>
      /\ pc = "replay" /\ intents = <<>>
  BY DEF ReplayBar, execVars, flowVars, histVars, IInv, OrderInv
<1>6. mem'.pending \in Entries => FreshAt(enteredAt, mem.at, feed)
  BY <1>4, <1>5 DEF FreshInv, Entries
<1>7. mem'.pending \in Entries => FreshAt(enteredAt, mem'.at, feed)
  BY <1>0, <1>4, <1>6, FreshLater
<1> QED
  BY <1>4, <1>5, <1>7 DEF FreshInv

LEMMA DeliverFresh ==
  ASSUME IInv, Standing, FreshInv, Deliver
  PROVE  FreshInv'
<1> DEFINE m == ExternallyClosed(mem, told)
<1>0. mem \in Memory
  BY PlaceFacts DEF Standing
<1>1. m \in Memory /\ m.pending = "none" /\ m.reset = (told = "manual")
  BY <1>0, ExternallyClosedPlace
<1>2. mem' = m /\ saved'.mem = Durable(m)
  BY DEF Deliver, Snapshot
<1> HIDE DEF m
<1>3. saved'.mem.pending = "none" /\ saved'.mem.reset = (told = "manual")
  BY <1>1, <1>2, DurableSame DEF Same
<1>4. /\ intents' = <<>> /\ enteredAt' = (IF told = "manual" THEN 0 ELSE enteredAt)
  BY DEF Deliver, Goto, Heard, IInv, OrderInv
<1>5. "none" \notin Entries
  BY DEF Entries
<1> QED
  BY <1>1, <1>2, <1>3, <1>4, <1>5 DEF FreshInv

LEMMA BarEndsFresh ==
  ASSUME IInv, Standing, FreshInv, BarEnds
  PROVE  FreshInv'
<1> DEFINE m == Reconciled(mem, slot)
<1>0. mem \in Memory /\ pc = "submit" /\ intents = <<>>
  BY PlaceFacts DEF Standing, BarEnds
<1>1. /\ m \in Memory /\ m.at = mem.at /\ m.reset = mem.reset
      /\ m.pending = IF mem.pending = (IF slot = "none" THEN "flat" ELSE slot) THEN "none"
                     ELSE mem.pending
  BY <1>0, ReconciledSame DEF Same
<1>2. mem' = m /\ saved' = IF due THEN Snapshot(m, gap) ELSE saved
  BY DEF BarEnds
<1> HIDE DEF m
<1>3. m.pending \in Entries => FreshAt(enteredAt, mem.at, feed)
  <2> SUFFICES ASSUME m.pending \in Entries PROVE FreshAt(enteredAt, mem.at, feed)
    OBVIOUS
  <2>1. mem.pending \in Entries /\ slot # mem.pending
    BY <1>1 DEF Entries
  <2> QED
    BY <1>0, <2>1 DEF FreshInv
<1>4. /\ UNCHANGED <<feed, slot, begun, told, enteredAt, intents, fresh>> /\ pc' = "idle"
  BY DEF BarEnds, execVars, histVars
<1>5. CASE due
  <2>1. saved'.mem = Durable(m)
    BY <1>2, <1>5 DEF Snapshot
  <2>2. saved'.mem.pending = m.pending /\ saved'.mem.at = m.at /\ saved'.mem.reset = m.reset
    BY <1>1, <2>1, DurableSame DEF Same
  <2> QED
    BY <1>0, <1>1, <1>2, <1>3, <1>4, <2>2 DEF FreshInv
<1>6. CASE ~due
  <2>1. saved' = saved
    BY <1>2, <1>6
  <2>2. ~fresh
    BY <1>0 DEF Standing, IntentInv
  <2>3. saved.mem.pending \in Entries => FreshAt(enteredAt, saved.mem.at, feed) \/ told # "none"
    BY <1>6, <2>2 DEF FreshInv
  <2> QED
    BY <1>0, <1>1, <1>2, <1>3, <1>4, <2>1, <2>3 DEF FreshInv
<1> QED
  BY <1>5, <1>6

-----------------------------------------------------------------------------
(* Exposure against the verdict is in somebody's charge.                   *)

ChargeInv ==
  /\ pc # "down" /\ Opposes(slot, mem.verdict) =>
       begun \/ gone # "no" \/ mem.pending # "none" \/ (mem.restart /\ mem.startup)
  /\ Target(mem.verdict) # "none" /\ intents = <<Target(mem.verdict)>> => slot = "none" \/ begun

LEMMA NoSideOpposes ==
  ASSUME NEW v
  PROVE  ~Opposes("none", v)
BY DEF Opposes

LEMMA StepCharged ==
  ASSUME IInv, Standing, ChargeInv, UNCHANGED mem, slot' \in {slot, "none"},
         begun => begun' \/ slot' = "none", gone # "no" => gone' # "no" \/ slot' = "none",
         pc' # "down" => pc # "down",
         intents' # intents => slot' = "none" \/ begun'
  PROVE  ChargeInv'
<1>1. pc' # "down" /\ Opposes(slot', mem.verdict) =>
        begun' \/ gone' # "no" \/ mem.pending # "none" \/ (mem.restart /\ mem.startup)
  <2>1. CASE slot' = "none"
    BY <2>1, NoSideOpposes
  <2>2. CASE slot' = slot /\ slot' # "none"
    BY <2>2 DEF ChargeInv
  <2> QED
    BY <2>1, <2>2
<1> QED
  BY <1>1 DEF ChargeInv

LEMMA WaitingCharged ==
  ASSUME IInv, Standing, ChargeInv,
         \/ \E v \in Verdicts : Downtime(v)
         \/ ReplayBroken \/ ReplayDone \/ MinuteArrives
         \/ \E v \in Verdicts : BarCompletes(v)
         \/ VenueUnclear \/ VenueAgrees \/ (\E cause \in Causes : ClosureBooked(cause))
         \/ \E how \in {"manual", "liquidated"} : VenueCloses(how)
         \/ UNCHANGED vars
  PROVE  ChargeInv'
<1>1. /\ UNCHANGED mem /\ slot' \in {slot, "none"} /\ (pc' # "down" => pc # "down")
      /\ UNCHANGED intents
  BY DEF Downtime, ReplayBroken, ReplayDone, MinuteArrives, BarCompletes, VenueCloses, vars,
         VenueUnclear, VenueAgrees, ClosureBooked, Goto, stratVars, execVars, flowVars
<1>2. (begun => begun' \/ slot' = "none") /\ (gone # "no" => gone' # "no" \/ slot' = "none")
  BY DEF Downtime, ReplayBroken, ReplayDone, MinuteArrives, BarCompletes, VenueCloses, vars,
         VenueUnclear, VenueAgrees, ClosureBooked, Goto, stratVars, execVars, flowVars
<1> QED
  BY <1>1, <1>2, StepCharged

LEMMA ClosesCharged ==
  ASSUME IInv, Standing, ChargeInv,
         \/ RetryIdle \/ RetryAccepted \/ (\E x \in BOOLEAN : RetryFails(x)) \/ NothingOwed
         \/ ExitIdle \/ ExitAccepted \/ (\E x \in BOOLEAN : ExitFails(x))
         \/ \E side \in Entries : FlipCloses(side)
  PROVE  ChargeInv'
<1>0. \/ NothingOwed
      \/ Retried /\ Closing
      \/ ExitSubmitted /\ Closing
      \/ \E side \in Entries : FlipCloses(side) /\ Closing
  BY DEF RetryIdle, RetryAccepted, RetryFails, ExitIdle, ExitAccepted, ExitFails, Closing, FlipCloses
<1>1. /\ UNCHANGED mem /\ (pc' # "down" => pc # "down")
      /\ intents' # intents => Closing
  BY <1>0 DEF NothingOwed, Retried, ExitSubmitted, FlipCloses, Loop, Goto, Submits, stratVars
<1>2. ASSUME Closing
      PROVE  /\ slot' \in {slot, "none"}
             /\ begun => begun' \/ slot' = "none"
             /\ gone # "no" => gone' # "no" \/ slot' = "none"
             /\ slot' = "none" \/ begun'
  BY <1>2 DEF Closing, NoClose, Unanswerable, CloseAccepted, CloseFails, execVars
<1>3. NothingOwed => UNCHANGED <<slot, begun, gone>>
  BY DEF NothingOwed, execVars
<1> QED
  BY <1>0, <1>1, <1>2, <1>3, StepCharged

LEMMA NotFilledCharged ==
  ASSUME IInv, Standing, ChargeInv, NEW side \in Entries, NEW x \in BOOLEAN,
         FlipFails(side, x) \/ EntryNotFilled(side, x)
  PROVE  ChargeInv'
<1>1. /\ intents # <<>> /\ intents' = Tail(intents) /\ Head(intents) = side
      /\ slot' = slot /\ (begun => begun')
  BY DEF FlipFails, CloseFails, EntryNotFilled, Submits, Done
<1>2. /\ side # "exit" /\ side # "none"
  BY DEF Entries
<1>3. /\ Target(mem.verdict) \in Entries /\ intents = <<Target(mem.verdict)>> /\ intents' = <<>>
  BY <1>1, <1>2, NextOrder
<1>4. slot = "none" \/ begun
  BY <1>3 DEF ChargeInv, Entries
<1>5. intents' = <<>> => ~(\E t \in Sides : intents' = <<t>>)
  OBVIOUS
<1>6. slot' = "none" \/ begun'
  BY <1>1, <1>4
<1> QED
  BY <1>6, NoSideOpposes DEF ChargeInv

LEMMA FillsCharged ==
  ASSUME IInv, Standing, ChargeInv, NEW side \in Entries, EntryFills(side)
  PROVE  ChargeInv'
<1>1. slot' = Target(mem.verdict) /\ intents' = <<>> /\ mem' = mem
  BY FillsStand DEF EntryFills
<1>2. ~Opposes(slot', mem'.verdict)
  BY <1>1 DEF Opposes
<1>3. intents' # <<Target(mem.verdict)>>
  BY <1>1
<1> QED
  BY <1>1, <1>2, <1>3 DEF ChargeInv

LEMMA StopsCharged ==
  ASSUME IInv, Standing, ChargeInv, Crash \/ \E c \in {"manual", "liquidated"} : Classify(c)
  PROVE  ChargeInv'
<1>1. pc' = "down" /\ intents' = <<>>
  BY DEF Crash, Classify, flowVars, IInv, OrderInv
<1>2. intents' # <<Target(mem'.verdict)>>
  BY <1>1
<1> QED
  BY <1>1, <1>2 DEF ChargeInv

LEMMA StartsCharged ==
  ASSUME IInv, Standing, Standing', Restart \/ ReplayBar
  PROVE  ChargeInv'
<1>1. pc' = "replay" /\ intents' = <<>>
  BY DEF Restart, ReplayBar, flowVars, IInv, OrderInv
<1>2. slot' # "none" => mem'.restart /\ mem'.startup
  BY <1>1 DEF Standing, SlotInv
<1>3. intents' # <<Target(mem'.verdict)>>
  BY <1>1
<1> QED
  BY <1>2, <1>3, NoSideOpposes DEF ChargeInv

LEMMA DeliverCharged ==
  ASSUME IInv, Standing, Deliver
  PROVE  ChargeInv'
<1>1. slot' = "none"
  BY DEF Deliver, IInv, ToldInv
<1> QED
  BY <1>1, NoSideOpposes DEF ChargeInv

LEMMA BarEndsCharged ==
  ASSUME IInv, Standing, ChargeInv, BarEnds
  PROVE  ChargeInv'
<1>0. mem \in Memory /\ mem' = Reconciled(mem, slot) /\ UNCHANGED <<slot, begun, gone, intents>>
      /\ intents = <<>> /\ pc = "submit" /\ Current(mem)
  BY PlaceFacts DEF Standing, BarEnds, execVars, IInv, MemoryInv, Trusted
<1>1. /\ mem'.verdict = mem.verdict
      /\ mem'.restart = mem.restart /\ mem'.startup = mem.startup
      /\ mem'.pending = IF mem.pending = (IF slot = "none" THEN "flat" ELSE slot) THEN "none"
                        ELSE mem.pending
  BY <1>0, ReconciledSame DEF Same
<1>2. Opposes(slot, mem.verdict) => mem'.pending = mem.pending
  BY <1>0, <1>1 DEF Opposes, Current, IInv, TypeOK, Sides
<1>3. intents' # <<Target(mem'.verdict)>>
  BY <1>0
<1> QED
  BY <1>0, <1>1, <1>2, <1>3 DEF ChargeInv

-----------------------------------------------------------------------------
(* The decision.                                                           *)

\* What an outcome is, by which the decision keeps the invariant.
Decision(v, g) ==
  /\ v.mem \in Memory /\ Read(v.mem, feed) /\ mem.at <= v.mem.at
  /\ kind = "bar" \/ (v.mem.at = mem.at /\ v.mem.hold = mem.hold)
  /\ ~g => Len(feed) = v.mem.at
  /\ \/ v.out \in {<<>>, <<"exit">>}
     \/ /\ Target(v.mem.verdict) # "none" /\ FreshAt(enteredAt, v.mem.at, feed)
        /\ v.out \in {<<Target(v.mem.verdict)>>, <<"exit", Target(v.mem.verdict)>>}
  /\ v.mem.pending \in Entries => FreshAt(enteredAt, v.mem.at, feed)
  /\ v.mem.reset => mem.reset
  /\ Held(v.mem)
  /\ v.mem.hold # "none" =>
       /\ mem.hold # "none" /\ v.out = <<>> /\ v.side = "none"
       /\ v.mem.win = mem.win /\ v.mem.loss = mem.loss
  /\ Opposes(slot, v.mem.verdict) =>
       begun \/ gone # "no" \/ v.mem.pending # "none" \/ (v.mem.restart /\ v.mem.startup)
  /\ Target(v.mem.verdict) # "none" /\ v.out = <<Target(v.mem.verdict)>> => slot = "none"

LEMMA ShapeFacts ==
  ASSUME NEW o, NEW side, NEW p, o.mem.verdict \in Verdicts,
         Quiet(o, side, p) \/ Leaves(o) \/ Enters(o, side)
  PROVE  LET t == Target(o.mem.verdict)
         IN  /\ \/ o.out \in {<<>>, <<"exit">>}
                \/ t # "none" /\ o.out \in {<<t>>, <<"exit", t>>} /\ o.out # <<>> /\ ~Leaves(o)
             /\ o.out # <<>> => o.mem.pending # "none"
             /\ o.out = <<>> => o.mem.pending = p /\ o.side = side
             /\ o.mem.pending \in Entries => (o.out = <<>> /\ o.mem.pending = p) \/ (o.out # <<>> /\ ~Leaves(o))
             /\ t # "none" /\ o.out = <<t>> => side = "none"
<1> DEFINE t == Target(o.mem.verdict)
<1>0. "flat" \notin Entries /\ "flat" # "none" /\ t \in Sides /\ "long" \in Entries
  BY TargetType DEF Entries
<1>1. CASE Quiet(o, side, p)
  <2>1. o.out = <<>> /\ o.mem.pending = p /\ o.side = side
    BY <1>1 DEF Quiet
  <2>2. <<t>> # <<>>
    OBVIOUS
  <2> HIDE DEF t
  <2> QED
    BY <2>1, <2>2 DEF t
<1>2. CASE Leaves(o)
  <2>1. o.out = <<"exit">> /\ o.mem.pending = "flat"
    BY <1>2 DEF Leaves
  <2>2. <<"exit">> # <<>>
    BY <1>0, TailFacts
  <2>3. t # "none" => <<t>> # <<"exit">>
    BY <1>0, TailFacts DEF Sides
  <2> HIDE DEF t
  <2> QED
    BY <1>0, <2>1, <2>2, <2>3 DEF t
<1>3. CASE Enters(o, side)
  <2>1. /\ t # "none" /\ t \in Entries /\ o.mem.pending = t
        /\ o.out = IF side = "none" THEN <<t>> ELSE <<"exit", t>>
    BY <1>0, <1>3 DEF Enters, Sides
  <2>2. o.out # <<>> /\ o.out \in {<<t>>, <<"exit", t>>} /\ o.mem.pending # "flat"
    BY <1>0, <2>1, TailFacts
  <2>3. <<"exit", t>> # <<t>>
    OBVIOUS
  <2>4. ~Leaves(o)
    BY <2>2 DEF Leaves
  <2> HIDE DEF t
  <2> QED
    BY <2>1, <2>2, <2>3, <2>4 DEF t
<1> QED
  BY <1>1, <1>2, <1>3

\* What every decision starts from.
LEMMA DecideFacts ==
  ASSUME IInv, Standing, FreshInv, ChargeInv, pc = "decide"
  PROVE  /\ mem \in Memory /\ Current(mem) /\ Held(mem) /\ mirror \in Sides
         /\ feed \in Seq(Verdicts) /\ mem.at \in Nat /\ enteredAt \in Nat
         /\ mem.at \in 1 .. Len(feed) /\ mem.verdict = feed[mem.at] /\ mem.verdict \in Verdicts
         /\ mem.hold # "none" => mirror = "none" /\ slot = "none"
         /\ slot # "none" => slot = mirror
         /\ mem.pending \in Entries => FreshAt(enteredAt, mem.at, feed)
         /\ mem.reset => enteredAt = 0
         /\ enteredAt <= mem.at
         /\ Opposes(slot, mem.verdict) =>
              begun \/ gone # "no" \/ mem.pending # "none" \/ (mem.restart /\ mem.startup)
         /\ \A c \in Nat : mem.at <= c /\ Opposes(mirror, feed[c]) => FreshAt(enteredAt, c, feed)
<1>1. /\ mem \in Memory /\ mem.verdict \in Verdicts
      /\ feed \in Seq(Verdicts) /\ mem.at \in Nat /\ enteredAt \in Nat
      /\ saved.mem.at \in Nat /\ saved.mem.at <= mem.at
      /\ mem.at \in 1 .. Len(feed) /\ mem.verdict = feed[mem.at]
  BY PlaceFacts DEF Standing, Memory
<1>2. /\ Current(mem) /\ Held(mem) /\ mirror \in Sides /\ enteredAt <= mem.at
  BY <1>1 DEF IInv, TypeOK, MemoryInv, Trusted, Standing, HoldInv, SlotInv
<1>3. /\ mem.hold # "none" => mirror = "none" /\ slot = "none"
      /\ slot # "none" => slot = mirror
      /\ mirror # "none" => Named(mirror, enteredAt, saved.mem.at, feed)
  BY DEF Standing, HoldInv, SlotInv
<1>4. /\ mem.pending \in Entries => FreshAt(enteredAt, mem.at, feed)
      /\ mem.reset => enteredAt = 0
      /\ Opposes(slot, mem.verdict) =>
           begun \/ gone # "no" \/ mem.pending # "none" \/ (mem.restart /\ mem.startup)
  BY DEF FreshInv, ChargeInv
<1>5. ASSUME NEW c \in Nat, mem.at <= c, Opposes(mirror, feed[c])
      PROVE  FreshAt(enteredAt, c, feed)
  <2>1. mirror # "none"
    BY <1>5 DEF Opposes
  <2>2. saved.mem.at <= c
    BY <1>1, <1>5
  <2> QED
    BY <1>1, <1>3, <1>5, <2>1, <2>2, OpposedFresh
<1> QED
  BY <1>1, <1>2, <1>3, <1>4, <1>5

LEMMA MinuteDecision ==
  ASSUME IInv, Standing, FreshInv, ChargeInv, pc = "decide", kind = "minute",
         NEW result \in Results, NEW g \in BOOLEAN, gap => g
  PROVE  Decision(Startup(mem, mirror, result), g)
<1> DEFINE o == Startup(mem, mirror, result)
           t == Target(o.mem.verdict)
<1>1. /\ mem \in Memory /\ Current(mem) /\ Held(mem) /\ mirror \in Sides
      /\ mem.at \in Nat /\ mem.at \in 1 .. Len(feed) /\ mem.verdict = feed[mem.at]
      /\ mem.verdict \in Verdicts
      /\ mem.hold # "none" => mirror = "none" /\ slot = "none"
      /\ slot # "none" => slot = mirror
  BY DecideFacts
<1>2. /\ mem.pending \in Entries => FreshAt(enteredAt, mem.at, feed)
      /\ Opposes(mirror, mem.verdict) => FreshAt(enteredAt, mem.at, feed)
  BY <1>1, DecideFacts
<1>3. Opposes(slot, mem.verdict) =>
        begun \/ gone # "no" \/ mem.pending # "none" \/ (mem.restart /\ mem.startup)
  BY DecideFacts
<1>4. /\ Shape(o, mem, mirror)
      /\ (o.out # <<>> /\ ~Leaves(o) => Opposes(mirror, mem.verdict) \/ mem.pending \in Entries)
      /\ (o.out = <<>> /\ Opposes(mirror, mem.verdict) =>
            mem.pending # "none" \/ ~(mem.restart /\ mem.startup))
      /\ (mirror = "none" /\ mem.pending = "none" => o.out = <<>>)
      /\ Began(o, mem)
  BY <1>1, StartupShape
<1>5. o.mem \in Memory /\ o.mem.reset = mem.reset
  BY <1>1, StartupSound DEF Sound, Outcomes
<1> HIDE DEF o
<1>6. /\ o.mem.at = mem.at /\ o.mem.verdict = mem.verdict /\ o.mem.hold = mem.hold
      /\ Quiet(o, mirror, mem.pending) \/ Leaves(o) \/ Enters(o, mirror)
  BY <1>4 DEF Shape, Placed
<1>7. /\ \/ o.out \in {<<>>, <<"exit">>}
         \/ t # "none" /\ o.out \in {<<t>>, <<"exit", t>>} /\ o.out # <<>> /\ ~Leaves(o)
      /\ o.out # <<>> => o.mem.pending # "none"
      /\ o.out = <<>> => o.mem.pending = mem.pending /\ o.side = mirror
      /\ o.mem.pending \in Entries =>
           (o.out = <<>> /\ o.mem.pending = mem.pending) \/ (o.out # <<>> /\ ~Leaves(o))
      /\ t # "none" /\ o.out = <<t>> => mirror = "none"
  BY <1>1, <1>6, ShapeFacts
<1> HIDE DEF t
<1>8. Read(o.mem, feed)
  BY <1>1, <1>6 DEF Read
<1>9. ~g => Len(feed) = o.mem.at
  BY <1>6 DEF Standing, LevelInv, Awaits
<1>10. \/ o.out \in {<<>>, <<"exit">>}
       \/ t # "none" /\ FreshAt(enteredAt, o.mem.at, feed) /\ o.out \in {<<t>>, <<"exit", t>>}
  BY <1>2, <1>4, <1>6, <1>7
<1>11. o.mem.pending \in Entries => FreshAt(enteredAt, o.mem.at, feed)
  BY <1>2, <1>4, <1>6, <1>7
<1>12. mem.hold # "none" =>
         /\ o.out = <<>> /\ o.side = "none" /\ o.mem.pending = "none"
         /\ o.mem.win = mem.win /\ o.mem.loss = mem.loss
  BY <1>1, <1>4, <1>7 DEF Held, Began, Kept
<1>13. Held(o.mem)
  BY <1>1, <1>5, <1>6, <1>12 DEF Held, Cooling
<1>14. Opposes(slot, o.mem.verdict) =>
         begun \/ gone # "no" \/ o.mem.pending # "none" \/ (o.mem.restart /\ o.mem.startup)
  <2> SUFFICES ASSUME Opposes(slot, mem.verdict), o.mem.pending = "none"
               PROVE  begun \/ gone # "no"
    BY <1>6
  <2>1. slot # "none" /\ Opposes(mirror, mem.verdict)
    BY <1>1 DEF Opposes
  <2>2. o.out = <<>> /\ mem.pending = "none"
    BY <1>7
  <2> QED
    BY <1>3, <1>4, <2>1, <2>2
<1>15. t # "none" /\ o.out = <<t>> => slot = "none"
  BY <1>1, <1>7
<1>16. mem.at <= o.mem.at
  BY <1>1, <1>6
<1> QED
  BY <1>5, <1>6, <1>8, <1>9, <1>10, <1>11, <1>12, <1>13, <1>14, <1>15, <1>16 DEF Decision, o, t

LEMMA BarDecision ==
  ASSUME IInv, Standing, FreshInv, ChargeInv, pc = "decide", kind = "bar", ~gap, Behind,
         NEW result \in Results
  PROVE  Decision(OnBar(mem, mirror, feed[mem.at + 1], result), FALSE)
<1> DEFINE v == feed[mem.at + 1]
           o == OnBar(mem, mirror, v, result)
           p == IF v = mem.verdict THEN mem.pending ELSE "none"
           t == Target(o.mem.verdict)
<1>1. /\ mem \in Memory /\ Held(mem) /\ mirror \in Sides /\ feed \in Seq(Verdicts)
      /\ mem.at \in Nat /\ mem.at \in 1 .. Len(feed) /\ mem.verdict = feed[mem.at]
      /\ enteredAt \in Nat /\ enteredAt <= mem.at
      /\ mem.hold # "none" => mirror = "none" /\ slot = "none"
      /\ slot # "none" => slot = mirror
  BY DecideFacts
<1>2. mem.at + 1 \in 1 .. Len(feed) /\ v \in Verdicts /\ "none" \notin Verdicts
  BY <1>1 DEF Behind, Verdicts
<1>3. /\ mem.pending \in Entries => FreshAt(enteredAt, mem.at + 1, feed)
      /\ Opposes(mirror, v) => FreshAt(enteredAt, mem.at + 1, feed)
      /\ mem.reset => FreshAt(enteredAt, mem.at + 1, feed)
      /\ v # mem.verdict => FreshAt(enteredAt, mem.at + 1, feed)
  <2>1. /\ mem.pending \in Entries => FreshAt(enteredAt, mem.at, feed)
        /\ mem.reset => enteredAt = 0
    BY DecideFacts
  <2>2. mem.pending \in Entries => FreshAt(enteredAt, mem.at + 1, feed)
    <3>1. mem.at + 1 \in Nat /\ mem.at <= mem.at + 1
      BY <1>1
    <3> HIDE DEF v
    <3> QED
      BY <1>1, <2>1, <3>1, FreshLater
  <2>3. Opposes(mirror, v) => FreshAt(enteredAt, mem.at + 1, feed)
    <3>1. mem.at + 1 \in Nat /\ mem.at <= mem.at + 1
      BY <1>1
    <3> QED
      BY <3>1, DecideFacts
  <2>4. mem.reset => FreshAt(enteredAt, mem.at + 1, feed)
    BY <2>1 DEF FreshAt
  <2>5. v # mem.verdict => FreshAt(enteredAt, mem.at + 1, feed)
    <3> SUFFICES ASSUME v # mem.verdict PROVE \E i \in enteredAt + 1 .. mem.at + 1 : feed[i] # feed[i - 1]
      BY DEF FreshAt
    <3>1. mem.at + 1 \in enteredAt + 1 .. mem.at + 1 /\ (mem.at + 1) - 1 = mem.at
      BY <1>1
    <3> QED
      BY <1>1, <3>1
  <2> QED
    BY <2>2, <2>3, <2>4, <2>5
<1>4. Opposes(slot, mem.verdict) =>
        begun \/ gone # "no" \/ mem.pending # "none" \/ (mem.restart /\ mem.startup)
  BY DecideFacts
<1> HIDE DEF v
<1>5. /\ o.mem.at = mem.at + 1 /\ o.mem.verdict = v
      /\ o.mem.hold = (IF mem.hold = v THEN v ELSE "none")
      /\ Quiet(o, mirror, p) \/ Leaves(o) \/ Enters(o, mirror)
      /\ (o.out # <<>> /\ ~Leaves(o) =>
            mem.reset \/ v # mem.verdict \/ Opposes(mirror, v) \/ mem.pending \in Entries)
      /\ (o.out = <<>> /\ Opposes(mirror, v) => v = mem.verdict /\ ~mem.restart /\ mem.pending = "none")
      /\ (mem.hold = v => o.out = <<>> /\ Kept(o, mem))
  BY <1>1, <1>2, OnBarShape
<1>6. o.mem \in Memory /\ ~o.mem.reset
  BY <1>1, <1>2, OnBarSound DEF Sound, Outcomes, IInv, MemoryInv, Trusted
<1> HIDE DEF o, p
<1>7. /\ \/ o.out \in {<<>>, <<"exit">>}
         \/ t # "none" /\ o.out \in {<<t>>, <<"exit", t>>} /\ o.out # <<>> /\ ~Leaves(o)
      /\ o.out # <<>> => o.mem.pending # "none"
      /\ o.out = <<>> => o.mem.pending = p /\ o.side = mirror
      /\ o.mem.pending \in Entries => (o.out = <<>> /\ o.mem.pending = p) \/ (o.out # <<>> /\ ~Leaves(o))
      /\ t # "none" /\ o.out = <<t>> => mirror = "none"
  BY <1>2, <1>5, ShapeFacts
<1> HIDE DEF t
<1>8. p = mem.pending \/ p = "none"
  BY DEF p
<1>9. Read(o.mem, feed)
  BY <1>2, <1>5 DEF Read, v
<1>10. Len(feed) = o.mem.at
  BY <1>5 DEF Standing, LevelInv, Awaits
<1>11. \/ o.out \in {<<>>, <<"exit">>}
       \/ t # "none" /\ FreshAt(enteredAt, o.mem.at, feed) /\ o.out \in {<<t>>, <<"exit", t>>}
  BY <1>3, <1>5, <1>7
<1>12. o.mem.pending \in Entries => FreshAt(enteredAt, o.mem.at, feed)
  BY <1>3, <1>5, <1>7, <1>8 DEF Entries
<1>13. o.mem.hold # "none" =>
         /\ mem.hold # "none" /\ o.out = <<>> /\ o.side = "none" /\ o.mem.pending = "none"
         /\ o.mem.win = mem.win /\ o.mem.loss = mem.loss
  <2> SUFFICES ASSUME o.mem.hold # "none"
               PROVE  /\ mem.hold # "none" /\ o.out = <<>> /\ o.side = "none"
                      /\ o.mem.pending = "none"
                      /\ o.mem.win = mem.win /\ o.mem.loss = mem.loss
    OBVIOUS
  <2>1. mem.hold = v /\ mem.hold # "none"
    BY <1>2, <1>5
  <2> QED
    BY <1>1, <1>5, <1>7, <1>8, <2>1 DEF Held, Kept
<1>14. Held(o.mem)
  BY <1>1, <1>6, <1>13 DEF Held, Cooling
<1>15. Opposes(slot, v) => begun \/ gone # "no" \/ o.mem.pending # "none"
  <2> SUFFICES ASSUME Opposes(slot, v), o.mem.pending = "none"
               PROVE  begun \/ gone # "no"
    OBVIOUS
  <2>1. slot # "none" /\ Opposes(mirror, v)
    BY <1>1 DEF Opposes
  <2>2. o.out = <<>>
    BY <1>7
  <2> QED
    BY <1>4, <1>5, <2>1, <2>2
<1>16. t # "none" /\ o.out = <<t>> => slot = "none"
  BY <1>1, <1>7
<1>17. mem.at <= o.mem.at
  BY <1>1, <1>5
<1> QED
  BY <1>5, <1>6, <1>9, <1>10, <1>11, <1>12, <1>13, <1>14, <1>15, <1>16, <1>17 DEF Decision, o, t, v

LEMMA SkipDecision ==
  ASSUME IInv, Standing, FreshInv, ChargeInv, pc = "decide", kind = "bar"
  PROVE  Decision(Outcome(mem, mirror, <<>>), TRUE)
<1> DEFINE o == Outcome(mem, mirror, <<>>)
<1>1. /\ mem \in Memory /\ Held(mem) /\ mem.at \in Nat
      /\ mem.at \in 1 .. Len(feed) /\ mem.verdict = feed[mem.at]
      /\ mem.hold # "none" => mirror = "none"
      /\ mem.pending \in Entries => FreshAt(enteredAt, mem.at, feed)
      /\ Opposes(slot, mem.verdict) =>
           begun \/ gone # "no" \/ mem.pending # "none" \/ (mem.restart /\ mem.startup)
  BY DecideFacts
<1>2. o.mem = mem /\ o.side = mirror /\ o.out = <<>>
  BY <1>1, OutcomeShape
<1> HIDE DEF o
<1>3. <<Target(mem.verdict)>> # <<>>
  OBVIOUS
<1>4. Read(o.mem, feed) /\ mem.at <= o.mem.at
  BY <1>1, <1>2 DEF Read
<1>5. Target(o.mem.verdict) # "none" /\ o.out = <<Target(o.mem.verdict)>> => slot = "none"
  BY <1>2, <1>3
<1>6. o.mem.pending \in Entries => FreshAt(enteredAt, o.mem.at, feed)
  BY <1>1, <1>2
<1>7. Held(o.mem) /\ o.mem \in Memory
  BY <1>1, <1>2
<1>8. o.mem.hold # "none" =>
        /\ mem.hold # "none" /\ o.out = <<>> /\ o.side = "none"
        /\ o.mem.win = mem.win /\ o.mem.loss = mem.loss
  BY <1>1, <1>2
<1>9. Opposes(slot, o.mem.verdict) =>
        begun \/ gone # "no" \/ o.mem.pending # "none" \/ (o.mem.restart /\ o.mem.startup)
  BY <1>1, <1>2
<1>10. (o.mem.reset => mem.reset) /\ o.out \in {<<>>, <<"exit">>}
  BY <1>2
<1> QED
  BY <1>4, <1>5, <1>6, <1>7, <1>8, <1>9, <1>10 DEF Decision, o

LEMMA DecidedStands ==
  ASSUME IInv, Standing, FreshInv, ChargeInv, pc = "decide", NEW v, NEW g \in BOOLEAN,
         Decided(v, g), Decision(v, g)
  PROVE  Standing' /\ FreshInv' /\ ChargeInv'
<1> DEFINE t == Target(v.mem.verdict)
<1>1. /\ v.mem \in Memory /\ Read(v.mem, feed) /\ mem.at <= v.mem.at
      /\ (kind = "bar" \/ (v.mem.at = mem.at /\ v.mem.hold = mem.hold))
      /\ (~g => Len(feed) = v.mem.at)
      /\ \/ v.out \in {<<>>, <<"exit">>}
         \/ t # "none" /\ FreshAt(enteredAt, v.mem.at, feed) /\ v.out \in {<<t>>, <<"exit", t>>}
      /\ (v.mem.pending \in Entries => FreshAt(enteredAt, v.mem.at, feed))
      /\ (v.mem.reset => mem.reset)
  BY DEF Decision
<1>2. /\ Held(v.mem)
      /\ (v.mem.hold # "none" =>
            /\ mem.hold # "none" /\ v.out = <<>> /\ v.side = "none"
            /\ v.mem.win = mem.win /\ v.mem.loss = mem.loss)
      /\ (Opposes(slot, v.mem.verdict) =>
            begun \/ gone # "no" \/ v.mem.pending # "none" \/ (v.mem.restart /\ v.mem.startup))
      /\ (t # "none" /\ v.out = <<t>> => slot = "none")
  BY DEF Decision
<1>3. /\ mem' = v.mem /\ mirror' = v.side /\ gap' = g /\ intents' = v.out /\ pc' = "submit"
      /\ fresh' = FALSE /\ due' = (kind = "bar" \/ g \/ fresh \/ v.out # <<>>)
      /\ saved' = IF due' THEN Snapshot(v.mem, g) ELSE saved
      /\ UNCHANGED <<slot, begun, gone, told, owed, kind, feed, enteredAt>>
  BY DEF Decided, execVars
<1>4. /\ winFrom' = IF v.mem.win > mem.win THEN v.mem.at ELSE winFrom
      /\ lossFrom' = IF v.mem.loss > mem.loss THEN v.mem.at ELSE lossFrom
  BY DEF Decided
<1>5. told = "none"
  BY DEF IInv, ToldInv
<1>6. /\ mem.at \in Nat /\ saved.mem.at \in Nat /\ saved.mem.at <= mem.at /\ v.mem.at \in Nat
      /\ mem \in Memory /\ enteredAt \in Nat /\ v.mem.at \in 1 .. Len(feed) /\ Len(feed) \in Nat
  BY <1>1, PlaceFacts DEF Standing, Memory, Read
<1> HIDE DEF t
\* The snapshot is of the outcome, or the outcome left what it would hold as it was.
<1>7. \/ /\ due' /\ Same(saved'.mem, v.mem) /\ saved'.mem.pending = v.mem.pending
      \/ /\ ~due' /\ saved' = saved /\ v.out = <<>> /\ ~fresh /\ kind # "bar"
  <2>1. CASE due'
    <3>1. saved'.mem = Durable(v.mem)
      BY <1>3, <2>1 DEF Snapshot
    <3> QED
      BY <1>1, <2>1, <3>1, DurableSame
  <2>2. CASE ~due'
    BY <1>3, <2>2
  <2> QED
    BY <2>1, <2>2
<1>8. /\ Read(saved'.mem, feed) /\ saved'.mem.at <= v.mem.at /\ saved.mem.at <= saved'.mem.at
      /\ saved'.mem.hold = v.mem.hold /\ Held(saved'.mem) /\ saved'.mem.at \in Nat
  <2>1. CASE due'
    <3>1. Same(saved'.mem, v.mem) /\ saved'.mem.pending = v.mem.pending
      BY <1>7, <2>1
    <3>2. Held(saved'.mem)
      BY <1>1, <1>2, <3>1, HeldSame
    <3> QED
      BY <1>1, <1>6, <3>1, <3>2, ReadSame DEF Same
  <2>2. CASE ~due'
    <3>1. saved' = saved /\ v.mem.at = mem.at /\ v.mem.hold = mem.hold
      BY <1>1, <1>7, <2>2
    <3> QED
      BY <1>6, <3>1 DEF Standing, PlaceInv, HoldInv
  <2> QED
    BY <2>1, <2>2
<1>9. PlaceInv'
  BY <1>1, <1>3, <1>8 DEF PlaceInv
<1>10. LevelInv'
  BY <1>1, <1>3 DEF LevelInv, Awaits
<1>11. SlotInv'
  <2>1. (begun' \/ gone' # "no" => slot' # "none") /\ (owed' => begun')
    BY <1>3 DEF Standing, SlotInv
  <2>2. enteredAt <= saved'.mem.at
    BY <1>6, <1>8 DEF Standing, SlotInv
  <2>3. slot # "none" => Named(slot, enteredAt, saved'.mem.at, feed)
    BY <1>6, <1>8 DEF Standing, SlotInv, Named
  <2> QED
    BY <1>3, <2>1, <2>2, <2>3 DEF SlotInv
<1>12. IntentInv'
  <2>1. v.out # <<>> => due' /\ saved'.mem.at = v.mem.at
    BY <1>7 DEF Same
  <2>2. \/ v.out \in {<<>>, <<"exit">>}
        \/ t # "none" /\ v.out \in {<<t>>, <<"exit", t>>}
    BY <1>1
  <2> QED
    BY <1>3, <2>1, <2>2 DEF IntentInv, t
<1>13. HoldInv'
  <2>1. v.mem.hold # "none" => winFrom' = 0 /\ lossFrom' = 0 /\ slot = "none"
    <3> SUFFICES ASSUME v.mem.hold # "none" PROVE winFrom' = 0 /\ lossFrom' = 0 /\ slot = "none"
      OBVIOUS
    <3>1. v.mem.win = mem.win /\ v.mem.loss = mem.loss /\ mem.hold # "none"
          /\ mem.win \in Int /\ mem.loss \in Int
      BY <1>2, <1>6, CountFacts DEF Memory
    <3>2. winFrom' = winFrom /\ lossFrom' = lossFrom
      BY <1>4, <3>1
    <3> QED
      BY <3>1, <3>2 DEF Standing, HoldInv
  <2> QED
    BY <1>2, <1>3, <1>5, <1>8, <2>1 DEF HoldInv
<1>14. FreshInv'
  <2>1. v.out \notin {<<>>, <<"exit">>} => FreshAt(enteredAt, v.mem.at, feed)
    BY <1>1
  <2>2. saved'.mem.pending \in Entries => FreshAt(enteredAt, saved'.mem.at, feed)
    <3>1. CASE due'
      BY <1>1, <1>7, <3>1 DEF Same
    <3>2. CASE ~due'
      BY <1>5, <1>7, <3>2 DEF FreshInv
    <3> QED
      BY <3>1, <3>2
  <2>3. saved'.mem.reset => mem.reset \/ saved.mem.reset
    BY <1>1, <1>7 DEF Same
  <2>4. v.mem.reset \/ saved'.mem.reset => enteredAt = 0
    BY <1>1, <2>3 DEF FreshInv
  <2> QED
    BY <1>1, <1>3, <2>1, <2>2, <2>4 DEF FreshInv
<1>15. ChargeInv'
  BY <1>2, <1>3 DEF ChargeInv, t
<1> QED
  BY <1>9, <1>10, <1>11, <1>12, <1>13, <1>14, <1>15 DEF Standing

LEMMA DecideStands ==
  ASSUME IInv, Standing, FreshInv, ChargeInv, Decide
  PROVE  Standing' /\ FreshInv' /\ ChargeInv'
<1>0. pc = "decide" /\ gap \in BOOLEAN
  BY DEF Decide, DecideMinute, DecideBar, SkipBar, Decided, IInv, TypeOK
<1>1. ASSUME NEW hole \in BOOLEAN, NEW result \in Results, DecideMinute(hole, result)
      PROVE  Standing' /\ FreshInv' /\ ChargeInv'
  <2> DEFINE o == Startup(mem, mirror, result)
             g == gap \/ hole
  <2>1. Decided(o, g) /\ kind = "minute" /\ g \in BOOLEAN /\ (gap => g)
    BY <1>0, <1>1 DEF DecideMinute
  <2> HIDE DEF g
  <2>2. Decision(o, g)
    BY <1>0, <2>1, MinuteDecision
  <2> HIDE DEF o
  <2> QED
    BY <1>0, <2>1, <2>2, DecidedStands
<1>2. ASSUME NEW result \in Results, DecideBar(result)
      PROVE  Standing' /\ FreshInv' /\ ChargeInv'
  <2> DEFINE o == OnBar(mem, mirror, feed[mem.at + 1], result)
  <2>1. Decided(o, FALSE) /\ kind = "bar" /\ ~gap /\ Behind
    BY <1>2 DEF DecideBar
  <2>2. Decision(o, FALSE)
    BY <1>0, <2>1, BarDecision
  <2> HIDE DEF o
  <2> QED
    BY <1>0, <2>1, <2>2, DecidedStands
<1>3. CASE SkipBar
  <2> DEFINE o == Outcome(mem, mirror, <<>>)
  <2>1. Decided(o, TRUE) /\ kind = "bar"
    BY <1>3 DEF SkipBar
  <2>2. Decision(o, TRUE)
    BY <1>0, <2>1, SkipDecision
  <2> HIDE DEF o
  <2> QED
    BY <1>0, <2>1, <2>2, DecidedStands
<1> QED
  BY <1>1, <1>2, <1>3 DEF Decide

-----------------------------------------------------------------------------

JInv == IInv /\ Standing /\ FreshInv /\ ChargeInv

LEMMA InitStands == Init => JInv
<1> SUFFICES ASSUME Init PROVE JInv
  OBVIOUS
<1>0. IInv
  BY InitInv
<1>1. PICK u \in Verdicts : \E h \in {"none"} \cup ({u} \ {"FLAT"}) :
        /\ feed = <<u>>
        /\ mem = [at |-> 1, verdict |-> u, win |-> 0, loss |-> 0, pending |-> "none",
                  hold |-> h, reset |-> FALSE, restart |-> FALSE, startup |-> FALSE]
  BY DEF Init
<1>2. /\ mem.at = 1 /\ mem.verdict = u /\ mem.pending = "none" /\ ~mem.reset
      /\ mem.win = 0 /\ mem.loss = 0
  BY <1>1
<1>3. mem \in Memory
  BY <1>0 DEF IInv, TypeOK
<1>4. saved.mem = Durable(mem)
  BY DEF Init, Snapshot
<1>5. Same(saved.mem, mem) /\ saved.mem.pending = "none"
  BY <1>2, <1>3, <1>4, DurableSame
<1>6. Len(feed) = 1 /\ feed[1] = u
  BY <1>1
<1>7. /\ mirror = "none" /\ slot = "none" /\ begun = FALSE /\ gone = "no" /\ told = "none"
      /\ owed = FALSE /\ pc = "down" /\ intents = <<>>
      /\ winFrom = 0 /\ lossFrom = 0 /\ enteredAt = 0
  BY DEF Init
<1>8. PlaceInv
  BY <1>2, <1>5, <1>6 DEF PlaceInv, Read, Same
<1>9. LevelInv /\ SlotInv /\ IntentInv
  BY <1>2, <1>5, <1>7 DEF LevelInv, SlotInv, IntentInv, Same
<1>10. HoldInv
  BY <1>2, <1>5, <1>7 DEF HoldInv, Held, Cooling, Same
<1>11. "none" \notin Entries
  BY DEF Entries
<1>12. FreshInv /\ ChargeInv
  BY <1>2, <1>5, <1>7, <1>11 DEF FreshInv, ChargeInv, Same
<1> QED
  BY <1>0, <1>8, <1>9, <1>10, <1>12 DEF JInv, Standing

LEMMA EntryStands ==
  ASSUME JInv, NEW side \in Entries, Entry(side)
  PROVE  Standing' /\ FreshInv' /\ ChargeInv'
<1>1. CASE FlipCloses(side)
  BY <1>1, ClosesStand, ClosesFresh, ClosesCharged DEF JInv
<1>2. CASE EntryFills(side)
  BY <1>2, FillsStand, FillsFresh, FillsCharged DEF JInv
<1>3. ASSUME NEW x \in BOOLEAN, FlipFails(side, x) \/ EntryNotFilled(side, x)
      PROVE  Standing' /\ FreshInv' /\ ChargeInv'
  BY <1>3, NotFilledStands, NotFilledFresh, NotFilledCharged DEF JInv
<1> QED
  BY <1>1, <1>2, <1>3 DEF Entry

LEMMA NextStands == JInv /\ [Next]_vars => JInv'
<1> SUFFICES ASSUME JInv, [Next]_vars PROVE JInv'
  OBVIOUS
<1>0. IInv /\ Standing /\ FreshInv /\ ChargeInv /\ IInv'
  BY NextKeeps DEF JInv
<1> SUFFICES Standing' /\ FreshInv' /\ ChargeInv'
  BY <1>0 DEF JInv
<1>1. CASE Restart
  BY <1>0, <1>1, RestartStands, RestartFresh, StartsCharged
<1>2. CASE ReplayBar
  BY <1>0, <1>2, ReplayBarStands, ReplayBarFresh, StartsCharged
<1>3. CASE \/ \E v \in Verdicts : Downtime(v)
           \/ ReplayBroken \/ ReplayDone \/ MinuteArrives
           \/ \E v \in Verdicts : BarCompletes(v)
           \/ \E how \in {"manual", "liquidated"} : VenueCloses(how)
           \/ UNCHANGED vars
  BY <1>0, <1>3, WaitingStands, WaitingFresh, WaitingCharged
<1>4. CASE VenueUnclear \/ VenueAgrees \/ (\E cause \in Causes : ClosureBooked(cause))
  BY <1>0, <1>4, VenueStands, WaitingFresh, WaitingCharged
<1>5. CASE Deliver
  BY <1>0, <1>5, DeliverStands, DeliverFresh, DeliverCharged
<1>6. CASE \/ RetryIdle \/ RetryAccepted \/ (\E x \in BOOLEAN : RetryFails(x)) \/ NothingOwed
           \/ ExitIdle \/ ExitAccepted \/ (\E x \in BOOLEAN : ExitFails(x))
  BY <1>0, <1>6, ClosesStand, ClosesFresh, ClosesCharged
<1>7. CASE Decide
  BY <1>0, <1>7, DecideStands
<1>8. CASE \E side \in Entries : Entry(side)
  BY <1>8, EntryStands
<1>9. CASE BarEnds
  BY <1>0, <1>9, BarEndsStand, BarEndsFresh, BarEndsCharged
<1>10. CASE Crash
  BY <1>0, <1>10, CrashStands, CrashFresh, StopsCharged
<1>11. ASSUME NEW c \in {"manual", "liquidated"}, Classify(c)
       PROVE  Standing' /\ FreshInv' /\ ChargeInv'
  BY <1>0, <1>11, ClassifyStands, ClassifyFresh, StopsCharged
<1> QED
  BY <1>1, <1>2, <1>3, <1>4, <1>5, <1>6, <1>7, <1>8, <1>9, <1>10, <1>11
  DEF Next, Replay, LiveBar, Venue, Offline

LEMMA StandingInvariance == Spec => []JInv
BY InitStands, NextStands, PTL DEF Spec

LEMMA FreshHasChanges ==
  ASSUME enteredAt \in Nat, mem.at \in Nat, FreshAt(enteredAt, mem.at, feed)
  PROVE  enteredAt = 0 \/ Changes(enteredAt, mem.at) > 0
<1> SUFFICES ASSUME enteredAt # 0 PROVE Changes(enteredAt, mem.at) > 0
  OBVIOUS
<1> DEFINE T == {i \in enteredAt + 1 .. mem.at : feed[i] # feed[i - 1]}
<1>1. PICK i \in enteredAt + 1 .. mem.at : feed[i] # feed[i - 1]
  BY DEF FreshAt
<1>2. T # {}
  BY <1>1
<1>3. IsFiniteSet(enteredAt + 1 .. mem.at)
  BY IntervalFinite
<1>4. IsFiniteSet(T)
  BY <1>3, FS_Subset
<1>5. Cardinality(T) \in Nat /\ Cardinality(T) # 0
  BY <1>2, <1>4, FS_CardinalityType, FS_EmptySet
<1> QED
  BY <1>5 DEF Changes

\* A verdict is entered once, and what is opened is on the side of the newest completed bar:
\* no restart, catch-up or retry submits the same transition again
\* (_on_transition, _restart_catch_up, _reconcile_startup_positions, portfolio_live.py's entry gate).
THEOREM EntriesAlwaysFollow == Spec => EntriesFollowVerdicts
<1>1. ASSUME JInv, NEW side \in Entries, EntryFills(side)
      PROVE  /\ enteredAt = 0 \/ Changes(enteredAt, mem.at) > 0
             /\ slot' = Target(feed[Len(feed)])
  <2>1. FreshAt(enteredAt, mem.at, feed) /\ slot' = Target(feed[Len(feed)])
    BY <1>1, FillsFresh, FillsStand DEF JInv
  <2>2. enteredAt \in Nat /\ mem.at \in Nat
    BY <1>1, PlaceFacts DEF JInv, Standing
  <2> QED
    BY <2>1, <2>2, FreshHasChanges
<1>2. JInv /\ [Next]_vars =>
        [opened' # opened => enteredAt = 0 \/ Changes(enteredAt, mem.at) > 0]_vars
  BY <1>1, OnlyFillsOpen DEF JInv
<1>3. JInv /\ [Next]_vars => [opened' # opened => slot' = Target(feed[Len(feed)])]_vars
  BY <1>1, OnlyFillsOpen DEF JInv
<1> QED
  BY <1>2, <1>3, StandingInvariance, PTL
  DEF Spec, EntriesFollowVerdicts, OneEntryPerVerdict, EntryOnLatestVerdict

-----------------------------------------------------------------------------
(* The cooldowns count the changes of verdict.                             *)

Spenders(a, b, f) == {i \in a + 1 .. b : f[i] # f[i - 1] /\ Counts(f[i])}
Used(a, b, f) == Cardinality(Spenders(a, b, f))

\* What is left at bar b of a cooldown that began at bar a.
LeftBy(count, a, b, f) == IF a = 0 \/ Used(a, b, f) >= count THEN 0 ELSE count - Used(a, b, f)

Counted(m, wf, lf, f) ==
  /\ wf <= m.at /\ lf <= m.at
  /\ m.win = LeftBy(WinCount, wf, m.at, f) /\ m.loss = LeftBy(LossCount, lf, m.at, f)

LEMMA SpendersFinite ==
  ASSUME NEW a \in Nat, NEW b \in Nat, NEW f
  PROVE  IsFiniteSet(Spenders(a, b, f)) /\ Used(a, b, f) \in Nat
<1>1. IsFiniteSet(a + 1 .. b)
  BY IntervalFinite
<1>2. Spenders(a, b, f) \in SUBSET (a + 1 .. b)
  BY DEF Spenders
<1>3. IsFiniteSet(Spenders(a, b, f))
  BY <1>1, <1>2, FS_Subset
<1> QED
  BY <1>3, FS_CardinalityType DEF Used

LEMMA UsedNext ==
  ASSUME NEW a \in Nat, NEW b \in Nat, a <= b, NEW f
  PROVE  Used(a, b + 1, f) =
           IF f[b + 1] # f[b] /\ Counts(f[b + 1]) THEN Used(a, b, f) + 1 ELSE Used(a, b, f)
<1>0. b + 1 \notin a + 1 .. b
  OBVIOUS
<1>1. IsFiniteSet(Spenders(a, b, f)) /\ b + 1 \notin Spenders(a, b, f)
  <2>1. IsFiniteSet(Spenders(a, b, f))
    BY SpendersFinite
  <2>2. b + 1 \notin Spenders(a, b, f)
    BY <1>0 DEF Spenders
  <2> QED
    BY <2>1, <2>2
<1>2. (b + 1) - 1 = b
  OBVIOUS
<1>3. CASE f[b + 1] # f[b] /\ Counts(f[b + 1])
  <2>1. Spenders(a, b + 1, f) = Spenders(a, b, f) \cup {b + 1}
    BY <1>2, <1>3 DEF Spenders
  <2> QED
    BY <1>1, <1>3, <2>1, FS_AddElement DEF Used
<1>4. CASE ~(f[b + 1] # f[b] /\ Counts(f[b + 1]))
  <2>1. Spenders(a, b + 1, f) = Spenders(a, b, f)
    BY <1>2, <1>4 DEF Spenders
  <2> QED
    BY <1>4, <2>1 DEF Used
<1> QED
  BY <1>3, <1>4

LEMMA UsedGrows ==
  ASSUME NEW f \in Seq(Verdicts), NEW g, Grows(f, g), NEW a \in Nat \ {0}, NEW b \in 1 .. Len(f)
  PROVE  Used(a, b, g) = Used(a, b, f)
<1>1. ASSUME NEW i \in a + 1 .. b PROVE g[i] = f[i] /\ g[i - 1] = f[i - 1]
  <2>1. i \in 1 .. Len(f) /\ i - 1 \in 1 .. Len(f)
    OBVIOUS
  <2> QED
    BY <2>1 DEF Grows
<1>2. Spenders(a, b, g) = Spenders(a, b, f)
  BY <1>1 DEF Spenders
<1> QED
  BY <1>2 DEF Used

LEMMA LeftType ==
  ASSUME NEW count \in Nat, NEW a \in Nat, NEW b \in Nat, NEW f
  PROVE  LeftBy(count, a, b, f) \in Nat
BY SpendersFinite DEF LeftBy

LEMMA LeftNext ==
  ASSUME NEW count \in Nat, NEW a \in Nat, NEW b \in Nat, a <= b, NEW f
  PROVE  LeftBy(count, a, b + 1, f) =
           IF f[b + 1] # f[b] /\ Counts(f[b + 1]) THEN LessOne(LeftBy(count, a, b, f))
           ELSE LeftBy(count, a, b, f)
<1>1. Used(a, b, f) \in Nat
  BY SpendersFinite
<1> QED
  BY <1>1, UsedNext DEF LeftBy, LessOne

LEMMA LeftAtStart ==
  ASSUME NEW count \in Nat, NEW a \in Nat \ {0}, NEW f
  PROVE  LeftBy(count, a, a, f) = count
<1>1. Spenders(a, a, f) = {}
  BY DEF Spenders
<1>2. Used(a, a, f) = 0
  BY <1>1, FS_EmptySet DEF Used
<1> QED
  BY <1>2 DEF LeftBy

LEMMA LeftOfNone ==
  ASSUME NEW count, NEW b, NEW f
  PROVE  LeftBy(count, 0, b, f) = 0
BY DEF LeftBy

LEMMA LeftGrows ==
  ASSUME NEW f \in Seq(Verdicts), NEW g, Grows(f, g), NEW a \in Nat, NEW b \in 1 .. Len(f), NEW count
  PROVE  LeftBy(count, a, b, g) = LeftBy(count, a, b, f)
BY UsedGrows DEF LeftBy

\* A bar that is taken in spends what it changes.
LEMMA CountedNext ==
  ASSUME NEW m \in Memory, NEW n, NEW wf \in Nat, NEW lf \in Nat, NEW f, NEW v,
         Counted(m, wf, lf, f), m.verdict = f[m.at], v = f[m.at + 1],
         n.at = m.at + 1,
         ~Cooling(m) => n.win = m.win /\ n.loss = m.loss,
         Cooling(m) =>
           /\ n.win = IF v # m.verdict /\ Counts(v) THEN LessOne(m.win) ELSE m.win
           /\ n.loss = IF v # m.verdict /\ Counts(v) THEN LessOne(m.loss) ELSE m.loss
  PROVE  Counted(n, wf, lf, f)
<1>1. m.at \in Nat /\ wf <= m.at /\ lf <= m.at
      /\ m.win = LeftBy(WinCount, wf, m.at, f) /\ m.loss = LeftBy(LossCount, lf, m.at, f)
  BY DEF Counted, Memory
<1>2. /\ n.win = IF v # m.verdict /\ Counts(v) THEN LessOne(m.win) ELSE m.win
      /\ n.loss = IF v # m.verdict /\ Counts(v) THEN LessOne(m.loss) ELSE m.loss
  BY UncoolBegan DEF LessOne
<1>3. /\ n.win = LeftBy(WinCount, wf, m.at + 1, f)
      /\ n.loss = LeftBy(LossCount, lf, m.at + 1, f)
  BY <1>1, <1>2, LeftNext, CountFacts
<1>4. wf <= m.at + 1 /\ lf <= m.at + 1
  BY <1>1
<1> QED
  BY <1>3, <1>4 DEF Counted

LEMMA CountedGrows ==
  ASSUME NEW f \in Seq(Verdicts), NEW g, Grows(f, g), NEW wf \in Nat, NEW lf \in Nat,
         NEW m, m.at \in 1 .. Len(f), Counted(m, wf, lf, f)
  PROVE  Counted(m, wf, lf, g)
BY LeftGrows DEF Counted

\* Bar and cooldowns are those of m.
Like(n, m) == n.at = m.at /\ n.win = m.win /\ n.loss = m.loss

LEMMA CountedLike ==
  ASSUME NEW m, NEW n, Like(n, m), NEW wf, NEW lf, NEW f, Counted(m, wf, lf, f)
  PROVE  Counted(n, wf, lf, f)
BY DEF Counted, Like

LEMMA SameLike ==
  ASSUME NEW m, NEW n, Same(n, m)
  PROVE  Like(n, m)
BY DEF Same, Like

CoolInv ==
  Counted(mem, winFrom, lossFrom, feed) /\ Counted(saved.mem, winFrom, lossFrom, feed)

LEMMA StepCounted ==
  ASSUME JInv, CoolInv, Grows(feed, feed'), UNCHANGED <<winFrom, lossFrom>>,
         Like(mem', mem) \/ Like(mem', saved.mem),
         Like(saved'.mem, saved.mem) \/ Like(saved'.mem, mem)
  PROVE  CoolInv'
<1>1. /\ feed \in Seq(Verdicts) /\ mem.at \in 1 .. Len(feed) /\ saved.mem.at \in 1 .. Len(feed)
      /\ winFrom \in Nat /\ lossFrom \in Nat
  BY PlaceFacts DEF JInv, Standing, IInv, TypeOK
<1>2. Counted(mem, winFrom, lossFrom, feed')
  BY <1>1, CountedGrows DEF CoolInv
<1>3. Counted(saved.mem, winFrom, lossFrom, feed')
  BY <1>1, CountedGrows DEF CoolInv
<1> QED
  BY <1>2, <1>3, CountedLike DEF CoolInv

\* The steps that leave the cooldowns alone.
LEMMA QuietCounted ==
  ASSUME JInv, CoolInv, [Next]_vars,
         ~Restart, ~ReplayBar, ~Deliver, ~Decide, \A c \in {"manual", "liquidated"} : ~Classify(c)
  PROVE  CoolInv'
<1>0. mem \in Memory /\ saved.mem \in Memory /\ feed \in Seq(Verdicts) /\ Like(mem, mem)
      /\ Like(saved.mem, saved.mem)
  BY PlaceFacts DEF JInv, Standing, Like
<1>1. CASE Crash
  <2>1. mem' = saved.mem /\ saved' = saved /\ feed' = feed /\ UNCHANGED <<winFrom, lossFrom>>
    BY <1>1 DEF Crash, histVars
  <2> QED
    BY <1>0, <2>1, GrowsBy, StepCounted
<1>2. CASE BarEnds
  <2>1. /\ feed' = feed /\ UNCHANGED <<winFrom, lossFrom>> /\ mem' = Reconciled(mem, slot)
        /\ saved' = IF due THEN Snapshot(mem', gap) ELSE saved
    BY <1>2 DEF BarEnds, histVars
  <2>2. Same(mem', mem) /\ mem' \in Memory
    BY <1>0, <2>1, ReconciledSame DEF Same
  <2>3. CASE due
    <3>1. saved'.mem = Durable(mem')
      BY <2>1, <2>3 DEF Snapshot
    <3>2. Same(saved'.mem, mem')
      BY <2>2, <3>1, DurableSame
    <3>3. Like(saved'.mem, mem)
      BY <2>2, <3>2 DEF Same, Like
    <3> QED
      BY <1>0, <2>1, <2>2, <3>3, SameLike, GrowsBy, StepCounted
  <2>4. CASE ~due
    BY <1>0, <2>1, <2>2, <2>4, SameLike, GrowsBy, StepCounted
  <2> QED
    BY <2>3, <2>4
<1>3. ASSUME NEW side \in Entries, NEW x \in BOOLEAN, FlipFails(side, x) \/ EntryNotFilled(side, x)
      PROVE  CoolInv'
  <2>1. /\ feed' = feed /\ UNCHANGED <<winFrom, lossFrom, saved>> /\ mem' = Rejected(mem)
    BY <1>3 DEF FlipFails, EntryNotFilled, Loop, histVars
  <2>2. Like(mem', mem)
    BY <1>0, <2>1, RejectedSame, SameLike
  <2> QED
    BY <1>0, <2>1, <2>2, GrowsBy, StepCounted
<1> DEFINE rest ==
      \/ \E v \in Verdicts : Downtime(v)
      \/ ReplayBroken \/ ReplayDone \/ MinuteArrives
      \/ \E v \in Verdicts : BarCompletes(v)
      \/ VenueUnclear \/ VenueAgrees \/ (\E cause \in Causes : ClosureBooked(cause))
      \/ \E how \in {"manual", "liquidated"} : VenueCloses(how)
      \/ RetryIdle \/ RetryAccepted \/ (\E x \in BOOLEAN : RetryFails(x)) \/ NothingOwed
      \/ ExitIdle \/ ExitAccepted \/ (\E x \in BOOLEAN : ExitFails(x))
      \/ \E side \in Entries : FlipCloses(side) \/ EntryFills(side)
      \/ UNCHANGED vars
<1>4. CASE rest
  <2>1. UNCHANGED <<mem, saved, winFrom, lossFrom>>
    BY <1>4 DEF Downtime, ReplayBroken, ReplayDone, MinuteArrives, BarCompletes, VenueCloses, vars,
           VenueUnclear, VenueAgrees, ClosureBooked, stratVars, histVars, RetryIdle, RetryAccepted,
           RetryFails, NothingOwed, Retried, ExitIdle, ExitAccepted, ExitFails, ExitSubmitted,
           FlipCloses, EntryFills, Loop
  <2>2. feed' = feed \/ \E v \in Verdicts : feed' = Append(feed, v)
    BY <1>4 DEF Downtime, ReplayBroken, ReplayDone, MinuteArrives, BarCompletes, VenueCloses, vars,
           VenueUnclear, VenueAgrees, ClosureBooked, RetryIdle, RetryAccepted,
           RetryFails, NothingOwed, Retried, ExitIdle, ExitAccepted, ExitFails, ExitSubmitted,
           FlipCloses, EntryFills, Loop
  <2> QED
    BY <1>0, <2>1, <2>2, GrowsBy, StepCounted
<1> HIDE DEF rest
<1>5. \/ Crash \/ BarEnds \/ rest
      \/ \E side \in Entries : \E x \in BOOLEAN : FlipFails(side, x) \/ EntryNotFilled(side, x)
  BY DEF Next, Replay, LiveBar, Venue, Entry, Offline, rest
<1> QED
  BY <1>1, <1>2, <1>3, <1>4, <1>5

\* The memory is set to a bar, and its cooldowns to a count that begins there or to nothing.
LEMMA CountedAt ==
  ASSUME NEW m, NEW wf, NEW lf, NEW f, m.at \in Nat \ {0},
         wf \in {0, m.at}, lf \in {0, m.at},
         m.win = (IF wf = 0 THEN 0 ELSE WinCount), m.loss = (IF lf = 0 THEN 0 ELSE LossCount)
  PROVE  Counted(m, wf, lf, f)
<1>1. m.win = LeftBy(WinCount, wf, m.at, f)
  BY LeftAtStart, LeftOfNone, CountFacts
<1>2. m.loss = LeftBy(LossCount, lf, m.at, f)
  BY LeftAtStart, LeftOfNone, CountFacts
<1> QED
  BY <1>1, <1>2 DEF Counted

\* An external close leaves the loss cooldown, begun at the bar of the memory, or nothing.
LEMMA HeardCounted ==
  ASSUME NEW m \in Memory, NEW cause, NEW b, b \in {m.at, 0}, cause # "manual" => b = m.at,
         m.at \in 1 .. Len(feed), Len(feed) \in Nat, feed' = feed,
         Heard(cause, b), Like(mem', ExternallyClosed(m, cause)), Like(saved'.mem, mem')
  PROVE  CoolInv'
<1>1. /\ ExternallyClosed(m, cause).at = m.at /\ ExternallyClosed(m, cause).win = 0
      /\ ExternallyClosed(m, cause).loss = IF cause = "manual" THEN 0 ELSE LossCount
  BY ExternallyClosedPlace
<1>2. mem'.at = m.at /\ mem'.win = 0 /\ mem'.loss = (IF cause = "manual" THEN 0 ELSE LossCount)
  BY <1>1 DEF Like
<1>3. winFrom' = 0 /\ lossFrom' = IF cause = "manual" THEN 0 ELSE m.at
  BY DEF Heard
<1>4. Counted(mem', winFrom', lossFrom', feed')
  BY <1>2, <1>3, CountedAt
<1> QED
  BY <1>4, CountedLike DEF CoolInv

LEMMA RestartCounted ==
  ASSUME JInv, CoolInv, Restart
  PROVE  CoolInv'
<1> DEFINE settled == Reconciled(saved.mem, slot)
           heard == IF told = "none" THEN settled ELSE ExternallyClosed(settled, told)
<1>0. /\ saved.mem \in Memory /\ saved.mem.at \in 1 .. Len(feed) /\ Len(feed) \in Nat
      /\ feed \in Seq(Verdicts)
  BY PlaceFacts DEF JInv, Standing
<1>1. Same(settled, saved.mem)
  BY <1>0, ReconciledSame
<1>2. /\ mem' = Started(heard, slot) /\ saved' = (IF told = "none" THEN saved ELSE Snapshot(heard, gap))
      /\ feed' = feed
      /\ IF told = "none" THEN UNCHANGED histVars ELSE Heard(told, heard.at)
  BY DEF Restart
<1> HIDE DEF settled
<1>3. settled \in Memory /\ settled.at = saved.mem.at /\ Like(settled, saved.mem)
  BY <1>1 DEF Same, Like
<1>4. heard \in Memory
  BY <1>3, ExternallyClosedPlace
<1>5. Same(mem', heard)
  BY <1>2, <1>4, StartedSame
<1>6. CASE told = "none"
  <2>1. heard = settled /\ UNCHANGED <<saved, winFrom, lossFrom>>
    BY <1>2, <1>6 DEF histVars
  <2>2. Like(mem', saved.mem) /\ Like(saved'.mem, saved.mem)
    BY <1>3, <1>5, <2>1 DEF Same, Like
  <2> QED
    BY <1>0, <1>2, <2>1, <2>2, GrowsBy, StepCounted
<1>7. CASE told # "none"
  <2>1. heard = ExternallyClosed(settled, told) /\ Heard(told, heard.at)
        /\ saved'.mem = Durable(heard)
    BY <1>2, <1>7 DEF Snapshot
  <2> HIDE DEF heard
  <2>2. heard.at = settled.at
    BY <1>3, <2>1, ExternallyClosedPlace
  <2>3. Same(saved'.mem, heard)
    BY <1>4, <2>1, DurableSame
  <2>4. Like(mem', ExternallyClosed(settled, told)) /\ Like(saved'.mem, mem')
    BY <1>5, <2>1, <2>3 DEF Same, Like
  <2>5. Heard(told, settled.at)
    BY <2>1, <2>2
  <2>6. settled.at \in 1 .. Len(feed) /\ settled.at \in {settled.at, 0}
    BY <1>0, <1>3
  <2> QED
    BY <1>0, <1>2, <1>3, <2>4, <2>5, <2>6, HeardCounted
<1> QED
  BY <1>6, <1>7

LEMMA DeliverCounted ==
  ASSUME JInv, CoolInv, Deliver
  PROVE  CoolInv'
<1> DEFINE m == ExternallyClosed(mem, told)
<1>0. mem \in Memory /\ mem.at \in 1 .. Len(feed) /\ Len(feed) \in Nat
  BY PlaceFacts DEF JInv, Standing
<1>1. m \in Memory /\ m.at = mem.at
  BY <1>0, ExternallyClosedPlace
<1>2. mem' = m /\ saved'.mem = Durable(m) /\ Heard(told, m.at) /\ feed' = feed
  BY DEF Deliver, Snapshot
<1> HIDE DEF m
<1>3. Same(saved'.mem, m)
  BY <1>1, <1>2, DurableSame
<1>4. Heard(told, mem.at)
  BY <1>1, <1>2
<1>5. Like(mem', ExternallyClosed(mem, told)) /\ Like(saved'.mem, mem')
  BY <1>2, <1>3 DEF Same, Like, m
<1> QED
  BY <1>0, <1>2, <1>4, <1>5, HeardCounted

LEMMA ClassifyCounted ==
  ASSUME JInv, CoolInv, NEW cause \in {"manual", "liquidated"}, Classify(cause)
  PROVE  CoolInv'
<1> DEFINE m == IF cause = "manual" THEN ExternallyClosed(saved.mem, cause) ELSE saved.mem
<1>0. /\ saved.mem \in Memory /\ saved.mem.at \in 1 .. Len(feed) /\ Len(feed) \in Nat
      /\ feed \in Seq(Verdicts)
  BY PlaceFacts DEF JInv, Standing
<1>1. m \in Memory
  BY <1>0, ExternallyClosedPlace
<1>2. /\ mem' = Durable(m) /\ saved'.mem = Durable(m) /\ feed' = feed
      /\ IF cause = "manual" THEN Heard(cause, 0) ELSE UNCHANGED histVars
  BY DEF Classify, Snapshot
<1> HIDE DEF m
<1>3. Same(mem', m) /\ saved'.mem = mem'
  BY <1>1, <1>2, DurableSame
<1>4. CASE cause = "manual"
  <2>1. Like(mem', ExternallyClosed(saved.mem, cause)) /\ Like(saved'.mem, mem')
    BY <1>3, <1>4 DEF Same, Like, m
  <2>2. Heard(cause, 0)
    BY <1>2, <1>4
  <2> QED
    BY <1>0, <1>2, <1>4, <2>1, <2>2, HeardCounted
<1>5. CASE cause # "manual"
  <2>1. Like(mem', saved.mem) /\ Like(saved'.mem, saved.mem) /\ UNCHANGED <<winFrom, lossFrom>>
    BY <1>2, <1>3, <1>5 DEF Same, Like, m, histVars
  <2> QED
    BY <1>0, <1>2, <2>1, GrowsBy, StepCounted
<1> QED
  BY <1>4, <1>5

LEMMA ReplayBarCounted ==
  ASSUME JInv, CoolInv, ReplayBar, Mode # "order_opportunity"
  PROVE  CoolInv'
<1> DEFINE v == feed[mem.at + 1]
           c == v # mem.verdict
           r == Replayed(TakenIn(mem, v), mirror, c).mem
<1>0. /\ feed \in Seq(Verdicts) /\ Len(feed) \in Nat /\ mem.at \in 1 .. Len(feed)
      /\ mem.at \in Nat /\ mem \in Memory /\ mem.at < Len(feed) /\ mem.verdict = feed[mem.at]
      /\ winFrom \in Nat /\ lossFrom \in Nat
  BY PlaceFacts DEF JInv, Standing, ReplayBar, Behind, IInv, TypeOK
<1>1. v \in Verdicts /\ c \in BOOLEAN /\ (c <=> v # mem.verdict)
  BY <1>0
<1>2. mem' = Reconciled(r, slot)
  <2>1. TakenIn(mem, v).verdict = v
    BY <1>0, <1>1, TakenInPlace
  <2> QED
    BY <2>1 DEF ReplayBar
<1>3. v = feed[mem.at + 1]
  OBVIOUS
<1> HIDE DEF v, c
<1>4. /\ r \in Memory /\ r.at = mem.at + 1
      /\ (~Cooling(mem) => r.win = mem.win /\ r.loss = mem.loss)
      /\ (Cooling(mem) =>
           /\ r.win = IF c /\ Counts(v) THEN LessOne(mem.win) ELSE mem.win
           /\ r.loss = IF c /\ Counts(v) THEN LessOne(mem.loss) ELSE mem.loss)
  BY <1>0, <1>1, ReplayedPlace
<1> HIDE DEF r
<1>5. Cooling(mem) =>
        /\ r.win = IF v # mem.verdict /\ Counts(v) THEN LessOne(mem.win) ELSE mem.win
        /\ r.loss = IF v # mem.verdict /\ Counts(v) THEN LessOne(mem.loss) ELSE mem.loss
  BY <1>1, <1>4
<1>6. Counted(mem, winFrom, lossFrom, feed) /\ Counted(saved.mem, winFrom, lossFrom, feed)
  BY DEF CoolInv
<1>7. Counted(r, winFrom, lossFrom, feed)
  BY <1>0, <1>3, <1>4, <1>5, <1>6, CountedNext
<1>8. Like(mem', r)
  BY <1>2, <1>4, ReconciledSame, SameLike
<1>9. UNCHANGED <<saved, feed, winFrom, lossFrom>>
  BY DEF ReplayBar, histVars
<1> QED
  BY <1>6, <1>7, <1>8, <1>9, CountedLike DEF CoolInv

\* The bar from which a cooldown counts that was x before the decision and is y after it, at bar b.
From(x, y, b, a) == IF y > x THEN b ELSE a

LEMMA BeganLeft ==
  ASSUME NEW count \in Nat, NEW a \in Nat, NEW b \in Nat \ {0}, NEW f, NEW y \in {0, count},
         LeftBy(count, a, b, f) = 0
  PROVE  y = LeftBy(count, From(0, y, b, a), b, f)
<1>1. CASE y > 0
  BY <1>1, LeftAtStart DEF From
<1>2. CASE ~(y > 0)
  BY <1>2 DEF From
<1> QED
  BY <1>1, <1>2

\* An outcome of a decision by which the cooldowns stay counted.
Priced(o) ==
  /\ Counted(o.mem, From(mem.win, o.mem.win, o.mem.at, winFrom),
                    From(mem.loss, o.mem.loss, o.mem.at, lossFrom), feed)
  /\ kind # "bar" /\ o.out = <<>> => Kept(o, mem)

LEMMA BeganPriced ==
  ASSUME NEW o, mem \in Memory, o.mem \in Memory, o.mem.at \in Nat \ {0}, Began(o, mem),
         ~Cooling(mem), winFrom \in Nat, lossFrom \in Nat,
         winFrom <= o.mem.at, lossFrom <= o.mem.at,
         LeftBy(WinCount, winFrom, o.mem.at, feed) = 0,
         LeftBy(LossCount, lossFrom, o.mem.at, feed) = 0
  PROVE  Priced(o)
<1> DEFINE n == o.mem
           wf == From(mem.win, n.win, n.at, winFrom)
           lf == From(mem.loss, n.loss, n.at, lossFrom)
<1>1. mem.win = 0 /\ mem.loss = 0 /\ n.win \in {0, WinCount} /\ n.loss \in {0, LossCount}
  BY UncoolBegan DEF Began
<1>2. n.win = LeftBy(WinCount, wf, n.at, feed)
  BY <1>1, BeganLeft, CountFacts
<1>3. n.loss = LeftBy(LossCount, lf, n.at, feed)
  BY <1>1, BeganLeft, CountFacts
<1>4. wf <= n.at /\ lf <= n.at
  BY DEF From
<1>5. o.out = <<>> => Kept(o, mem)
  BY DEF Began
<1> QED
  BY <1>2, <1>3, <1>4, <1>5 DEF Priced, Counted

\* No cooldown grows, and what is left is counted from where it began.
LEMMA SpentPriced ==
  ASSUME NEW o, mem \in Memory, o.mem \in Memory, Counted(o.mem, winFrom, lossFrom, feed),
         ~(o.mem.win > mem.win), ~(o.mem.loss > mem.loss),
         kind # "bar" /\ o.out = <<>> => Kept(o, mem)
  PROVE  Priced(o)
BY DEF Priced, From

LEMMA DecidedCounted ==
  ASSUME JInv, CoolInv, NEW v, NEW g, Decided(v, g), v.mem \in Memory,
         kind = "bar" \/ v.mem.at = mem.at, Priced(v)
  PROVE  CoolInv'
<1>0. mem.win \in Int /\ mem.loss \in Int
  BY PlaceFacts, CountFacts DEF JInv, Standing, Memory
<1>1. /\ mem' = v.mem /\ feed' = feed
      /\ due' = (kind = "bar" \/ g \/ fresh \/ v.out # <<>>)
      /\ saved' = IF due' THEN Snapshot(v.mem, g) ELSE saved
      /\ winFrom' = From(mem.win, v.mem.win, v.mem.at, winFrom)
      /\ lossFrom' = From(mem.loss, v.mem.loss, v.mem.at, lossFrom)
  BY DEF Decided, From
<1>2. Counted(mem', winFrom', lossFrom', feed')
  BY <1>1 DEF Priced
<1>3. CASE due'
  <2>1. saved'.mem = Durable(v.mem)
    BY <1>1, <1>3 DEF Snapshot
  <2>2. Like(saved'.mem, mem')
    BY <1>1, <2>1, DurableSame, SameLike
  <2> QED
    BY <1>2, <2>2, CountedLike DEF CoolInv
<1>4. CASE ~due'
  <2>1. kind # "bar" /\ v.out = <<>> /\ saved' = saved
    BY <1>1, <1>4
  <2>2. v.mem.win = mem.win /\ v.mem.loss = mem.loss
    BY <2>1 DEF Priced, Kept
  <2>3. winFrom' = winFrom /\ lossFrom' = lossFrom
    BY <1>0, <1>1, <2>2 DEF From
  <2> QED
    BY <1>1, <1>2, <2>1, <2>3 DEF CoolInv
<1> QED
  BY <1>3, <1>4

\* What a decision starts from.
LEMMA CoolFacts ==
  ASSUME JInv, CoolInv
  PROVE  /\ mem \in Memory /\ mem.at \in Nat \ {0} /\ winFrom \in Nat /\ lossFrom \in Nat
         /\ mem.win \in Nat /\ mem.loss \in Nat
         /\ winFrom <= mem.at /\ lossFrom <= mem.at /\ mirror \in Sides
         /\ Current(mem) /\ (mem.reset => ~Cooling(mem))
         /\ feed \in Seq(Verdicts) /\ mem.verdict = feed[mem.at] /\ Held(mem)
         /\ mem.win = LeftBy(WinCount, winFrom, mem.at, feed)
         /\ mem.loss = LeftBy(LossCount, lossFrom, mem.at, feed)
<1>1. /\ mem \in Memory /\ mem.at \in Nat \ {0} /\ winFrom \in Nat /\ lossFrom \in Nat
      /\ feed \in Seq(Verdicts) /\ mem.verdict = feed[mem.at] /\ mirror \in Sides
  BY PlaceFacts DEF JInv, Standing, IInv, TypeOK
<1>2. Current(mem) /\ (mem.reset => ~Cooling(mem)) /\ Held(mem)
  BY DEF JInv, IInv, MemoryInv, Trusted, Standing, HoldInv
<1>3. mem.win \in Nat /\ mem.loss \in Nat
  BY <1>1, CountFacts DEF Memory
<1> QED
  BY <1>1, <1>2, <1>3 DEF CoolInv, Counted

LEMMA MinutePriced ==
  ASSUME JInv, CoolInv, NEW result \in Results
  PROVE  LET o == Startup(mem, mirror, result)
         IN  o.mem \in Memory => o.mem.at = mem.at /\ Priced(o)
<1> DEFINE o == Startup(mem, mirror, result)
<1>1. /\ mem \in Memory /\ mem.at \in Nat \ {0} /\ winFrom \in Nat /\ lossFrom \in Nat
      /\ mem.win \in Nat /\ mem.loss \in Nat
      /\ winFrom <= mem.at /\ lossFrom <= mem.at
      /\ Current(mem) /\ mirror \in Sides
      /\ mem.win = LeftBy(WinCount, winFrom, mem.at, feed)
      /\ mem.loss = LeftBy(LossCount, lossFrom, mem.at, feed)
  BY CoolFacts
<1>2. Shape(o, mem, mirror) /\ Began(o, mem) /\ (Cooling(mem) => Kept(o, mem))
  BY <1>1, StartupShape
<1>3. o.mem.at = mem.at
  BY <1>2 DEF Shape, Placed
<1> HIDE DEF o
<1>4. ASSUME o.mem \in Memory PROVE Priced(o)
  <2>1. CASE Cooling(mem)
    <3>1. Like(o.mem, mem)
      BY <1>2, <1>3, <2>1 DEF Like, Kept
    <3>2. Counted(o.mem, winFrom, lossFrom, feed)
      BY <3>1, CountedLike DEF CoolInv
    <3>3. ~(o.mem.win > mem.win) /\ ~(o.mem.loss > mem.loss) /\ Kept(o, mem)
      BY <1>1, <1>2, <2>1 DEF Kept
    <3> QED
      BY <1>1, <1>4, <3>2, <3>3, SpentPriced
  <2>2. CASE ~Cooling(mem)
    <3>1. mem.win = 0 /\ mem.loss = 0
      BY <1>1, <2>2, UncoolBegan
    <3> QED
      BY <1>1, <1>2, <1>3, <1>4, <2>2, <3>1, BeganPriced
  <2> QED
    BY <2>1, <2>2
<1> QED
  BY <1>3, <1>4 DEF o

LEMMA BarPriced ==
  ASSUME JInv, CoolInv, NEW result \in Results, kind = "bar", Behind, Mode # "order_opportunity"
  PROVE  LET o == OnBar(mem, mirror, feed[mem.at + 1], result)
         IN  o.mem \in Memory => Priced(o)
<1> DEFINE v == feed[mem.at + 1]
           o == OnBar(mem, mirror, v, result)
<1>1. /\ mem \in Memory /\ mem.at \in Nat \ {0} /\ winFrom \in Nat /\ lossFrom \in Nat
      /\ mem.win \in Nat /\ mem.loss \in Nat
      /\ winFrom <= mem.at /\ lossFrom <= mem.at /\ mirror \in Sides
      /\ (mem.reset => ~Cooling(mem))
      /\ feed \in Seq(Verdicts) /\ mem.verdict = feed[mem.at] /\ Held(mem)
      /\ mem.win = LeftBy(WinCount, winFrom, mem.at, feed)
      /\ mem.loss = LeftBy(LossCount, lossFrom, mem.at, feed)
  BY CoolFacts
<1>2. v \in Verdicts
  BY <1>1 DEF Behind
<1>3. mem.hold # "none" => mirror = "none"
  BY DEF JInv, Standing, HoldInv
<1>4. v = feed[mem.at + 1]
  OBVIOUS
<1> HIDE DEF v
<1>5. /\ o.mem.at = mem.at + 1
      /\ (~Cooling(mem) => Began(o, mem))
      /\ (Cooling(mem) /\ ~mem.reset => Paid(o, mem, v # mem.verdict /\ Counts(v)))
  BY <1>1, <1>2, <1>3, OnBarShape
<1> HIDE DEF o
<1>6. ASSUME o.mem \in Memory PROVE Priced(o)
  <2>1. CASE Cooling(mem)
    <3>1. /\ o.mem.win = IF v # mem.verdict /\ Counts(v) THEN LessOne(mem.win) ELSE mem.win
          /\ o.mem.loss = IF v # mem.verdict /\ Counts(v) THEN LessOne(mem.loss) ELSE mem.loss
      BY <1>1, <1>5, <2>1 DEF Paid
    <3>2. Counted(mem, winFrom, lossFrom, feed)
      BY DEF CoolInv
    <3>3. Counted(o.mem, winFrom, lossFrom, feed)
      BY <1>1, <1>4, <1>5, <2>1, <3>1, <3>2, CountedNext
    <3>4. ~(o.mem.win > mem.win) /\ ~(o.mem.loss > mem.loss)
      BY <1>1, <3>1 DEF LessOne
    <3> QED
      BY <1>1, <1>6, <3>3, <3>4, SpentPriced
  <2>2. CASE ~Cooling(mem)
    <3>1. mem.win = 0 /\ mem.loss = 0
      BY <1>1, <2>2, UncoolBegan
    <3>2. LeftBy(WinCount, winFrom, mem.at + 1, feed) = 0
      <4>1. LeftBy(WinCount, winFrom, mem.at, feed) = 0
        BY <1>1, <3>1
      <4>2. WinCount \in Nat
        BY CountFacts
      <4>3. winFrom \in Nat /\ mem.at \in Nat /\ winFrom <= mem.at
        BY <1>1
      <4>4. LeftBy(WinCount, winFrom, mem.at + 1, feed) =
              IF feed[mem.at + 1] # feed[mem.at] /\ Counts(feed[mem.at + 1])
              THEN LessOne(LeftBy(WinCount, winFrom, mem.at, feed)) ELSE LeftBy(WinCount, winFrom, mem.at, feed)
        BY <4>2, <4>3, LeftNext
      <4>5. LessOne(LeftBy(WinCount, winFrom, mem.at, feed)) = 0
        BY <4>1 DEF LessOne
      <4> QED
        BY <4>1, <4>4, <4>5
    <3>3. LeftBy(LossCount, lossFrom, mem.at + 1, feed) = 0
      <4>1. LeftBy(LossCount, lossFrom, mem.at, feed) = 0
        BY <1>1, <3>1
      <4>2. LossCount \in Nat
        BY CountFacts
      <4>3. lossFrom \in Nat /\ mem.at \in Nat /\ lossFrom <= mem.at
        BY <1>1
      <4>4. LeftBy(LossCount, lossFrom, mem.at + 1, feed) =
              IF feed[mem.at + 1] # feed[mem.at] /\ Counts(feed[mem.at + 1])
              THEN LessOne(LeftBy(LossCount, lossFrom, mem.at, feed)) ELSE LeftBy(LossCount, lossFrom, mem.at, feed)
        BY <4>2, <4>3, LeftNext
      <4>5. LessOne(LeftBy(LossCount, lossFrom, mem.at, feed)) = 0
        BY <4>1 DEF LessOne
      <4> QED
        BY <4>1, <4>4, <4>5
    <3>4. winFrom <= mem.at + 1 /\ lossFrom <= mem.at + 1 /\ mem.at + 1 \in Nat \ {0}
      BY <1>1
    <3> QED
      BY <1>1, <1>5, <1>6, <2>2, <3>2, <3>3, <3>4, BeganPriced
  <2> QED
    BY <2>1, <2>2
<1> QED
  BY <1>6 DEF o, v

LEMMA DecideCounted ==
  ASSUME JInv, CoolInv, Decide, Mode # "order_opportunity"
  PROVE  CoolInv'
<1>0. pc = "decide" /\ gap \in BOOLEAN /\ IInv /\ Standing /\ FreshInv /\ ChargeInv
  BY DEF Decide, DecideMinute, DecideBar, SkipBar, Decided, JInv, IInv, TypeOK
<1>1. ASSUME NEW hole \in BOOLEAN, NEW result \in Results, DecideMinute(hole, result)
      PROVE  CoolInv'
  <2> DEFINE o == Startup(mem, mirror, result)
             g == gap \/ hole
  <2>1. Decided(o, g) /\ kind = "minute" /\ g \in BOOLEAN /\ (gap => g)
    BY <1>0, <1>1 DEF DecideMinute
  <2> HIDE DEF g
  <2>2. o.mem \in Memory
    BY <1>0, <2>1, MinuteDecision DEF Decision
  <2>3. o.mem.at = mem.at /\ Priced(o)
    BY <2>2, MinutePriced
  <2> HIDE DEF o
  <2> QED
    BY <2>1, <2>2, <2>3, DecidedCounted
<1>2. ASSUME NEW result \in Results, DecideBar(result)
      PROVE  CoolInv'
  <2> DEFINE o == OnBar(mem, mirror, feed[mem.at + 1], result)
  <2>1. Decided(o, FALSE) /\ kind = "bar" /\ ~gap /\ Behind
    BY <1>2 DEF DecideBar
  <2>2. o.mem \in Memory
    BY <1>0, <2>1, BarDecision DEF Decision
  <2>3. Priced(o)
    BY <2>1, <2>2, BarPriced
  <2> HIDE DEF o
  <2> QED
    BY <2>1, <2>2, <2>3, DecidedCounted
<1>3. CASE SkipBar
  <2> DEFINE o == Outcome(mem, mirror, <<>>)
  <2>1. Decided(o, TRUE) /\ kind = "bar"
    BY <1>3 DEF SkipBar
  <2>2. mem \in Memory /\ mem.win \in Nat /\ mem.loss \in Nat
    BY CoolFacts
  <2>3. o.mem = mem
    BY <2>2, OutcomeShape
  <2> HIDE DEF o
  <2>4. Counted(o.mem, winFrom, lossFrom, feed)
    BY <2>3 DEF CoolInv
  <2>5. Priced(o)
    BY <2>1, <2>2, <2>3, <2>4, SpentPriced
  <2> QED
    BY <2>1, <2>2, <2>3, <2>5, DecidedCounted
<1> QED
  BY <1>1, <1>2, <1>3 DEF Decide

LEMMA InitCounted == Init => CoolInv
<1> SUFFICES ASSUME Init PROVE CoolInv
  OBVIOUS
<1>1. PICK u \in Verdicts : \E h \in {"none"} \cup ({u} \ {"FLAT"}) :
        /\ feed = <<u>>
        /\ mem = [at |-> 1, verdict |-> u, win |-> 0, loss |-> 0, pending |-> "none",
                  hold |-> h, reset |-> FALSE, restart |-> FALSE, startup |-> FALSE]
  BY DEF Init
<1>2. mem.at = 1 /\ mem.win = 0 /\ mem.loss = 0 /\ winFrom = 0 /\ lossFrom = 0
  BY <1>1 DEF Init
<1>3. mem \in Memory
  BY InitInv DEF IInv, TypeOK
<1>4. saved.mem = Durable(mem)
  BY DEF Init, Snapshot
<1>5. Counted(mem, winFrom, lossFrom, feed)
  BY <1>2, LeftOfNone DEF Counted
<1>6. Like(saved.mem, mem)
  BY <1>3, <1>4, DurableSame, SameLike
<1> QED
  BY <1>5, <1>6, CountedLike DEF CoolInv

LEMMA NextCounted ==
  ASSUME Mode # "order_opportunity"
  PROVE  JInv /\ CoolInv /\ [Next]_vars => CoolInv'
<1> SUFFICES ASSUME JInv, CoolInv, [Next]_vars PROVE CoolInv'
  OBVIOUS
<1>1. CASE Restart
  BY <1>1, RestartCounted
<1>2. CASE ReplayBar
  BY <1>2, ReplayBarCounted
<1>3. CASE Deliver
  BY <1>3, DeliverCounted
<1>4. CASE Decide
  BY <1>4, DecideCounted
<1>5. ASSUME NEW c \in {"manual", "liquidated"}, Classify(c) PROVE CoolInv'
  BY <1>5, ClassifyCounted
<1> QED
  BY <1>1, <1>2, <1>3, <1>4, <1>5, QuietCounted

LEMMA LeftIsLeftBy ==
  ASSUME NEW count, NEW from
  PROVE  Left(count, from) = LeftBy(count, from, mem.at, feed)
<1>1. Spending(from, mem.at) = Used(from, mem.at, feed)
  BY DEF Spending, Used, Spenders, Counts
<1> QED
  BY <1>1 DEF Left, LeftBy

\* What the strategy remembers is right: its cooldowns have what the feed has left them, through
\* crashes and replays (_consume_cooldown, last_bar_ts), and a position against the verdict
\* is in somebody's charge.  In the mode order_opportunity a change spends a slot only where an
\* order would follow, which the side decides and not the feed: there the count says nothing.
THEOREM MemoryIsAlwaysRight ==
  ASSUME Mode # "order_opportunity"
  PROVE  Spec => []MemoryIsRight
<1>1. JInv /\ CoolInv => MemoryIsRight
  <2> SUFFICES ASSUME JInv, CoolInv PROVE MemoryIsRight
    OBVIOUS
  <2>1. CooldownMatchesFeed
    BY CoolFacts, LeftIsLeftBy DEF CooldownMatchesFeed
  <2>2. OpposedIsObligated
    BY DEF JInv, ChargeInv, OpposedIsObligated
  <2> QED
    BY <2>1, <2>2 DEF MemoryIsRight
<1>2. JInv /\ CoolInv /\ [Next]_vars => CoolInv'
  BY NextCounted
<1> QED
  BY <1>1, <1>2, InitCounted, StandingInvariance, PTL DEF Spec

\* A position against the verdict is in somebody's charge, in every mode (_restart_catch_up,
\* _reconcile_startup_positions, _pending_exits).
THEOREM OpposedIsAlwaysObligated == Spec => []OpposedIsObligated
<1>1. JInv => OpposedIsObligated
  BY DEF JInv, ChargeInv, OpposedIsObligated
<1> QED
  BY <1>1, StandingInvariance, PTL

=============================================================================
