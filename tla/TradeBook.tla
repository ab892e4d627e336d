----------------------------- MODULE TradeBook -----------------------------
(***************************************************************************)
(* What live execution promises its owner, without venue, network, process *)
(* or crash: a book of decisions and of the trades they lead to.           *)
(*   - a decision is committed before it can have any effect, and never    *)
(*     while an earlier one is unresolved or its slot holds an open trade; *)
(*   - it ends booked, with one trade, or refused, and stays so;           *)
(*   - a trade is opened once and closed once;                             *)
(*   - a strategy is told of a closed trade at most once.                  *)
(***************************************************************************)
CONSTANTS Slots, Trades, Decisions, DecisionSlot, NoSlot

VARIABLES
  stage,   \* "new", "committed", "booked" or "refused", per decision
  book,    \* "none", "open" or "closed", per trade
  keeper,  \* the slot a trade was booked for
  told     \* closed trades the strategies have been told of

bookVars == <<stage, book, keeper, told>>

BookTypeOK ==
  /\ stage \in [Decisions -> {"new", "committed", "booked", "refused"}]
  /\ book \in [Trades -> {"none", "open", "closed"}]
  /\ keeper \in [Trades -> Slots \cup {NoSlot}]
  /\ told \in SUBSET Trades

BookInit ==
  /\ stage = [d \in Decisions |-> "new"]
  /\ book = [t \in Trades |-> "none"]
  /\ keeper = [t \in Trades |-> NoSlot]
  /\ told = {}

Commit(d) ==
  /\ stage[d] = "new"
  /\ \A e \in Decisions : stage[e] # "committed"
  /\ \A t \in Trades : book[t] = "open" => keeper[t] # DecisionSlot[d]
  /\ stage' = [stage EXCEPT ![d] = "committed"]
  /\ UNCHANGED <<book, keeper, told>>

Refuse(d) ==
  /\ stage[d] = "committed"
  /\ stage' = [stage EXCEPT ![d] = "refused"]
  /\ UNCHANGED <<book, keeper, told>>

Open(d, t) ==
  /\ stage[d] = "committed"
  /\ book[t] = "none"
  /\ stage' = [stage EXCEPT ![d] = "booked"]
  /\ book' = [book EXCEPT ![t] = "open"]
  /\ keeper' = [keeper EXCEPT ![t] = DecisionSlot[d]]
  /\ UNCHANGED told

Close(t) ==
  /\ book[t] = "open"
  /\ book' = [book EXCEPT ![t] = "closed"]
  /\ UNCHANGED <<stage, keeper, told>>

Tell(T) ==
  /\ T # {}
  /\ \A t \in T : book[t] = "closed" /\ t \notin told
  /\ told' = told \cup T
  /\ UNCHANGED <<stage, book, keeper>>

BookNext ==
  \/ \E d \in Decisions : Commit(d) \/ Refuse(d)
  \/ \E d \in Decisions, t \in Trades : Open(d, t)
  \/ \E t \in Trades : Close(t)
  \/ \E T \in SUBSET Trades : Tell(T)

BookSpec == BookInit /\ [][BookNext]_bookVars

=============================================================================
