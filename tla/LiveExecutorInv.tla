-------------------------- MODULE LiveExecutorInv --------------------------
(***************************************************************************)
(* The inductive invariant behind the safety properties of LiveExecutor.   *)
(* Each part is true of every reachable state; together, with TypeOK, they *)
(* are preserved by every step, which the properties alone are not.        *)
(***************************************************************************)
EXTENDS LiveExecutor

Sent(d) == entryCmd[d] \in {"submitted", "received"}

\* The steps that carry a close or an accepted entry carry a trade, and the
\* loop over venue-side closes has only held trades left.
CarryingStages == {"exit_wait", "exit_result", "exit_apply", "close_result",
                   "close_apply", "entry_result", "entry_apply"}
ScratchOK ==
  /\ pc \in CarryingStages => ct \in Trades
  /\ pc \in {"closing", "close_result", "close_apply"} => \A s \in todo : pos[s] \in Trades
  /\ pc \in {"close_result", "close_apply"} => cur \notin todo

TypeInv == TypeOK /\ ScratchOK

\* A decision reaches the venue at most once, and only under its command.
EntryInv ==
  /\ \A d \in Decisions : entryWire[d] <= 1
  /\ \A t \in Trades : origin[t] = NoDecision <=> venue[t] = "none"
  /\ \A t \in Trades : Ours(t) =>
       entryWire[origin[t]] = 0 /\ entryCmd[origin[t]] \notin {"none", "rejected"}
  /\ \A d \in Decisions :
       entryCmd[d] \in {"none", "rejected", "received", "applied"} => entryWire[d] = 0
  /\ \A d1, d2 \in Decisions : Sent(d1) /\ Sent(d2) => d1 = d2
  /\ \A d \in Decisions : entryCmd[d] \in {"received", "applied"} =>
       entryTrade[d] \in Trades /\ origin[entryTrade[d]] = d
  /\ \A d \in Decisions : Sent(d) =>
       \A t \in Trades : rows[t] = OpenOnly => holder[t] # DecisionSlot[d]

\* The rows of a trade say what its two commands say.
RowInv ==
  /\ \A t \in Trades : rows[t] # <<>> =>
       /\ Ours(t)
       /\ entryCmd[origin[t]] = "applied"
       /\ entryTrade[origin[t]] = t
       /\ holder[t] = DecisionSlot[origin[t]]
  /\ \A d \in Decisions : entryCmd[d] = "applied" => rows[entryTrade[d]] # <<>>
  /\ \A t \in Trades : closeCmd[t] = "applied" <=> rows[t] = OpenClose
  /\ \A t \in Trades : closeCmd[t] \in {"submitted", "received"} => rows[t] = OpenOnly
  /\ \A t1, t2 \in Trades :
       rows[t1] = OpenOnly /\ rows[t2] = OpenOnly /\ holder[t1] = holder[t2] => t1 = t2

\* A result is on its way to the rows only while some step carries it there.
ReceivedInv ==
  /\ \A d \in Decisions : entryCmd[d] = "received" =>
       pc \in {"down", "boot"} \/ (pc = "entry_apply" /\ want = d)
  /\ \A t \in Trades : closeCmd[t] = "received" =>
       pc \in {"down", "boot"} \/ (pc \in {"exit_apply", "close_apply"} /\ ct = t)

\* Memory against rows, slot by slot; InBooking is the accepted close that
\* memory has let go of and the rows have not.
InBooking(s) == pc \in {"exit_result", "exit_apply"} /\ cur = s
MemoryInv ==
  pc \notin {"down", "boot"} =>
    \A s \in Slots, t \in Trades :
      (rows[t] = OpenOnly /\ holder[t] = s) <=>
        (IF InBooking(s) THEN t = ct ELSE t = pos[s])
OwedInv ==
  /\ \A s \in Slots : owed[s] # NoTrade => owed[s] = pos[s]
  /\ pc \in {"down", "boot"} => pos = Cleared

\* Where the task is tells what it is about.
ExitInv ==
  /\ pc = "exit_wait" =>
       /\ cur \in Slots /\ ct \in Trades /\ pos[cur] = ct
       /\ closeCmd[ct] = "submitted"
       /\ reply = "done" => venue[ct] = "closed"
       /\ back \in {"retry", "strategy", "entry"}
  /\ pc \in {"exit_result", "exit_apply"} =>
       /\ cur \in Slots /\ ct \in Trades /\ pos[cur] = NoTrade
       /\ venue[ct] = "closed"
       /\ closeCmd[ct] = IF pc = "exit_result" THEN "submitted" ELSE "received"
       /\ back \in {"retry", "strategy", "entry"}
  /\ (pc \in {"exit_wait", "exit_result", "exit_apply"} /\ back = "entry") =>
       want \in Decisions /\ cur = DecisionSlot[want]
  /\ pc \in {"closing", "close_result", "close_apply"} =>
       \A s \in todo : pos[s] \in Trades /\ venue[pos[s]] = "closed"
  /\ pc \in {"close_result", "close_apply"} =>
       /\ cur \in Slots /\ ct \in Trades /\ pos[cur] = ct /\ cur \notin todo
       /\ venue[ct] = "closed"
       /\ closeCmd[ct] = IF pc = "close_result" THEN "submitted" ELSE "received"

EntryStageInv ==
  /\ pc \in {"entry_inventory", "entry_decide", "entry_wait", "entry_result",
             "entry_apply"} =>
       want \in Decisions /\ pos[DecisionSlot[want]] = NoTrade
  /\ pc = "entry_wait" =>
       /\ entryCmd[want] = "submitted"
       /\ reply = "refused" => entryWire[want] = 0 /\ \A t \in Trades : origin[t] # want
  /\ pc \in {"entry_result", "entry_apply"} =>
       /\ ct \in Trades /\ origin[ct] = want
       /\ entryCmd[want] = IF pc = "entry_result" THEN "submitted" ELSE "received"
       /\ pc = "entry_apply" => entryTrade[want] = ct

\* What is closed in the books is closed at the venue, and folded into the
\* strategy's state exactly when acknowledged.
CloseInv ==
  /\ \A t \in Trades : closeCmd[t] \in {"received", "applied"} => venue[t] = "closed"
  /\ heard = saved
  /\ \A t \in Trades : saved[t] = IF t \in external \cap notified THEN 1 ELSE 0
  /\ \A t \in Trades : t \in external => closeCmd[t] \in {"received", "applied"}
  /\ \A t \in Trades : t \in notified => closeCmd[t] = "applied"

\* A close the process knows to be accepted is out of reach: booked, being
\* booked, or held as missing with its command begun.
AckedInv ==
  \A t \in acked :
    /\ venue[t] = "closed"
    /\ closeCmd[t] # "none"
    /\ t \in Held => t \in missing

LedgerInv == BookedOnce /\ OneTradePerDecision /\ EntryInv /\ RowInv
FlowInv == ReceivedInv /\ MemoryInv /\ OwedInv /\ ExitInv /\ EntryStageInv
BooksInv == CloseInv /\ AckedInv

IInv == TypeInv /\ LedgerInv /\ FlowInv /\ BooksInv

=============================================================================
