------------------------ MODULE LiveExecutor_proofs ------------------------
(***************************************************************************)
(* Machine-checked proofs about LiveExecutor, for every set of slots,      *)
(* trades and decisions: type correctness, that every action preserves the *)
(* inductive invariant IInv, part by part, and what IInv gives: the safety *)
(* properties, the action property about accepted closes, and the          *)
(* implementation of TradeBook.                                            *)
(***************************************************************************)
EXTENDS LiveExecutorInv, SequenceTheorems, TLAPS

USE DecisionSlotType, NoTradeIsNone, NoSlotIsNone, DecisionSideType, OwnerOfType,
    BoundSlotsType, NoDecisionIsNone

-----------------------------------------------------------------------------
(* Type correctness.                                                       *)

LEMMA RestoredType ==
  ASSUME NEW s \in Slots
  PROVE  Restored(s) \in Trades \cup {NoTrade}
BY DEF Restored, OpenIn, LocallyOpen

LEMMA RowsType ==
  ASSUME rows \in [Trades -> Seq({"open", "close"})], NEW t, NEW a \in {"open", "close"}
  PROVE  [rows EXCEPT ![t] = Append(@, a)] \in [Trades -> Seq({"open", "close"})]
BY AppendProperties

LEMMA WireType ==
  ASSUME NEW wire \in [Decisions -> Nat], NEW d
  PROVE  [wire EXCEPT ![d] = @ + 1] \in [Decisions -> Nat]
<1>1. CASE d \in Decisions
  BY <1>1
<1>2. CASE d \notin Decisions
  <2>1. [wire EXCEPT ![d] = @ + 1] = wire
    BY <1>2
  <2>2. QED
    BY <2>1
<1>3. QED
  BY <1>1, <1>2

LEMMA HeldType == TypeOK => Held \subseteq Trades
BY DEF TypeOK, Held

LEMMA TypeVenue == TypeInv /\ Venue => TypeInv'
<1> SUFFICES ASSUME TypeInv, Venue PROVE TypeInv'
  OBVIOUS
<1> USE DEF TypeInv, ScratchOK, CarryingStages, TypeOK, LedgerTypeOK, ledgerVars, memVars, flowVars
<1>1. ASSUME NEW d \in Decisions, NEW t \in Trades, VenueOpens(d, t) PROVE TypeInv'
  BY <1>1 DEF VenueOpens
<1>2. ASSUME NEW d \in Decisions, VenueRefusesEntry(d) PROVE TypeInv'
  BY <1>2 DEF VenueRefusesEntry
<1>3. ASSUME NEW t \in Trades, VenueCloses(t) PROVE TypeInv'
  BY <1>3 DEF VenueCloses
<1>4. ASSUME NEW t \in Trades, CloseRequestLost(t) PROVE TypeInv'
  BY <1>4 DEF CloseRequestLost
<1>5. ASSUME NEW t \in Trades, VenueClosesAlone(t) PROVE TypeInv'
  BY <1>5 DEF VenueClosesAlone
<1>6. ASSUME NEW t \in Trades, ManualOpen(t) PROVE TypeInv'
  BY <1>6 DEF ManualOpen
<1>7. QED
  BY <1>1, <1>2, <1>3, <1>4, <1>5, <1>6 DEF Venue

LEMMA TypeStartup == TypeInv /\ Startup => TypeInv'
<1> SUFFICES ASSUME TypeInv, Startup PROVE TypeInv'
  OBVIOUS
<1> USE DEF TypeInv, ScratchOK, CarryingStages, TypeOK, LedgerTypeOK, ledgerVars, venueVars, memVars, flowVars, Status, Stages
<1>1. ASSUME Restart PROVE TypeInv'
  BY <1>1 DEF Restart, Goto
<1>2. ASSUME NEW d \in Decisions, BootApplyEntry(d) PROVE TypeInv'
  BY <1>2, RowsType DEF BootApplyEntry, ApplyEntry, ReceivedEntries
<1>3. ASSUME NEW t \in Trades, BootApplyClose(t) PROVE TypeInv'
  BY <1>3, RowsType DEF BootApplyClose, ApplyClose
<1>4. ASSUME BootRestore PROVE TypeInv'
  BY <1>4, RestoredType DEF BootRestore, LocallyOpen, Running
<1>5. QED
  BY <1>1, <1>2, <1>3, <1>4 DEF Startup

LEMMA TypeReconcile == TypeInv /\ Reconcile => TypeInv'
<1> SUFFICES ASSUME TypeInv, Reconcile PROVE TypeInv'
  OBVIOUS
<1> USE DEF TypeInv, ScratchOK, CarryingStages, TypeOK, LedgerTypeOK, ledgerVars, venueVars, memVars, flowVars, Status, Stages
<1>1. ASSUME MinuteBar PROVE TypeInv'
  BY <1>1 DEF MinuteBar, Goto
<1>2. ASSUME HigherBar PROVE TypeInv'
  BY <1>2 DEF HigherBar, Return, Owed
<1>3. ASSUME InventoryFails PROVE TypeInv'
  BY <1>3 DEF InventoryFails, Goto
<1>4. ASSUME InventoryRead PROVE TypeInv'
  BY ZenonT(30), <1>4, HeldType DEF InventoryRead, Goto, Running
<1>5. ASSUME HistoryFails PROVE TypeInv'
  BY <1>5 DEF HistoryFails, Goto
<1>6. ASSUME NEW listed \in SUBSET Trades, HistoryRead(listed) PROVE TypeInv'
  BY <1>6 DEF HistoryRead
<1>7. ASSUME NEW s \in Slots, ExternalBegin(s) PROVE TypeInv'
  BY <1>7 DEF ExternalBegin, BeginClose
<1>8. ASSUME ExternalResult PROVE TypeInv'
  BY <1>8 DEF ExternalResult, CloseResult, Goto
<1>9. ASSUME ExternalApply PROVE TypeInv'
  BY <1>9, RowsType DEF ExternalApply, ApplyClose, Return
<1>10. ASSUME ExternalDone PROVE TypeInv'
  BY <1>10 DEF ExternalDone, Goto
<1>11. ASSUME NEW o \in Owners, DeliverTo(o) PROVE TypeInv'
  BY SMTT(30), <1>11 DEF DeliverTo, AcknowledgeCloses, EventsOf, OwnedBy, PendingExternalEvents
<1>12. ASSUME DeliveryDone PROVE TypeInv'
  BY <1>12 DEF DeliveryDone, Return, Owed
<1>13. QED
  BY <1>1, <1>2, <1>3, <1>4, <1>5, <1>6, <1>7, <1>8, <1>9, <1>10, <1>11, <1>12 DEF Reconcile

LEMMA TypeExit == TypeInv /\ Exit => TypeInv'
<1> SUFFICES ASSUME TypeInv, Exit PROVE TypeInv'
  OBVIOUS
<1> USE DEF TypeInv, ScratchOK, CarryingStages, TypeOK, LedgerTypeOK, ledgerVars, venueVars, memVars, flowVars, Status, Stages
<1>1. ASSUME ExitFails PROVE TypeInv'
  BY <1>1 DEF ExitFails, AfterExit, Return
<1>2. ASSUME ExitAnswerLost PROVE TypeInv'
  BY <1>2 DEF ExitAnswerLost, AfterExit, Return
<1>3. ASSUME ExitAccepted PROVE TypeInv'
  BY <1>3 DEF ExitAccepted, Goto
<1>4. ASSUME ExitResult PROVE TypeInv'
  BY <1>4 DEF ExitResult, CloseResult, Goto
<1>5. ASSUME ExitApply PROVE TypeInv'
  BY <1>5, RowsType DEF ExitApply, ApplyClose, AfterExit, Return
<1>6. ASSUME NEW s \in Slots, RetrySkips(s) PROVE TypeInv'
  BY <1>6 DEF RetrySkips, Return
<1>7. ASSUME NEW s \in Slots, RetryExit(s) PROVE TypeInv'
  BY <1>7 DEF RetryExit, ExitStart, BeginClose
<1>8. ASSUME NEW s \in Slots, SubmitExit(s) PROVE TypeInv'
  BY <1>8 DEF SubmitExit, ExitStart, BeginClose
<1>9. ASSUME RetryDone PROVE TypeInv'
  BY <1>9 DEF RetryDone, Goto
<1>10. ASSUME BarEnds PROVE TypeInv'
  BY <1>10 DEF BarEnds, Return
<1>11. QED
  BY <1>1, <1>2, <1>3, <1>4, <1>5, <1>6, <1>7, <1>8, <1>9, <1>10 DEF Exit

LEMMA TypeEntry == TypeInv /\ Entry => TypeInv'
<1> SUFFICES ASSUME TypeInv, Entry PROVE TypeInv'
  OBVIOUS
<1> USE DEF TypeInv, ScratchOK, CarryingStages, TypeOK, LedgerTypeOK, ledgerVars, venueVars, memVars, flowVars, Status, Stages
<1>1. ASSUME NEW d \in Decisions, SubmitFlip(d) PROVE TypeInv'
  BY <1>1 DEF SubmitFlip, ExitStart, BeginClose
<1>2. ASSUME NEW d \in Decisions, SubmitEntry(d) PROVE TypeInv'
  BY <1>2 DEF SubmitEntry
<1>3. ASSUME EntryInventoryRead PROVE TypeInv'
  BY <1>3 DEF EntryInventoryRead, Running
<1>4. ASSUME EntryInventoryFails PROVE TypeInv'
  BY <1>4 DEF EntryInventoryFails, Return
<1>5. ASSUME EntryNotSent PROVE TypeInv'
  BY <1>5 DEF EntryNotSent, Return, Held
<1>6. ASSUME EntrySent PROVE TypeInv'
  <2>1. unknown' \in SUBSET Trades
    BY <1>6 DEF EntrySent
  <2>2. entryWire' \in [Decisions -> Nat]
    BY <1>6, WireType DEF EntrySent
  <2>3. entryCmd' \in [Decisions -> Status]
    BY <1>6 DEF EntrySent, BeginEntry
  <2>4. QED
    BY <1>6, <2>1, <2>2, <2>3 DEF EntrySent, BeginEntry
<1>7. ASSUME EntryRefused PROVE TypeInv'
  BY <1>7 DEF EntryRefused, RejectEntry, Return
<1>8. ASSUME EntryUnresolved PROVE TypeInv'
  BY <1>8 DEF EntryUnresolved, Return
<1>9. ASSUME NEW t \in Trades, EntryAccepted(t) PROVE TypeInv'
  BY <1>9 DEF EntryAccepted
<1>10. ASSUME EntryResultCommit PROVE TypeInv'
  BY ZenonT(30), <1>10 DEF EntryResultCommit, EntryResult, Goto
<1>11. ASSUME EntryApplyCommit PROVE TypeInv'
  BY <1>11, RowsType DEF EntryApplyCommit, ApplyEntry, Return
<1>12. QED
  BY <1>1, <1>2, <1>3, <1>4, <1>5, <1>6, <1>7, <1>8, <1>9, <1>10, <1>11 DEF Entry

LEMMA TypeCrash == TypeInv /\ Crash => TypeInv'
<1> SUFFICES ASSUME TypeInv, Crash PROVE TypeInv'
  OBVIOUS
<1>1. LedgerTypeOK' /\ UNCHANGED <<venueVars, saved, acked>>
  BY DEF TypeInv, TypeOK, LedgerTypeOK, ledgerVars, Crash
<1>2. /\ pos' \in [Slots -> Trades \cup {NoTrade}]
      /\ owed' \in [Slots -> Trades \cup {NoTrade}]
      /\ missing' = {} /\ unknown' = {} /\ invDown' = FALSE
      /\ heard' = saved /\ reply' = "none"
  BY DEF Crash, Cleared
<1>3. /\ pc' = "down" /\ cur' = NoSlot /\ ct' = NoTrade /\ want' = NoDecision
      /\ back' = "none" /\ todo' = {} /\ seen' = {}
  BY DEF Crash, Return
<1>4. TypeOK'
  BY <1>1, <1>2, <1>3 DEF TypeInv, TypeOK, venueVars, Stages
<1>5. QED
  BY <1>3, <1>4 DEF TypeInv, ScratchOK, CarryingStages

LEMMA InitTypeInv == Init => TypeInv
<1>1. <<>> \in Seq({"open", "close"})
  BY EmptySeq
<1>2. Init => LedgerTypeOK
  BY <1>1 DEF Init, LedgerInit, LedgerTypeOK, Status
<1>3. Init => ScratchOK
  BY DEF Init, ScratchOK, CarryingStages
<1>4. Init => /\ venue \in [Trades -> {"none", "running", "closed"}]
              /\ origin \in [Trades -> Decisions \cup {NoDecision, Manual}]
              /\ entryWire \in [Decisions -> Nat]
  BY DEF Init
<1>5. Init => /\ pos \in [Slots -> Trades \cup {NoTrade}]
              /\ owed \in [Slots -> Trades \cup {NoTrade}]
              /\ heard \in [Trades -> Nat]
              /\ saved \in [Trades -> Nat]
  BY DEF Init, Cleared
<1>6. Init => /\ pc \in Stages
              /\ cur \in Slots \cup {NoSlot}
              /\ ct \in Trades \cup {NoTrade}
              /\ want \in Decisions \cup {NoDecision}
              /\ back \in {"none", "idle", "retry", "strategy", "entry"}
  BY DEF Init, Stages
<1>7. Init => /\ closeWire \in SUBSET Trades /\ missing \in SUBSET Trades
              /\ unknown \in SUBSET Trades /\ todo \in SUBSET Slots
              /\ seen \in SUBSET Trades /\ acked \in SUBSET Trades
              /\ invDown \in BOOLEAN /\ reply \in {"none", "done", "refused"}
  BY DEF Init
<1>8. QED
  BY <1>2, <1>3, <1>4, <1>5, <1>6, <1>7 DEF TypeInv, TypeOK

LEMMA NextTypeInv == TypeInv /\ [Next]_vars => TypeInv'
<1> SUFFICES ASSUME TypeInv, [Next]_vars PROVE TypeInv'
  OBVIOUS
<1>1. CASE Next
  BY <1>1, TypeVenue, TypeCrash, TypeStartup, TypeReconcile, TypeExit, TypeEntry DEF Next
<1>2. CASE UNCHANGED vars
  BY <1>2 DEF vars, ledgerVars, venueVars, memVars, flowVars, TypeInv, ScratchOK,
               TypeOK, LedgerTypeOK
<1>3. QED
  BY <1>1, <1>2

\* Every variable keeps its type through every step, the crash included.
THEOREM TypeCorrect == Spec => []TypeOK
<1>1. TypeInv => TypeOK
  BY DEF TypeInv
<1>2. QED
  BY <1>1, InitTypeInv, NextTypeInv, PTL DEF Spec

-----------------------------------------------------------------------------
(* Preservation of IInv.                                                   *)

LEMMA AppendClose == Append(<<"open">>, "close") = <<"open", "close">>
<1>1. <<"open">> \in Seq({"open", "close"}) /\ Len(<<"open">>) = 1
  OBVIOUS
<1>2. /\ Append(<<"open">>, "close") \in Seq({"open", "close"})
      /\ Len(Append(<<"open">>, "close")) = 2
      /\ Append(<<"open">>, "close")[1] = "open"
      /\ Append(<<"open">>, "close")[2] = "close"
  BY <1>1, AppendProperties
<1>3. <<"open", "close">> \in Seq({"open", "close"}) /\ Len(<<"open", "close">>) = 2
  OBVIOUS
<1>4. \A i \in 1..2 : Append(<<"open">>, "close")[i] = <<"open", "close">>[i]
  BY <1>2
<1>5. QED
  BY <1>2, <1>3, <1>4, SeqEqual

LEMMA RowValues ==
  /\ OpenOnly # <<>> /\ OpenClose # <<>> /\ OpenOnly # OpenClose
  /\ Append(<<>>, "open") = OpenOnly
  /\ Append(OpenOnly, "close") = OpenClose
<1>1. Len(OpenOnly) = 1 /\ Len(OpenClose) = 2 /\ Len(<<>>) = 0
  BY DEF OpenOnly, OpenClose
<1>2. Append(<<>>, "open") = OpenOnly
  BY DEF OpenOnly
<1>3. Append(OpenOnly, "close") = OpenClose
  BY AppendClose DEF OpenOnly, OpenClose
<1>4. QED
  BY <1>1, <1>2, <1>3

LEMMA OpenRows ==
  ASSUME BookedOnce, NEW t \in Trades
  PROVE  t \in LocallyOpen <=> rows[t] = OpenOnly
<1>1. Len(OpenOnly) = 1 /\ OpenOnly[1] = "open"
  BY DEF OpenOnly
<1>2. Len(OpenClose) = 2 /\ OpenClose[2] = "close"
  BY DEF OpenClose
<1>3. QED
  BY <1>1, <1>2, RowValues DEF BookedOnce, LocallyOpen

-----------------------------------------------------------------------------
(* What the recorder's operations do to the ledger's part of the invariant. *)

LEMMA LedgerFrame ==
  ASSUME TypeInv, LedgerInv, UNCHANGED ledgerVars, UNCHANGED <<origin, entryWire>>,
         \A t \in Trades : venue'[t] = "none" <=> venue[t] = "none"
  PROVE  LedgerInv'
BY DEF LedgerInv, BookedOnce, OneTradePerDecision, EntryInv, RowInv, Ours, Sent, ledgerVars

LEMMA BeginCloseLedger ==
  ASSUME TypeInv, LedgerInv, NEW t \in Trades, BeginClose(t), rows[t] = OpenOnly,
         UNCHANGED <<venue, origin, entryWire>>
  PROVE  LedgerInv'
BY RowValues DEF TypeInv, TypeOK, LedgerTypeOK, LedgerInv, BookedOnce, OneTradePerDecision, EntryInv,
     RowInv, Ours, Sent, BeginClose

LEMMA CloseResultLedger ==
  ASSUME TypeInv, LedgerInv, NEW t \in Trades, NEW v \in BOOLEAN, CloseResult(t, v),
         closeCmd[t] = "submitted", UNCHANGED <<venue, origin, entryWire>>
  PROVE  LedgerInv'
BY RowValues DEF TypeInv, TypeOK, LedgerTypeOK, LedgerInv, BookedOnce, OneTradePerDecision, EntryInv,
     RowInv, Ours, Sent, CloseResult

LEMMA ApplyCloseLedger ==
  ASSUME TypeInv, LedgerInv, NEW t \in Trades, ApplyClose(t),
         closeCmd[t] = "received", UNCHANGED <<venue, origin, entryWire>>
  PROVE  LedgerInv' /\ rows' = [rows EXCEPT ![t] = OpenClose]
<1> USE DEF TypeInv, TypeOK, LedgerTypeOK, LedgerInv
<1>1. rows[t] = OpenOnly
  BY DEF RowInv
<1>2. /\ rows' = [rows EXCEPT ![t] = OpenClose]
      /\ closeCmd' = [closeCmd EXCEPT ![t] = "applied"]
      /\ UNCHANGED <<entryCmd, entryTrade, external, holder>>
  BY <1>1, RowValues DEF ApplyClose
<1>3. BookedOnce' /\ OneTradePerDecision'
  BY <1>2 DEF BookedOnce, OneTradePerDecision, Ours
<1>4. EntryInv'
  BY <1>2, RowValues DEF EntryInv, Ours, Sent
<1>5. RowInv'
  BY <1>1, <1>2, RowValues DEF RowInv, Ours
<1>6. QED
  BY <1>2, <1>3, <1>4, <1>5

LEMMA ApplyEntryLedger ==
  ASSUME TypeInv, LedgerInv, NEW d \in Decisions, ApplyEntry(d),
         entryCmd[d] = "received", UNCHANGED <<venue, origin, entryWire>>
  PROVE  /\ LedgerInv'
         /\ entryTrade[d] \in Trades /\ rows[entryTrade[d]] = <<>>
         /\ rows' = [rows EXCEPT ![entryTrade[d]] = OpenOnly]
<1> USE DEF TypeInv, TypeOK, LedgerTypeOK, LedgerInv
<1> DEFINE t == entryTrade[d]
<1>1. t \in Trades /\ origin[t] = d
  BY DEF EntryInv
<1>2. rows[t] = <<>>
  BY <1>1 DEF RowInv
<1>3. /\ rows' = [rows EXCEPT ![t] = OpenOnly]
      /\ holder' = [holder EXCEPT ![t] = DecisionSlot[d]]
      /\ entryCmd' = [entryCmd EXCEPT ![d] = "applied"]
      /\ UNCHANGED <<entryTrade, closeCmd, external, notified>>
  BY <1>2, RowValues DEF ApplyEntry
<1>4. BookedOnce' /\ OneTradePerDecision'
  BY <1>1, <1>3 DEF BookedOnce, OneTradePerDecision, Ours
<1>5. EntryInv'
  BY <1>1, <1>2, <1>3, RowValues DEF EntryInv, Ours, Sent
<1>6. RowInv'
  BY SMTT(30), <1>1, <1>2, <1>3, RowValues DEF RowInv, EntryInv, Sent, Ours
<1>7. QED
  BY <1>1, <1>2, <1>3, <1>4, <1>5, <1>6

-----------------------------------------------------------------------------
(* Each step preserves the ledger's part.                                  *)

LEMMA LedgerVenue == IInv /\ Venue => LedgerInv'
<1> SUFFICES ASSUME IInv, Venue PROVE LedgerInv'
  OBVIOUS
<1> USE DEF IInv, TypeInv, TypeOK, LedgerTypeOK
<1>1. ASSUME NEW d \in Decisions, NEW t \in Trades, VenueOpens(d, t) PROVE LedgerInv'
  <2>1. /\ entryWire[d] = 1 /\ entryWire' = [entryWire EXCEPT ![d] = 0]
        /\ venue[t] = "none" /\ venue' = [venue EXCEPT ![t] = "running"]
        /\ origin' = [origin EXCEPT ![t] = d]
        /\ UNCHANGED ledgerVars
    <3>1. entryWire[d] \in Nat /\ entryWire[d] > 0 /\ entryWire[d] <= 1
      BY <1>1 DEF VenueOpens, LedgerInv, EntryInv
    <3>2. entryWire[d] = 1
      BY <3>1
    <3>3. QED
      BY <1>1, <3>2 DEF VenueOpens
  <2>2. entryCmd[d] = "submitted" /\ origin[t] = NoDecision
    <3>1. entryWire[d] # 0
      BY <2>1
    <3>2. entryCmd[d] \in Status
      OBVIOUS
    <3>3. entryCmd[d] \notin {"none", "rejected", "received", "applied"}
      BY <3>1 DEF LedgerInv, EntryInv
    <3>4. origin[t] = NoDecision
      BY <2>1 DEF LedgerInv, EntryInv
    <3>5. QED
      BY <3>2, <3>3, <3>4 DEF Status
  <2>3. rows[t] = <<>>
    BY <2>2 DEF LedgerInv, RowInv, Ours
  <2>4. \A u \in Trades : origin[u] # d
    BY <2>1 DEF LedgerInv, EntryInv, Ours
  <2>5. BookedOnce' /\ OneTradePerDecision'
    BY <2>1, <2>4 DEF LedgerInv, BookedOnce, OneTradePerDecision, Ours, ledgerVars
  <2>6. EntryInv'
    BY <2>1, <2>2, <2>3, <2>4, RowValues DEF LedgerInv, EntryInv, Ours, Sent, ledgerVars
  <2>7. RowInv'
    BY <2>1, <2>2, <2>3, <2>4, RowValues DEF LedgerInv, RowInv, Ours, ledgerVars
  <2>8. QED
    BY <2>5, <2>6, <2>7 DEF LedgerInv
<1>2. ASSUME NEW d \in Decisions, VenueRefusesEntry(d) PROVE LedgerInv'
  BY <1>2 DEF VenueRefusesEntry, LedgerInv, BookedOnce, OneTradePerDecision, EntryInv, RowInv, Ours, Sent, ledgerVars
<1>3. ASSUME NEW t \in Trades, VenueCloses(t) PROVE LedgerInv'
  BY <1>3, LedgerFrame DEF VenueCloses
<1>4. ASSUME NEW t \in Trades, CloseRequestLost(t) PROVE LedgerInv'
  BY <1>4, LedgerFrame DEF CloseRequestLost
<1>5. ASSUME NEW t \in Trades, VenueClosesAlone(t) PROVE LedgerInv'
  BY <1>5, LedgerFrame DEF VenueClosesAlone
<1>6. ASSUME NEW t \in Trades, ManualOpen(t) PROVE LedgerInv'
  <2>1. /\ venue[t] = "none" /\ venue' = [venue EXCEPT ![t] = "running"]
        /\ origin' = [origin EXCEPT ![t] = Manual]
        /\ UNCHANGED ledgerVars /\ UNCHANGED entryWire
    BY <1>6 DEF ManualOpen
  <2>2. origin[t] = NoDecision
    BY <2>1 DEF LedgerInv, EntryInv
  <2>3. rows[t] = <<>>
    BY <2>2 DEF LedgerInv, RowInv, Ours
  <2>4. \A d \in Decisions : entryCmd[d] \in {"received", "applied"} => entryTrade[d] # t
    BY <2>2 DEF LedgerInv, EntryInv
  <2>5. BookedOnce' /\ OneTradePerDecision'
    BY <2>1, <2>4 DEF LedgerInv, BookedOnce, OneTradePerDecision, Ours, ledgerVars
  <2>6. EntryInv'
    BY <2>1, <2>2, <2>3, <2>4, RowValues DEF LedgerInv, EntryInv, Ours, Sent, ledgerVars
  <2>7. RowInv'
    BY <2>1, <2>2, <2>3, <2>4, RowValues DEF LedgerInv, RowInv, Ours, ledgerVars
  <2>8. QED
    BY <2>5, <2>6, <2>7 DEF LedgerInv
<1>7. QED
  BY <1>1, <1>2, <1>3, <1>4, <1>5, <1>6 DEF Venue

LEMMA LedgerStartup == IInv /\ (Crash \/ Startup) => LedgerInv'
<1> SUFFICES ASSUME IInv, Crash \/ Startup PROVE LedgerInv'
  OBVIOUS
<1> USE DEF IInv, ledgerVars, venueVars
<1>1. CASE Crash
  BY <1>1, LedgerFrame DEF Crash
<1>2. CASE Restart
  BY <1>2, LedgerFrame DEF Restart
<1>3. ASSUME NEW d \in Decisions, BootApplyEntry(d) PROVE LedgerInv'
  BY <1>3, ApplyEntryLedger DEF BootApplyEntry, ReceivedEntries
<1>4. ASSUME NEW t \in Trades, BootApplyClose(t) PROVE LedgerInv'
  BY <1>4, ApplyCloseLedger DEF BootApplyClose, ReceivedCloses
<1>5. CASE BootRestore
  BY <1>5, LedgerFrame DEF BootRestore
<1>6. QED
  BY <1>1, <1>2, <1>3, <1>4, <1>5 DEF Startup

LEMMA LedgerReconcile == IInv /\ Reconcile => LedgerInv'
<1> SUFFICES ASSUME IInv, Reconcile PROVE LedgerInv'
  OBVIOUS
<1> USE DEF IInv, ledgerVars, venueVars
<1>1. CASE MinuteBar \/ HigherBar \/ InventoryFails \/ InventoryRead \/ HistoryFails
            \/ ExternalDone \/ DeliveryDone
  BY <1>1, LedgerFrame DEF MinuteBar, HigherBar, InventoryFails, InventoryRead,
                           HistoryFails, ExternalDone, DeliveryDone
<1>2. ASSUME NEW listed \in SUBSET Trades, HistoryRead(listed) PROVE LedgerInv'
  BY <1>2, LedgerFrame DEF HistoryRead
<1>3. ASSUME NEW s \in Slots, ExternalBegin(s) PROVE LedgerInv'
  <2>1. pos[s] \in Trades /\ rows[pos[s]] = OpenOnly
    BY <1>3 DEF ExternalBegin, FlowInv, MemoryInv, ExitInv, InBooking
  <2>2. QED
    BY <1>3, <2>1, BeginCloseLedger DEF ExternalBegin
<1>4. CASE ExternalResult
  BY <1>4, CloseResultLedger DEF ExternalResult, FlowInv, ExitInv
<1>5. CASE ExternalApply
  BY <1>5, ApplyCloseLedger DEF ExternalApply, FlowInv, ExitInv
<1>6. ASSUME NEW o \in Owners, DeliverTo(o) PROVE LedgerInv'
  BY <1>6 DEF DeliverTo, AcknowledgeCloses, LedgerInv, BookedOnce, OneTradePerDecision, EntryInv, RowInv, Ours, Sent
<1>7. QED
  BY <1>1, <1>2, <1>3, <1>4, <1>5, <1>6 DEF Reconcile

LEMMA ExitStartLedger ==
  ASSUME IInv, NEW s \in Slots, NEW after, ExitStart(s, after),
         pc \in {"retry", "strategy"}
  PROVE  LedgerInv'
<1>1. pos[s] \in Trades /\ rows[pos[s]] = OpenOnly
  BY DEF IInv, TypeInv, TypeOK, ExitStart, FlowInv, MemoryInv, InBooking
<1>2. QED
  BY <1>1, BeginCloseLedger DEF IInv, ExitStart

LEMMA LedgerExit == IInv /\ Exit => LedgerInv'
<1> SUFFICES ASSUME IInv, Exit PROVE LedgerInv'
  OBVIOUS
<1> USE DEF IInv, ledgerVars, venueVars
<1>1. CASE ExitFails \/ ExitAnswerLost \/ ExitAccepted \/ RetryDone \/ BarEnds
  BY <1>1, LedgerFrame DEF ExitFails, ExitAnswerLost, ExitAccepted, RetryDone, BarEnds
<1>2. CASE ExitResult
  BY <1>2, CloseResultLedger DEF ExitResult, FlowInv, ExitInv
<1>3. CASE ExitApply
  BY <1>3, ApplyCloseLedger DEF ExitApply, FlowInv, ExitInv
<1>4. ASSUME NEW s \in Slots, RetrySkips(s) PROVE LedgerInv'
  BY <1>4, LedgerFrame DEF RetrySkips
<1>5. ASSUME NEW s \in Slots, RetryExit(s) \/ SubmitExit(s) PROVE LedgerInv'
  BY <1>5, ExitStartLedger DEF RetryExit, SubmitExit
<1>6. QED
  BY <1>1, <1>2, <1>3, <1>4, <1>5 DEF Exit

LEMMA LedgerEntry == IInv /\ Entry => LedgerInv'
<1> SUFFICES ASSUME IInv, Entry PROVE LedgerInv'
  OBVIOUS
<1> USE DEF IInv, TypeInv, TypeOK, LedgerTypeOK, ledgerVars, venueVars
<1>1. CASE EntryInventoryRead \/ EntryInventoryFails \/ EntryNotSent \/ EntryUnresolved
  BY <1>1, LedgerFrame DEF EntryInventoryRead, EntryInventoryFails, EntryNotSent, EntryUnresolved
<1>2. ASSUME NEW d \in Decisions, SubmitFlip(d) PROVE LedgerInv'
  BY <1>2, ExitStartLedger DEF SubmitFlip
<1>3. ASSUME NEW d \in Decisions, SubmitEntry(d) PROVE LedgerInv'
  BY <1>3, LedgerFrame DEF SubmitEntry
<1>4. CASE EntrySent
  <2>1. want \in Decisions /\ pos[DecisionSlot[want]] = NoTrade
    BY <1>4 DEF EntrySent, FlowInv, EntryStageInv
  <2>2. /\ entryCmd[want] = "none"
        /\ \A d \in Decisions : ~Sent(d)
    BY <1>4 DEF EntrySent, EntryAdmitted, EntryIsNew, Blocked, UnresolvedEntry, Sent
  <2>3. /\ entryCmd' = [entryCmd EXCEPT ![want] = "submitted"]
        /\ entryWire[want] = 0 /\ entryWire' = [entryWire EXCEPT ![want] = 1]
        /\ UNCHANGED <<entryTrade, closeCmd, rows, holder, venue, origin>>
    <3>1. entryWire[want] = 0
      BY <2>1, <2>2 DEF LedgerInv, EntryInv
    <3>2. entryWire' = [entryWire EXCEPT ![want] = 1]
      BY <1>4, <2>1, <3>1 DEF EntrySent
    <3>3. QED
      BY <1>4, <2>1, <2>2, <3>1, <3>2 DEF EntrySent, BeginEntry
  <2>4. \A t \in Trades : rows[t] = OpenOnly => holder[t] # DecisionSlot[want]
    BY <1>4, <2>1 DEF EntrySent, FlowInv, MemoryInv, InBooking
  <2>5. BookedOnce' /\ OneTradePerDecision'
    BY <2>3 DEF LedgerInv, BookedOnce, OneTradePerDecision, Ours
  <2>6. EntryInv'
    BY <2>1, <2>2, <2>3, <2>4 DEF LedgerInv, EntryInv, Ours, Sent
  <2>7. RowInv'
    BY <2>1, <2>2, <2>3 DEF LedgerInv, RowInv, Ours
  <2>8. QED
    BY <2>5, <2>6, <2>7 DEF LedgerInv
<1>5. CASE EntryRefused
  BY <1>5 DEF EntryRefused, RejectEntry, FlowInv, EntryStageInv, LedgerInv, BookedOnce, OneTradePerDecision,
              EntryInv, RowInv, Ours, Sent
<1>6. ASSUME NEW t \in Trades, EntryAccepted(t) PROVE LedgerInv'
  BY <1>6, LedgerFrame DEF EntryAccepted
<1>7. CASE EntryResultCommit
  BY <1>7 DEF EntryResultCommit, EntryResult, FlowInv, EntryStageInv, LedgerInv, BookedOnce, OneTradePerDecision,
              EntryInv, RowInv, Ours, Sent
<1>8. CASE EntryApplyCommit
  BY <1>8, ApplyEntryLedger DEF EntryApplyCommit, FlowInv, EntryStageInv
<1>9. QED
  BY <1>1, <1>2, <1>3, <1>4, <1>5, <1>6, <1>7, <1>8 DEF Entry

-----------------------------------------------------------------------------
(* What memory holds, in terms of the rows.                                *)

LEMMA HeldIsOpen ==
  ASSUME IInv, NEW s \in Slots, pos[s] # NoTrade
  PROVE  /\ pos[s] \in Trades
         /\ rows[pos[s]] = OpenOnly /\ holder[pos[s]] = s
         /\ \A r \in Slots : pos[r] = pos[s] => r = s
<1>1. pc \notin {"down", "boot"} /\ \A r \in Slots : InBooking(r) => pos[r] = NoTrade
  BY DEF IInv, FlowInv, OwedInv, Cleared, ExitInv, InBooking
<1>2. \A r \in Slots : pos[r] # NoTrade =>
        pos[r] \in Trades /\ rows[pos[r]] = OpenOnly /\ holder[pos[r]] = r
  BY <1>1 DEF IInv, TypeInv, TypeOK, FlowInv, MemoryInv
<1>3. QED
  BY <1>2

LEMMA FlowFrame ==
  ASSUME ReceivedInv, MemoryInv, OwedInv, UNCHANGED ledgerVars, UNCHANGED memVars,
         UNCHANGED flowVars
  PROVE  ReceivedInv' /\ MemoryInv' /\ OwedInv'
BY DEF ReceivedInv, MemoryInv, OwedInv, InBooking, ledgerVars, memVars, flowVars

LEMMA ExitFrame ==
  ASSUME TypeInv, ExitInv, UNCHANGED ledgerVars, UNCHANGED memVars, UNCHANGED flowVars,
         \A t \in Trades : venue[t] = "closed" => venue'[t] = "closed",
         pc = "exit_wait" => reply' = reply
  PROVE  ExitInv'
BY DEF TypeInv, ScratchOK, CarryingStages, ExitInv, ledgerVars, memVars, flowVars

-----------------------------------------------------------------------------
(* Each step preserves what ties memory and the task's stage to the ledger. *)

LEMMA FlowVenue == IInv /\ TypeInv' /\ Venue => FlowInv'
<1> SUFFICES ASSUME IInv, TypeInv', Venue PROVE FlowInv'
  OBVIOUS
<1> USE DEF IInv, TypeInv, TypeOK, LedgerTypeOK, ledgerVars, venueVars, memVars, flowVars,
          FlowInv, ReceivedInv, MemoryInv, OwedInv, ExitInv, EntryStageInv, InBooking, LedgerInv
<1>1. ASSUME NEW d \in Decisions, NEW t \in Trades, VenueOpens(d, t) PROVE FlowInv'
  <2>1. /\ UNCHANGED ledgerVars /\ UNCHANGED memVars /\ UNCHANGED flowVars
        /\ entryWire[d] # 0 /\ venue[t] = "none"
        /\ venue' = [venue EXCEPT ![t] = "running"]
        /\ origin' = [origin EXCEPT ![t] = d]
        /\ entryWire' = [entryWire EXCEPT ![d] = @ - 1]
        /\ reply' = IF Awaiting(d) THEN "done" ELSE reply
    BY <1>1 DEF VenueOpens
  <2>2. ReceivedInv' /\ MemoryInv' /\ OwedInv'
    BY <2>1, FlowFrame
  <2>3. ExitInv'
    BY SMTT(30), <2>1, ExitFrame DEF Awaiting
  <2>4. origin[t] = NoDecision
    BY <2>1 DEF EntryInv
  <2>5. pc = "entry_wait" /\ reply' = "refused" => want # d /\ entryWire[want] = 0
    BY <2>1 DEF Awaiting
  <2>6. EntryStageInv'
    BY <2>1, <2>4, <2>5
  <2>7. QED
    BY <2>2, <2>3, <2>6
<1>2. ASSUME NEW d \in Decisions, VenueRefusesEntry(d) PROVE FlowInv'
  <2>1. /\ UNCHANGED ledgerVars /\ UNCHANGED memVars /\ UNCHANGED flowVars
        /\ UNCHANGED <<venue, origin>>
        /\ entryWire[d] = 1 /\ entryWire' = [entryWire EXCEPT ![d] = 0]
        /\ reply' = IF Awaiting(d) THEN "refused" ELSE reply
    <3>1. entryWire[d] \in Nat /\ entryWire[d] > 0 /\ entryWire[d] <= 1
      BY <1>2 DEF VenueRefusesEntry, EntryInv
    <3>2. entryWire[d] = 1
      BY <3>1
    <3>3. QED
      BY <1>2, <3>2 DEF VenueRefusesEntry
  <2>2. ReceivedInv' /\ MemoryInv' /\ OwedInv'
    BY <2>1, FlowFrame
  <2>3. ExitInv'
    BY <2>1, ExitFrame DEF Awaiting
  <2>4. \A t \in Trades : origin[t] # d
    BY <2>1 DEF EntryInv, Ours
  <2>5. EntryStageInv'
    BY <2>1, <2>4 DEF Awaiting
  <2>6. QED
    BY <2>2, <2>3, <2>5
<1>3. ASSUME NEW t \in Trades, VenueCloses(t) PROVE FlowInv'
  BY <1>3, RowValues DEF VenueCloses
<1>4. ASSUME NEW t \in Trades, CloseRequestLost(t) PROVE FlowInv'
  BY <1>4, RowValues DEF CloseRequestLost
<1>5. ASSUME NEW t \in Trades, VenueClosesAlone(t) PROVE FlowInv'
  BY <1>5, RowValues DEF VenueClosesAlone
<1>6. ASSUME NEW t \in Trades, ManualOpen(t) PROVE FlowInv'
  <2>1. /\ UNCHANGED ledgerVars /\ UNCHANGED memVars /\ UNCHANGED flowVars
        /\ UNCHANGED <<entryWire, reply>> /\ venue[t] = "none"
        /\ venue' = [venue EXCEPT ![t] = "running"]
        /\ origin' = [origin EXCEPT ![t] = Manual]
    BY <1>6 DEF ManualOpen
  <2>2. ReceivedInv' /\ MemoryInv' /\ OwedInv'
    BY <2>1, FlowFrame
  <2>3. ExitInv'
    BY SMTT(30), <2>1, ExitFrame
  <2>4. origin[t] = NoDecision
    BY <2>1 DEF EntryInv
  <2>5. EntryStageInv'
    BY <2>1, <2>4
  <2>6. QED
    BY <2>2, <2>3, <2>5
<1>7. QED
  BY <1>1, <1>2, <1>3, <1>4, <1>5, <1>6 DEF Venue

\* What startup restores is what the rows say is open.
LEMMA RestoredMemory ==
  ASSUME TypeOK, LedgerInv, pos' = [s \in Slots |-> Restored(s)],
         UNCHANGED <<rows, holder>>, pc' \notin {"exit_result", "exit_apply"}
  PROVE  MemoryInv'
<1>1. \A s \in Slots : OpenIn(s) = {u \in Trades : rows[u] = OpenOnly /\ holder[u] = s}
  BY OpenRows DEF OpenIn, LocallyOpen, LedgerInv
<1>2. \A s \in Slots, t \in Trades :
        rows[t] = OpenOnly /\ holder[t] = s <=> t = Restored(s)
  <2> TAKE s \in Slots, t \in Trades
  <2>1. \A u, v \in OpenIn(s) : u = v
    BY <1>1 DEF LedgerInv, RowInv
  <2>2. CASE OpenIn(s) = {}
    BY <1>1, <2>2 DEF Restored
  <2>3. CASE OpenIn(s) # {}
    <3>1. Restored(s) \in OpenIn(s)
      BY <2>3 DEF Restored
    <3>2. QED
      BY <3>1, <1>1, <2>1
  <2>4. QED
    BY <2>2, <2>3
<1>3. QED
  BY <1>2 DEF MemoryInv, InBooking

LEMMA FlowStartup == IInv /\ TypeInv' /\ (Crash \/ Startup) => FlowInv'
<1> SUFFICES ASSUME IInv, TypeInv', Crash \/ Startup PROVE FlowInv'
  OBVIOUS
<1> USE DEF IInv, TypeInv, TypeOK, LedgerTypeOK, ledgerVars, venueVars, memVars, flowVars,
          FlowInv, ReceivedInv, MemoryInv, OwedInv, ExitInv, EntryStageInv, InBooking, LedgerInv
<1>1. ASSUME Restart PROVE FlowInv'
  BY <1>1, RowValues DEF Restart, Goto
<1>2. ASSUME NEW d \in Decisions, BootApplyEntry(d) PROVE FlowInv'
  BY <1>2, RowValues DEF BootApplyEntry, ApplyEntry, ReceivedEntries
<1>3. ASSUME NEW t \in Trades, BootApplyClose(t) PROVE FlowInv'
  BY <1>3, RowValues DEF BootApplyClose, ApplyClose, ReceivedCloses
<1>4. ASSUME BootRestore PROVE FlowInv'
  <2>1. /\ pc = "boot" /\ pc' = "deliver" /\ UNCHANGED ledgerVars
        /\ pos' = [s \in Slots |-> Restored(s)]
        /\ owed' = [s \in Slots |->
                      IF pos'[s] \in Running /\ closeCmd[pos'[s]] = "submitted"
                      THEN pos'[s] ELSE NoTrade]
        /\ ReceivedEntries = {} /\ ReceivedCloses = {}
    BY <1>4 DEF BootRestore
  <2>4. MemoryInv'
    BY <2>1, RestoredMemory
  <2>5. ReceivedInv'
    BY <2>1 DEF ReceivedEntries, ReceivedCloses
  <2>6. OwedInv'
    BY <2>1
  <2>7. ExitInv' /\ EntryStageInv'
    BY <2>1
  <2>8. QED
    BY <2>4, <2>5, <2>6, <2>7
<1>5. ASSUME Crash PROVE FlowInv'
  BY <1>5 DEF Crash, Return, Cleared
<1>6. QED
  BY <1>1, <1>2, <1>3, <1>4, <1>5 DEF Startup

LEMMA ExternalApplyFlow == IInv /\ ExternalApply => FlowInv'
<1> SUFFICES ASSUME IInv, ExternalApply PROVE FlowInv'
  OBVIOUS
<1>1. /\ ct \in Trades /\ cur \in Slots /\ closeCmd[ct] = "received"
      /\ pos[cur] = ct /\ cur \notin todo /\ pc = "close_apply"
      /\ \A s \in todo : pos[s] \in Trades /\ venue[pos[s]] = "closed"
  BY DEF ExternalApply, IInv, FlowInv, ExitInv
<1>2. /\ rows' = [rows EXCEPT ![ct] = OpenClose]
      /\ closeCmd' = [closeCmd EXCEPT ![ct] = "applied"]
      /\ UNCHANGED <<entryCmd, entryTrade, holder, venue, origin>>
  BY <1>1, ApplyCloseLedger DEF IInv, ExternalApply, ApplyClose, venueVars
<1>3. /\ pc' = "closing" /\ todo' = todo /\ back' = "none"
      /\ pos' = [pos EXCEPT ![cur] = NoTrade] /\ owed' = [owed EXCEPT ![cur] = NoTrade]
  BY DEF ExternalApply, Return
<1>4. ReceivedInv'
  BY <1>1, <1>2, <1>3 DEF IInv, TypeInv, TypeOK, LedgerTypeOK, FlowInv, ReceivedInv
<1>5. OwedInv'
  BY <1>1, <1>3 DEF IInv, TypeInv, TypeOK, FlowInv, OwedInv
<1>6. MemoryInv'
  <2>1. \A s \in Slots, t \in Trades :
          (rows[t] = OpenOnly /\ holder[t] = s) <=> t = pos[s]
    BY <1>1 DEF IInv, FlowInv, MemoryInv, InBooking
  <2>2. \A t \in Trades : rows'[t] = OpenOnly <=> t # ct /\ rows[t] = OpenOnly
    BY <1>2, RowValues DEF IInv, TypeInv, TypeOK, LedgerTypeOK
  <2>3. \A s \in Slots : pos'[s] = IF s = cur THEN NoTrade ELSE pos[s]
    BY <1>3 DEF IInv, TypeInv, TypeOK
  <2>4. \A s \in Slots, t \in Trades :
          (rows'[t] = OpenOnly /\ holder[t] = s) <=> t = pos'[s]
    BY <1>1, <2>1, <2>2, <2>3
  <2>5. QED
    BY <1>2, <1>3, <2>4 DEF MemoryInv, InBooking
<1>7. ExitInv'
  <2>1. \A s \in todo : pos'[s] = pos[s]
    BY <1>1, <1>3 DEF IInv, TypeInv, TypeOK
  <2>2. \A s \in todo' : pos'[s] \in Trades /\ venue'[pos'[s]] = "closed"
    BY <1>1, <1>2, <1>3, <2>1
  <2>3. QED
    BY <1>3, <2>2 DEF ExitInv
<1>8. EntryStageInv'
  BY <1>3 DEF EntryStageInv
<1>9. QED
  BY <1>4, <1>5, <1>6, <1>7, <1>8 DEF FlowInv

LEMMA FlowReconcile == IInv /\ TypeInv' /\ Reconcile => FlowInv'
<1> SUFFICES ASSUME IInv, TypeInv', Reconcile PROVE FlowInv'
  OBVIOUS
<1> USE DEF IInv, TypeInv, TypeOK, LedgerTypeOK, ledgerVars, venueVars, memVars, flowVars,
          FlowInv, ReceivedInv, MemoryInv, OwedInv, ExitInv, EntryStageInv, InBooking, LedgerInv
<1>1. ASSUME MinuteBar PROVE FlowInv'
  BY <1>1, RowValues DEF MinuteBar, Goto
<1>2. ASSUME HigherBar PROVE FlowInv'
  BY <1>2, RowValues DEF HigherBar, Return
<1>3. ASSUME InventoryFails PROVE FlowInv'
  BY <1>3, RowValues DEF InventoryFails, Goto
<1>4. ASSUME InventoryRead PROVE FlowInv'
  BY <1>4, RowValues DEF InventoryRead, Goto, Running
<1>5. ASSUME HistoryFails PROVE FlowInv'
  BY <1>5, RowValues DEF HistoryFails, Goto
<1>6. ASSUME NEW listed \in SUBSET Trades, HistoryRead(listed) PROVE FlowInv'
  BY <1>6, RowValues DEF HistoryRead, Closed
<1>7. ASSUME NEW s \in Slots, ExternalBegin(s) PROVE FlowInv'
  <2>1. pos[s] \in Trades /\ rows[pos[s]] = OpenOnly /\ venue[pos[s]] = "closed"
    BY <1>7, HeldIsOpen DEF ExternalBegin
  <2>2. closeCmd[pos[s]] \in {"none", "submitted"}
    <3>1. closeCmd[pos[s]] # "applied"
      BY <2>1, RowValues DEF RowInv
    <3>2. closeCmd[pos[s]] # "received"
      BY <1>7, <2>1 DEF ExternalBegin
    <3>3. QED
      BY <2>1, <3>1, <3>2 DEF Status
  <2>3. /\ closeCmd' = [closeCmd EXCEPT ![pos[s]] = "submitted"]
        /\ UNCHANGED <<entryCmd, entryTrade, rows, holder, venue, origin, pos, owed>>
        /\ pc = "closing" /\ pc' = "close_result"
        /\ cur' = s /\ ct' = pos[s] /\ todo' = todo \ {s}
    BY <1>7, <2>2 DEF ExternalBegin, BeginClose
  <2>4. ReceivedInv' /\ OwedInv' /\ MemoryInv'
    BY SMTT(30), <2>3
  <2>5. ExitInv' /\ EntryStageInv'
    BY <2>1, <2>3
  <2>6. QED
    BY <2>4, <2>5
<1>8. ASSUME ExternalResult PROVE FlowInv'
  BY <1>8, RowValues DEF ExternalResult, CloseResult, Goto
<1>9. ASSUME ExternalApply PROVE FlowInv'
  BY <1>9, ExternalApplyFlow
<1>10. ASSUME ExternalDone PROVE FlowInv'
  BY <1>10, RowValues DEF ExternalDone, Goto
<1>11. ASSUME NEW o \in Owners, DeliverTo(o) PROVE FlowInv'
  BY <1>11, RowValues DEF DeliverTo, AcknowledgeCloses, EventsOf, OwnedBy, PendingExternalEvents
<1>12. ASSUME DeliveryDone PROVE FlowInv'
  BY <1>12, RowValues DEF DeliveryDone, Return, Owed
<1>13. QED
  BY <1>1, <1>2, <1>3, <1>4, <1>5, <1>6, <1>7, <1>8, <1>9, <1>10, <1>11, <1>12 DEF Reconcile

LEMMA ExitStartFlow ==
  ASSUME IInv, NEW s \in Slots, NEW after \in {"retry", "strategy", "entry"},
         ExitStart(s, after), pc \in {"retry", "strategy"},
         after = "entry" => want' \in Decisions /\ s = DecisionSlot[want']
  PROVE  FlowInv'
<1>1. pos[s] \in Trades /\ rows[pos[s]] = OpenOnly
  BY HeldIsOpen DEF ExitStart
<1>2. closeCmd[pos[s]] \in {"none", "submitted"}
  <2>1. closeCmd[pos[s]] # "applied"
    BY <1>1, RowValues DEF IInv, LedgerInv, RowInv
  <2>2. closeCmd[pos[s]] # "received"
    BY <1>1 DEF IInv, FlowInv, ReceivedInv
  <2>3. QED
    BY <1>1, <2>1, <2>2 DEF IInv, TypeInv, TypeOK, LedgerTypeOK, Status
<1>3. closeCmd' = [closeCmd EXCEPT ![pos[s]] = "submitted"] /\ closeCmd'[pos[s]] = "submitted"
  BY <1>1, <1>2 DEF ExitStart, BeginClose, IInv, TypeInv, TypeOK, LedgerTypeOK
<1>4. /\ UNCHANGED <<entryCmd, entryTrade, rows, holder, venue, origin, pos, owed>>
      /\ pc' = "exit_wait" /\ cur' = s /\ ct' = pos[s] /\ back' = after /\ reply' = "none"
  BY DEF ExitStart, BeginClose, memVars
<1>5. ReceivedInv'
  <2>1. /\ \A d \in Decisions : entryCmd[d] # "received"
        /\ \A t \in Trades : closeCmd[t] # "received"
    BY DEF IInv, FlowInv, ReceivedInv
  <2>2. \A t \in Trades : closeCmd'[t] # "received"
    BY <1>1, <1>3, <2>1 DEF IInv, TypeInv, TypeOK, LedgerTypeOK
  <2>3. QED
    BY <1>4, <2>1, <2>2 DEF ReceivedInv
<1>6. MemoryInv'
  BY <1>4 DEF IInv, FlowInv, MemoryInv, InBooking
<1>7. OwedInv'
  BY <1>4 DEF IInv, FlowInv, OwedInv
<1>8. ExitInv'
  BY <1>1, <1>3, <1>4 DEF ExitInv
<1>9. EntryStageInv'
  BY <1>4 DEF EntryStageInv
<1>10. QED
  BY <1>5, <1>6, <1>7, <1>8, <1>9 DEF FlowInv

\* Booking an accepted close brings the rows back in step with memory.
LEMMA ExitApplyMemory ==
  ASSUME TypeOK, MemoryInv, pc = "exit_apply", cur \in Slots, ct \in Trades,
         pos[cur] = NoTrade, rows' = [rows EXCEPT ![ct] = OpenClose],
         UNCHANGED <<pos, holder>>, pc' \notin {"exit_result", "exit_apply"}
  PROVE  MemoryInv'
<1>1. \A s \in Slots, t \in Trades :
        (rows[t] = OpenOnly /\ holder[t] = s) <=> (IF s = cur THEN t = ct ELSE t = pos[s])
  BY DEF MemoryInv, InBooking
<1>2. \A t \in Trades : rows'[t] = OpenOnly <=> t # ct /\ rows[t] = OpenOnly
  BY RowValues DEF TypeOK, LedgerTypeOK
<1>3. \A s \in Slots, t \in Trades :
        (rows'[t] = OpenOnly /\ holder[t] = s) <=> t = pos[s]
  <2> TAKE s \in Slots, t \in Trades
  <2>1. CASE s = cur
    BY <1>1, <1>2, <2>1
  <2>2. CASE s # cur
    BY <1>1, <1>2, <2>2
  <2>3. QED
    BY <2>1, <2>2
<1>4. QED
  BY <1>3 DEF MemoryInv, InBooking

LEMMA FlowExit == IInv /\ TypeInv' /\ Exit => FlowInv'
<1> SUFFICES ASSUME IInv, TypeInv', Exit PROVE FlowInv'
  OBVIOUS
<1> USE DEF IInv, TypeInv, TypeOK, LedgerTypeOK, ledgerVars, venueVars, memVars, flowVars,
          FlowInv, ReceivedInv, MemoryInv, OwedInv, ExitInv, EntryStageInv, InBooking, LedgerInv
<1>1. ASSUME ExitFails PROVE FlowInv'
  BY <1>1, RowValues DEF ExitFails, AfterExit, Return
<1>2. ASSUME ExitAnswerLost PROVE FlowInv'
  BY <1>2, RowValues DEF ExitAnswerLost, AfterExit, Return
<1>3. ASSUME ExitAccepted PROVE FlowInv'
  BY <1>3, RowValues DEF ExitAccepted, Goto
<1>4. ASSUME ExitResult PROVE FlowInv'
  BY <1>4, RowValues DEF ExitResult, CloseResult, Goto
<1>5. ASSUME ExitApply PROVE FlowInv'
  <2>1. ct \in Trades /\ cur \in Slots /\ closeCmd[ct] = "received"
    BY <1>5 DEF ExitApply
  <2>2. /\ rows' = [rows EXCEPT ![ct] = OpenClose]
        /\ closeCmd' = [closeCmd EXCEPT ![ct] = "applied"]
        /\ UNCHANGED <<entryCmd, entryTrade, holder, venue, origin>>
    BY <1>5, <2>1, ApplyCloseLedger DEF ExitApply, ApplyClose
  <2>3. /\ pc = "exit_apply" /\ pc' \in {"retry", "strategy", "entry_inventory"}
        /\ UNCHANGED <<pos, owed>>
        /\ pc' = "entry_inventory" => back = "entry" /\ want' = want
    BY <1>5 DEF ExitApply, AfterExit, Return
  <2>4. pos[cur] = NoTrade /\ (back = "entry" => want \in Decisions /\ cur = DecisionSlot[want])
    BY <2>3
  <2>5. ReceivedInv' /\ OwedInv'
    BY SMTT(30), <2>1, <2>2, <2>3
  <2>6. MemoryInv'
    BY <2>1, <2>2, <2>3, <2>4, ExitApplyMemory
  <2>7. ExitInv' /\ EntryStageInv'
    BY <2>2, <2>3, <2>4
  <2>8. QED
    BY <2>5, <2>6, <2>7
<1>6. ASSUME NEW s \in Slots, RetrySkips(s) PROVE FlowInv'
  BY <1>6, RowValues DEF RetrySkips, Return
<1>7. ASSUME NEW s \in Slots, RetryExit(s) PROVE FlowInv'
  BY <1>7, ExitStartFlow DEF RetryExit
<1>8. ASSUME NEW s \in Slots, SubmitExit(s) PROVE FlowInv'
  BY <1>8, ExitStartFlow DEF SubmitExit
<1>9. ASSUME RetryDone PROVE FlowInv'
  BY <1>9, RowValues DEF RetryDone, Goto
<1>10. ASSUME BarEnds PROVE FlowInv'
  BY <1>10, RowValues DEF BarEnds, Return
<1>11. QED
  BY <1>1, <1>2, <1>3, <1>4, <1>5, <1>6, <1>7, <1>8, <1>9, <1>10 DEF Exit

LEMMA FlowEntry == IInv /\ TypeInv' /\ Entry => FlowInv'
<1> SUFFICES ASSUME IInv, TypeInv', Entry PROVE FlowInv'
  OBVIOUS
<1> USE DEF IInv, TypeInv, TypeOK, LedgerTypeOK, ledgerVars, venueVars, memVars, flowVars,
          FlowInv, ReceivedInv, MemoryInv, OwedInv, ExitInv, EntryStageInv, InBooking, LedgerInv
<1>1. ASSUME NEW d \in Decisions, SubmitFlip(d) PROVE FlowInv'
  BY <1>1, ExitStartFlow DEF SubmitFlip
<1>2. ASSUME NEW d \in Decisions, SubmitEntry(d) PROVE FlowInv'
  BY <1>2, RowValues DEF SubmitEntry, Blocked, UnresolvedEntry
<1>3. ASSUME EntryInventoryRead PROVE FlowInv'
  BY <1>3, RowValues DEF EntryInventoryRead, Running
<1>4. ASSUME EntryInventoryFails PROVE FlowInv'
  BY <1>4, RowValues DEF EntryInventoryFails, Return
<1>5. ASSUME EntryNotSent PROVE FlowInv'
  BY <1>5, RowValues DEF EntryNotSent, Return
<1>6. ASSUME EntrySent PROVE FlowInv'
  BY <1>6, RowValues DEF EntrySent, BeginEntry, EntryAdmitted, Blocked, UnresolvedEntry, EntryIsNew
<1>7. ASSUME EntryRefused PROVE FlowInv'
  BY <1>7, RowValues DEF EntryRefused, RejectEntry, Return
<1>8. ASSUME EntryUnresolved PROVE FlowInv'
  BY <1>8, RowValues DEF EntryUnresolved, Return
<1>9. ASSUME NEW t \in Trades, EntryAccepted(t) PROVE FlowInv'
  BY <1>9, RowValues DEF EntryAccepted
<1>10. ASSUME EntryResultCommit PROVE FlowInv'
  BY <1>10, RowValues DEF EntryResultCommit, EntryResult, Goto
<1>11. ASSUME EntryApplyCommit PROVE FlowInv'
  <2>1. /\ want \in Decisions /\ ct = entryTrade[want] /\ entryCmd[want] = "received"
        /\ pos[DecisionSlot[want]] = NoTrade
    BY <1>11 DEF EntryApplyCommit
  <2>2. /\ ct \in Trades /\ rows[ct] = <<>> /\ rows' = [rows EXCEPT ![ct] = OpenOnly]
        /\ holder' = [holder EXCEPT ![ct] = DecisionSlot[want]]
        /\ entryCmd' = [entryCmd EXCEPT ![want] = "applied"]
        /\ UNCHANGED <<entryTrade, closeCmd, external, notified, venue, origin>>
    BY <1>11, <2>1, ApplyEntryLedger DEF EntryApplyCommit, ApplyEntry
  <2>3. /\ pc = "entry_apply" /\ pc' = "strategy" /\ UNCHANGED owed
        /\ pos' = [pos EXCEPT ![DecisionSlot[want]] = ct]
    BY <1>11 DEF EntryApplyCommit, Return
  <2>4. ReceivedInv' /\ OwedInv'
    BY <2>1, <2>2, <2>3
  <2>5. \A u \in Trades : rows[u] = OpenOnly => holder[u] # DecisionSlot[want]
    BY <2>1, <2>3
  <2>6. MemoryInv'
    BY SMTT(30), <2>1, <2>2, <2>3, <2>5, RowValues
  <2>7. ExitInv' /\ EntryStageInv'
    BY <2>3
  <2>8. QED
    BY <2>4, <2>6, <2>7
<1>12. QED
  BY <1>1, <1>2, <1>3, <1>4, <1>5, <1>6, <1>7, <1>8, <1>9, <1>10, <1>11 DEF Entry

-----------------------------------------------------------------------------
(* Each step preserves what ties booked and accepted closes to the venue.   *)

LEMMA ApplyCloseBooks ==
  ASSUME TypeInv, CloseInv, NEW t \in Trades, ApplyClose(t), closeCmd[t] = "received",
         UNCHANGED <<venue, heard, saved>>
  PROVE  CloseInv' /\ closeCmd'[t] = "applied"
                   /\ \A u \in Trades : closeCmd[u] # "none" => closeCmd'[u] # "none"
<1> USE DEF TypeInv, TypeOK, LedgerTypeOK
<1>1. /\ closeCmd' = [closeCmd EXCEPT ![t] = "applied"]
      /\ notified' = IF t \in external THEN notified \ {t} ELSE notified \cup {t}
      /\ UNCHANGED external
  BY DEF ApplyClose
<1>2. t \notin notified
  BY DEF CloseInv
<1>3. \A u \in Trades : u \in external' \cap notified' <=> u \in external \cap notified
  BY <1>1, <1>2
<1>4. CloseInv'
  BY <1>1, <1>3 DEF CloseInv
<1>5. QED
  BY <1>1, <1>4

LEMMA BooksVenue == IInv /\ TypeInv' /\ Venue => BooksInv'
<1> SUFFICES ASSUME IInv, TypeInv', Venue PROVE BooksInv'
  OBVIOUS
<1> USE DEF IInv, TypeInv, TypeOK, LedgerTypeOK, ledgerVars, venueVars, memVars, flowVars,
          BooksInv, CloseInv, AckedInv, Held
<1>1. ASSUME NEW d \in Decisions, NEW t \in Trades, VenueOpens(d, t) PROVE BooksInv'
  BY <1>1, RowValues DEF VenueOpens
<1>2. ASSUME NEW d \in Decisions, VenueRefusesEntry(d) PROVE BooksInv'
  BY <1>2, RowValues DEF VenueRefusesEntry
<1>3. ASSUME NEW t \in Trades, VenueCloses(t) PROVE BooksInv'
  BY <1>3, RowValues DEF VenueCloses
<1>4. ASSUME NEW t \in Trades, CloseRequestLost(t) PROVE BooksInv'
  BY <1>4, RowValues DEF CloseRequestLost
<1>5. ASSUME NEW t \in Trades, VenueClosesAlone(t) PROVE BooksInv'
  BY <1>5, RowValues DEF VenueClosesAlone
<1>6. ASSUME NEW t \in Trades, ManualOpen(t) PROVE BooksInv'
  BY <1>6, RowValues DEF ManualOpen
<1>7. QED
  BY <1>1, <1>2, <1>3, <1>4, <1>5, <1>6 DEF Venue

LEMMA BooksStartup == IInv /\ TypeInv' /\ (Crash \/ Startup) => BooksInv'
<1> SUFFICES ASSUME IInv, TypeInv', Crash \/ Startup PROVE BooksInv'
  OBVIOUS
<1> USE DEF IInv, TypeInv, TypeOK, LedgerTypeOK, ledgerVars, venueVars, memVars, flowVars,
          BooksInv, CloseInv, AckedInv, Held
<1>1. ASSUME Restart PROVE BooksInv'
  BY <1>1, RowValues DEF Restart, Goto
<1>2. ASSUME NEW d \in Decisions, BootApplyEntry(d) PROVE BooksInv'
  BY <1>2, RowValues DEF BootApplyEntry, ApplyEntry, ReceivedEntries
<1>3. ASSUME NEW t \in Trades, BootApplyClose(t) PROVE BooksInv'
  <2>1. CloseInv' /\ \A u \in Trades : closeCmd[u] # "none" => closeCmd'[u] # "none"
    BY <1>3, ApplyCloseBooks DEF BootApplyClose, ReceivedCloses
  <2>2. AckedInv'
    BY <1>3, <2>1 DEF BootApplyClose
  <2>3. QED
    BY <2>1, <2>2
<1>4. ASSUME BootRestore PROVE BooksInv'
  <2>1. CloseInv'
    BY <1>4 DEF BootRestore
  <2>2. \A s \in Slots : pos'[s] # NoTrade => pos'[s] \in LocallyOpen
    BY <1>4 DEF BootRestore, Restored, OpenIn
  <2>3. /\ UNCHANGED <<acked, venue, closeCmd>>
        /\ missing' = LocallyOpen \ Running
    BY <1>4 DEF BootRestore
  <2>4. \A t \in acked : t \in Held' => t \in missing'
    BY <2>2, <2>3 DEF Running
  <2>5. QED
    BY <2>1, <2>3, <2>4
<1>5. ASSUME Crash PROVE BooksInv'
  BY <1>5 DEF Crash, Cleared
<1>6. QED
  BY <1>1, <1>2, <1>3, <1>4, <1>5 DEF Startup

LEMMA BooksReconcile == IInv /\ TypeInv' /\ Reconcile => BooksInv'
<1> SUFFICES ASSUME IInv, TypeInv', Reconcile PROVE BooksInv'
  OBVIOUS
<1> USE DEF IInv, TypeInv, TypeOK, LedgerTypeOK, ledgerVars, venueVars, memVars, flowVars,
          BooksInv, CloseInv, AckedInv, Held
<1>1. ASSUME MinuteBar PROVE BooksInv'
  BY <1>1, RowValues DEF MinuteBar, Goto
<1>2. ASSUME HigherBar PROVE BooksInv'
  BY <1>2, RowValues DEF HigherBar, Return
<1>3. ASSUME InventoryFails PROVE BooksInv'
  BY <1>3, RowValues DEF InventoryFails, Goto
<1>4. ASSUME InventoryRead PROVE BooksInv'
  BY <1>4, RowValues DEF InventoryRead, Goto, Running
<1>5. ASSUME HistoryFails PROVE BooksInv'
  BY <1>5, RowValues DEF HistoryFails, Goto
<1>6. ASSUME NEW listed \in SUBSET Trades, HistoryRead(listed) PROVE BooksInv'
  BY <1>6, RowValues DEF HistoryRead, Closed
<1>7. ASSUME NEW s \in Slots, ExternalBegin(s) PROVE BooksInv'
  BY <1>7, RowValues DEF ExternalBegin, BeginClose
<1>8. ASSUME ExternalResult PROVE BooksInv'
  BY <1>8 DEF ExternalResult, CloseResult, Goto, FlowInv, ExitInv
<1>9. ASSUME ExternalApply PROVE BooksInv'
  <2>1. ct \in Trades /\ cur \in Slots /\ closeCmd[ct] = "received"
    BY <1>9 DEF ExternalApply, FlowInv, ExitInv
  <2>2. /\ rows' = [rows EXCEPT ![ct] = OpenClose]
        /\ closeCmd' = [closeCmd EXCEPT ![ct] = "applied"]
        /\ notified' = IF ct \in external THEN notified \ {ct} ELSE notified \cup {ct}
        /\ UNCHANGED <<external, venue, heard, saved, acked>>
    BY <1>9, <2>1, ApplyCloseLedger DEF ExternalApply, ApplyClose
  <2>3. /\ pos[cur] = ct /\ pos' = [pos EXCEPT ![cur] = NoTrade]
        /\ missing' = missing \ {ct}
    BY <1>9 DEF ExternalApply, FlowInv, ExitInv
  <2>4. \A s \in Slots : pos'[s] # ct /\ (pos'[s] # NoTrade => pos'[s] = pos[s])
    BY <2>1, <2>3, HeldIsOpen
  <2>5. CloseInv'
    BY <2>1, <2>2
  <2>6. AckedInv'
    BY <2>1, <2>2, <2>3, <2>4
  <2>7. QED
    BY <2>5, <2>6
<1>10. ASSUME ExternalDone PROVE BooksInv'
  BY <1>10, RowValues DEF ExternalDone, Goto
<1>11. ASSUME NEW o \in Owners, DeliverTo(o) PROVE BooksInv'
  BY <1>11, RowValues DEF DeliverTo, AcknowledgeCloses, EventsOf, OwnedBy, PendingExternalEvents
<1>12. ASSUME DeliveryDone PROVE BooksInv'
  BY <1>12, RowValues DEF DeliveryDone, Return, Owed
<1>13. QED
  BY <1>1, <1>2, <1>3, <1>4, <1>5, <1>6, <1>7, <1>8, <1>9, <1>10, <1>11, <1>12 DEF Reconcile

LEMMA BooksExit == IInv /\ TypeInv' /\ Exit => BooksInv'
<1> SUFFICES ASSUME IInv, TypeInv', Exit PROVE BooksInv'
  OBVIOUS
<1> USE DEF IInv, TypeInv, TypeOK, LedgerTypeOK, ledgerVars, venueVars, memVars, flowVars,
          BooksInv, CloseInv, AckedInv, Held
<1>1. ASSUME ExitFails PROVE BooksInv'
  BY <1>1, RowValues DEF ExitFails, AfterExit, Return
<1>2. ASSUME ExitAnswerLost PROVE BooksInv'
  BY <1>2, RowValues DEF ExitAnswerLost, AfterExit, Return
<1>3. ASSUME ExitAccepted PROVE BooksInv'
  <2>1. /\ ct \in Trades /\ cur \in Slots /\ pos[cur] = ct /\ venue[ct] = "closed"
        /\ closeCmd[ct] = "submitted"
    BY <1>3 DEF ExitAccepted, FlowInv, ExitInv
  <2>2. /\ acked' = acked \cup {ct} /\ pos' = [pos EXCEPT ![cur] = NoTrade]
        /\ UNCHANGED ledgerVars /\ UNCHANGED <<venue, missing, heard, saved>>
    BY <1>3 DEF ExitAccepted
  <2>3. \A s \in Slots : pos'[s] # ct /\ (pos'[s] # NoTrade => pos'[s] = pos[s])
    BY <2>1, <2>2, HeldIsOpen
  <2>4. QED
    BY <2>1, <2>2, <2>3
<1>4. ASSUME ExitResult PROVE BooksInv'
  BY <1>4 DEF ExitResult, CloseResult, Goto, FlowInv, ExitInv
<1>5. ASSUME ExitApply PROVE BooksInv'
  <2>1. ct \in Trades /\ cur \in Slots /\ closeCmd[ct] = "received"
    BY <1>5 DEF ExitApply, FlowInv, ExitInv
  <2>2. /\ rows' = [rows EXCEPT ![ct] = OpenClose]
        /\ closeCmd' = [closeCmd EXCEPT ![ct] = "applied"]
        /\ notified' = IF ct \in external THEN notified \ {ct} ELSE notified \cup {ct}
        /\ UNCHANGED <<external, venue, heard, saved, acked, pos, missing>>
    BY <1>5, <2>1, ApplyCloseLedger DEF ExitApply, ApplyClose
  <2>3. CloseInv'
    BY <2>1, <2>2
  <2>4. AckedInv'
    BY <2>1, <2>2
  <2>5. QED
    BY <2>3, <2>4
<1>6. ASSUME NEW s \in Slots, RetrySkips(s) PROVE BooksInv'
  BY <1>6, RowValues DEF RetrySkips, Return
<1>7. ASSUME NEW s \in Slots, RetryExit(s) PROVE BooksInv'
  BY <1>7, RowValues DEF RetryExit, ExitStart, BeginClose, CloseUnresolved
<1>8. ASSUME NEW s \in Slots, SubmitExit(s) PROVE BooksInv'
  BY <1>8, RowValues DEF SubmitExit, ExitStart, BeginClose, CloseUnresolved
<1>9. ASSUME RetryDone PROVE BooksInv'
  BY <1>9, RowValues DEF RetryDone, Goto
<1>10. ASSUME BarEnds PROVE BooksInv'
  BY <1>10, RowValues DEF BarEnds, Return
<1>11. QED
  BY <1>1, <1>2, <1>3, <1>4, <1>5, <1>6, <1>7, <1>8, <1>9, <1>10 DEF Exit

LEMMA BooksEntry == IInv /\ TypeInv' /\ Entry => BooksInv'
<1> SUFFICES ASSUME IInv, TypeInv', Entry PROVE BooksInv'
  OBVIOUS
<1> USE DEF IInv, TypeInv, TypeOK, LedgerTypeOK, ledgerVars, venueVars, memVars, flowVars,
          BooksInv, CloseInv, AckedInv, Held
<1>1. ASSUME NEW d \in Decisions, SubmitFlip(d) PROVE BooksInv'
  BY <1>1, RowValues DEF SubmitFlip, ExitStart, BeginClose, CloseUnresolved
<1>2. ASSUME NEW d \in Decisions, SubmitEntry(d) PROVE BooksInv'
  BY <1>2, RowValues DEF SubmitEntry, Blocked, UnresolvedEntry
<1>3. ASSUME EntryInventoryRead PROVE BooksInv'
  BY <1>3, RowValues DEF EntryInventoryRead, Running
<1>4. ASSUME EntryInventoryFails PROVE BooksInv'
  BY <1>4, RowValues DEF EntryInventoryFails, Return
<1>5. ASSUME EntryNotSent PROVE BooksInv'
  BY <1>5, RowValues DEF EntryNotSent, Return
<1>6. ASSUME EntrySent PROVE BooksInv'
  BY <1>6, RowValues DEF EntrySent, BeginEntry, EntryAdmitted, Blocked, UnresolvedEntry, EntryIsNew
<1>7. ASSUME EntryRefused PROVE BooksInv'
  BY <1>7, RowValues DEF EntryRefused, RejectEntry, Return
<1>8. ASSUME EntryUnresolved PROVE BooksInv'
  BY <1>8, RowValues DEF EntryUnresolved, Return
<1>9. ASSUME NEW t \in Trades, EntryAccepted(t) PROVE BooksInv'
  BY <1>9, RowValues DEF EntryAccepted
<1>10. ASSUME EntryResultCommit PROVE BooksInv'
  BY <1>10, RowValues DEF EntryResultCommit, EntryResult, Goto
<1>11. ASSUME EntryApplyCommit PROVE BooksInv'
  <2>1. /\ want \in Decisions /\ ct = entryTrade[want] /\ entryCmd[want] = "received"
        /\ pos[DecisionSlot[want]] = NoTrade
    BY <1>11 DEF EntryApplyCommit, FlowInv, EntryStageInv
  <2>2. /\ ct \in Trades /\ rows[ct] = <<>> /\ rows' = [rows EXCEPT ![ct] = OpenOnly]
        /\ holder' = [holder EXCEPT ![ct] = DecisionSlot[want]]
        /\ entryCmd' = [entryCmd EXCEPT ![want] = "applied"]
        /\ UNCHANGED <<entryTrade, closeCmd, external, notified, venue, origin>>
    BY <1>11, <2>1, ApplyEntryLedger DEF EntryApplyCommit, ApplyEntry
  <2>3. /\ pos' = [pos EXCEPT ![DecisionSlot[want]] = ct]
        /\ UNCHANGED <<missing, heard, saved, acked>>
    BY <1>11 DEF EntryApplyCommit
  <2>4. closeCmd[ct] = "none"
    BY <2>2, RowValues DEF LedgerInv, RowInv, Status
  <2>5. \A s \in Slots : pos'[s] = ct \/ pos'[s] = pos[s]
    BY <2>3
  <2>6. QED
    BY <2>2, <2>3, <2>4, <2>5
<1>12. QED
  BY <1>1, <1>2, <1>3, <1>4, <1>5, <1>6, <1>7, <1>8, <1>9, <1>10, <1>11 DEF Entry

-----------------------------------------------------------------------------
(* What the inductive invariant gives.                                     *)

LEMMA InitIInv == Init => IInv
<1> SUFFICES ASSUME Init PROVE IInv
  OBVIOUS
<1>1. TypeInv
  BY InitTypeInv
<1>2. LedgerInv
  BY RowValues DEF Init, LedgerInit, LedgerInv, BookedOnce, OneTradePerDecision, EntryInv, RowInv, Ours, Sent
<1>3. FlowInv
  BY RowValues DEF Init, LedgerInit, FlowInv, ReceivedInv, MemoryInv, OwedInv, ExitInv,
                   EntryStageInv, Cleared
<1>4. BooksInv
  BY DEF Init, LedgerInit, BooksInv, CloseInv, AckedInv
<1>5. QED
  BY <1>1, <1>2, <1>3, <1>4 DEF IInv

LEMMA NextIInv == IInv /\ [Next]_vars => IInv'
<1> SUFFICES ASSUME IInv, [Next]_vars PROVE IInv'
  OBVIOUS
<1>1. TypeInv'
  BY NextTypeInv DEF IInv
<1>2. CASE Next
  <2>1. LedgerInv'
    BY <1>2, LedgerVenue, LedgerStartup, LedgerReconcile, LedgerExit, LedgerEntry DEF Next
  <2>2. FlowInv'
    BY <1>1, <1>2, FlowVenue, FlowStartup, FlowReconcile, FlowExit, FlowEntry DEF Next
  <2>3. BooksInv'
    BY <1>1, <1>2, BooksVenue, BooksStartup, BooksReconcile, BooksExit, BooksEntry DEF Next
  <2>4. QED
    BY <1>1, <2>1, <2>2, <2>3 DEF IInv
<1>3. CASE UNCHANGED vars
  <2>1. LedgerInv'
    BY <1>3, LedgerFrame DEF IInv, vars, venueVars
  <2>2. ExitInv'
    BY <1>3, ExitFrame DEF IInv, FlowInv, vars, venueVars
  <2>3. EntryStageInv'
    BY <1>3 DEF IInv, FlowInv, EntryStageInv, vars, venueVars, ledgerVars, memVars, flowVars
  <2>4. FlowInv'
    BY <1>3, <2>2, <2>3, FlowFrame DEF IInv, FlowInv, vars
  <2>5. BooksInv'
    BY <1>3 DEF IInv, BooksInv, CloseInv, AckedInv, Held, vars, venueVars, ledgerVars, memVars
  <2>6. QED
    BY <1>1, <2>1, <2>4, <2>5 DEF IInv
<1>4. QED
  BY <1>2, <1>3

\* IInv holds in every reachable state.
THEOREM Invariance == Spec => []IInv
BY InitIInv, NextIInv, PTL DEF Spec

-----------------------------------------------------------------------------
(* Each safety property follows from the invariant.                        *)

LEMMA MemoryFromInv == IInv => MemoryMatchesLedger
<1> SUFFICES ASSUME IInv, pc \notin {"down", "boot"}, NEW s \in Slots
             PROVE  OpenIn(s) = (({pos[s]} \ {NoTrade}) \cup
                      (IF pc \in {"exit_result", "exit_apply"} /\ cur = s THEN {ct} ELSE {}))
  BY DEF MemoryMatchesLedger
<1>1. BookedOnce /\ pos[s] \in Trades \cup {NoTrade}
  BY DEF IInv, LedgerInv, TypeInv, TypeOK
<1>2. OpenIn(s) = {t \in Trades : rows[t] = OpenOnly /\ holder[t] = s}
  BY <1>1, OpenRows DEF OpenIn, LocallyOpen
<1>3. \A t \in Trades : t \in OpenIn(s) <=> (IF InBooking(s) THEN t = ct ELSE t = pos[s])
  BY <1>2 DEF IInv, FlowInv, MemoryInv
<1>4. CASE InBooking(s)
  <2>1. pos[s] = NoTrade /\ ct \in Trades
    BY <1>4 DEF InBooking, IInv, FlowInv, ExitInv
  <2>2. QED
    BY <1>2, <1>3, <1>4, <2>1 DEF InBooking
<1>5. CASE ~InBooking(s)
  BY <1>1, <1>2, <1>3, <1>5 DEF InBooking
<1>6. QED
  BY <1>4, <1>5

LEMMA OutstandingIsSent ==
  ASSUME IInv, NEW d \in Outstanding
  PROVE  d \in Decisions /\ Sent(d)
<1>1. d \in Decisions /\ entryCmd[d] \in Status
  BY DEF Outstanding, IInv, TypeInv, TypeOK, LedgerTypeOK
<1>2. CASE entryWire[d] > 0
  <2>1. entryWire[d] # 0
    BY <1>2
  <2>2. QED
    BY <1>1, <2>1 DEF IInv, LedgerInv, EntryInv, Sent, Status
<1>3. ASSUME NEW t \in Trades, origin[t] = d, rows[t] = <<>> PROVE Sent(d)
  <2>1. entryCmd[d] \notin {"none", "rejected"}
    BY <1>1, <1>3 DEF IInv, LedgerInv, EntryInv, Ours
  <2>2. entryCmd[d] # "applied"
    <3> SUFFICES ASSUME entryCmd[d] = "applied" PROVE FALSE
      OBVIOUS
    <3>1. /\ entryTrade[d] \in Trades /\ origin[entryTrade[d]] = d
          /\ rows[entryTrade[d]] # <<>>
      BY <1>1 DEF IInv, LedgerInv, EntryInv, RowInv
    <3>2. entryTrade[d] = t
      BY <1>1, <1>3, <3>1 DEF IInv, LedgerInv, OneTradePerDecision, Ours
    <3>3. QED
      BY <1>3, <3>1, <3>2
  <2>3. QED
    BY <1>1, <2>1, <2>2 DEF Sent, Status
<1>4. QED
  BY <1>1, <1>2, <1>3 DEF Outstanding

LEMMA OutstandingFromInv == IInv => AtMostOneUnbookedEntry
BY OutstandingIsSent DEF AtMostOneUnbookedEntry, IInv, LedgerInv, EntryInv

LEMMA RunningFromInv == IInv => OneRunningTradePerSlot
<1> SUFFICES ASSUME IInv, NEW t1 \in Running, NEW t2 \in Running, Ours(t1), Ours(t2),
                    DecisionSlot[origin[t1]] = DecisionSlot[origin[t2]]
             PROVE  t1 = t2
  BY DEF OneRunningTradePerSlot
<1>1. \A t \in Running : Ours(t) =>
        \/ rows[t] = OpenOnly /\ holder[t] = DecisionSlot[origin[t]]
        \/ rows[t] = <<>> /\ Sent(origin[t])
  <2> SUFFICES ASSUME NEW t \in Running, Ours(t)
               PROVE  \/ rows[t] = OpenOnly /\ holder[t] = DecisionSlot[origin[t]]
                      \/ rows[t] = <<>> /\ Sent(origin[t])
    OBVIOUS
  <2>1. t \in Trades /\ origin[t] \in Decisions /\ venue[t] = "running"
    BY DEF Running, Ours
  <2>2. rows[t] # OpenClose
    BY <2>1 DEF IInv, LedgerInv, RowInv, BooksInv, CloseInv
  <2>3. CASE rows[t] = OpenOnly
    BY <2>1, <2>3, RowValues DEF IInv, LedgerInv, RowInv
  <2>4. CASE rows[t] = <<>>
    <3>1. origin[t] \in Outstanding
      BY <2>1, <2>4 DEF Outstanding
    <3>2. QED
      BY <2>4, <3>1, OutstandingIsSent
  <2>5. QED
    BY <2>1, <2>2, <2>3, <2>4 DEF IInv, LedgerInv, BookedOnce
<1>2. t1 \in Trades /\ t2 \in Trades /\ origin[t1] \in Decisions /\ origin[t2] \in Decisions
  BY DEF Running, Ours
<1>3. CASE rows[t1] = OpenOnly /\ rows[t2] = OpenOnly
  BY <1>1, <1>2, <1>3, RowValues DEF IInv, LedgerInv, RowInv
<1>4. CASE Sent(origin[t1]) /\ Sent(origin[t2])
  BY <1>2, <1>4 DEF IInv, LedgerInv, EntryInv, OneTradePerDecision
<1>5. \A t, u \in Trades : rows[t] = OpenOnly /\ Ours(u) /\ Sent(origin[u]) =>
        holder[t] # DecisionSlot[origin[u]]
  BY DEF IInv, LedgerInv, EntryInv, Ours
<1>6. QED
  BY <1>1, <1>2, <1>3, <1>4, <1>5

\* A close is sent only from the retry loop and from the strategies' intents,
\* and never for a close the process knows to be accepted.
LEMMA ExitStartNotAcked ==
  ASSUME IInv, NEW s \in Slots, NEW after, ExitStart(s, after), pc \in {"retry", "strategy"}
  PROVE  ct' \notin acked
<1>1. /\ ct' = pos[s] /\ pos[s] # NoTrade
      /\ ~(pos[s] \in missing /\ closeCmd[pos[s]] = "submitted")
  BY DEF ExitStart, CloseUnresolved
<1>2. pos[s] \in Trades /\ rows[pos[s]] = OpenOnly
  BY <1>1, HeldIsOpen
<1>3. SUFFICES ASSUME pos[s] \in acked PROVE FALSE
  BY <1>1
<1>4. pos[s] \in missing /\ closeCmd[pos[s]] # "none"
  BY <1>1, <1>3 DEF IInv, BooksInv, AckedInv, Held
<1>5. closeCmd[pos[s]] # "applied"
  BY <1>2, RowValues DEF IInv, LedgerInv, RowInv
<1>6. closeCmd[pos[s]] = "received"
  BY <1>1, <1>2, <1>4, <1>5 DEF IInv, TypeInv, TypeOK, LedgerTypeOK, Status
<1>7. QED
  BY <1>2, <1>6 DEF IInv, FlowInv, ReceivedInv

LEMMA AckedFromInv ==
  ASSUME IInv, [Next]_vars
  PROVE  pc # "exit_wait" /\ pc' = "exit_wait" => ct' \notin acked
<1> SUFFICES ASSUME pc # "exit_wait", pc' = "exit_wait" PROVE ct' \notin acked
  OBVIOUS
<1> USE DEF Return, Goto
<1>1. ASSUME NEW s \in Slots, RetryExit(s) \/ SubmitExit(s) PROVE ct' \notin acked
  BY <1>1, ExitStartNotAcked DEF RetryExit, SubmitExit
<1>2. ASSUME NEW d \in Decisions, SubmitFlip(d) PROVE ct' \notin acked
  BY <1>2, ExitStartNotAcked DEF SubmitFlip
<1>3. ~Venue /\ ~Crash /\ ~Startup /\ vars' # vars
  BY DEF Venue, VenueOpens, VenueRefusesEntry, VenueCloses, CloseRequestLost,
         VenueClosesAlone, ManualOpen, Crash, Startup, Restart, BootApplyEntry,
         BootApplyClose, BootRestore, flowVars, vars
<1>4. ~Reconcile
  BY DEF Reconcile, MinuteBar, HigherBar, InventoryFails, InventoryRead, HistoryFails,
         HistoryRead, ExternalBegin, ExternalResult, ExternalApply, ExternalDone,
         DeliverTo, DeliveryDone, flowVars
<1>5. CASE Exit
  BY <1>1, <1>5 DEF Exit, ExitFails, ExitAnswerLost, ExitAccepted, ExitResult, ExitApply,
                    AfterExit, RetrySkips, RetryDone, BarEnds
<1>6. CASE Entry
  BY <1>2, <1>6 DEF Entry, SubmitEntry, EntryInventoryRead, EntryInventoryFails,
                    EntryNotSent, EntrySent, EntryRefused, EntryUnresolved, EntryAccepted,
                    EntryResultCommit, EntryApplyCommit
<1>7. QED
  BY <1>3, <1>4, <1>5, <1>6 DEF Next

\* The process's positions are what the durable rows say is open, at every
\* point between two commits and after every restart.
THEOREM MemoryCorrect == Spec => []MemoryMatchesLedger
BY Invariance, MemoryFromInv, PTL

\* No opening or closing is booked twice, no close without its open.
THEOREM BookedOnceCorrect == Spec => []BookedOnce
<1>1. IInv => BookedOnce
  BY DEF IInv, LedgerInv
<1>2. QED
  BY <1>1, Invariance, PTL

\* The durable key of a decision admits one trade at the venue.
THEOREM OneTradeCorrect == Spec => []OneTradePerDecision
<1>1. IInv => OneTradePerDecision
  BY DEF IInv, LedgerInv
<1>2. QED
  BY <1>1, Invariance, PTL

\* Unbooked exposure belongs to a single decision.
THEOREM UnbookedCorrect == Spec => []AtMostOneUnbookedEntry
BY Invariance, OutstandingFromInv, PTL

\* A slot has one trade of ours running at the venue.
THEOREM RunningCorrect == Spec => []OneRunningTradePerSlot
BY Invariance, RunningFromInv, PTL

\* What the books call closed is closed at the venue.
THEOREM BookedCloseCorrect == Spec => []BookedCloseIsReal
<1>1. IInv => BookedCloseIsReal
  BY DEF IInv, BooksInv, CloseInv, BookedCloseIsReal, Closed
<1>2. QED
  BY <1>1, Invariance, PTL

\* A venue-side close enters the strategy's state exactly once.
THEOREM FoldedOnceCorrect == Spec => []ExternalCloseFoldedOnce
<1>1. IInv => ExternalCloseFoldedOnce
  BY DEF IInv, BooksInv, CloseInv, ExternalCloseFoldedOnce
<1>2. QED
  BY <1>1, Invariance, PTL

\* An owed exit is for the trade its slot holds.
THEOREM OwedCorrect == Spec => []OwedExitIsForHeldTrade
<1>1. IInv => OwedExitIsForHeldTrade
  BY DEF IInv, FlowInv, OwedInv, OwedExitIsForHeldTrade, Owed
<1>2. QED
  BY <1>1, Invariance, PTL

\* An accepted close is never sent again.
THEOREM AcceptedCloseCorrect == Spec => AcceptedCloseNeverResent
<1>1. IInv /\ [Next]_vars =>
        [pc # "exit_wait" /\ pc' = "exit_wait" => ct' \notin acked]_vars
  BY AckedFromInv
<1>2. QED
  BY <1>1, Invariance, PTL DEF Spec, AcceptedCloseNeverResent

-----------------------------------------------------------------------------
(* LiveExecutor implements TradeBook: every step of execution, of the      *)
(* venue and of the crash is a step of the book or leaves it unchanged.    *)

BookVars == <<stageBar, bookBar, holder, toldBar>>

LEMMA LastRow ==
  OpenOnly[Len(OpenOnly)] = "open" /\ OpenClose[Len(OpenClose)] = "close"
<1>1. Len(OpenOnly) = 1 /\ OpenOnly[1] = "open"
  BY DEF OpenOnly
<1>2. Len(OpenClose) = 2 /\ OpenClose[2] = "close"
  BY DEF OpenClose
<1>3. QED
  BY <1>1, <1>2

\* What the mapped state says, in terms of the commands and the rows.
LEMMA BookOf ==
  ASSUME BookedOnce, NEW t \in Trades
  PROVE  bookBar[t] = IF rows[t] = <<>> THEN "none"
                      ELSE IF rows[t] = OpenOnly THEN "open" ELSE "closed"
BY OpenRows DEF bookBar

LEMMA QuietStep ==
  ASSUME UNCHANGED <<entryCmd, rows, holder, saved>>
  PROVE  UNCHANGED BookVars
BY DEF BookVars, stageBar, bookBar, toldBar, LocallyOpen

\* Moving a decision's command moves its stage and nothing else.
LEMMA StageStep ==
  ASSUME TypeOK, NEW d \in Decisions, NEW v \in Status,
         entryCmd' = [entryCmd EXCEPT ![d] = v]
  PROVE  stageBar' = [stageBar EXCEPT ![d] = StageOf(v)]
BY DEF TypeOK, LedgerTypeOK, stageBar

LEMMA RowStep ==
  ASSUME TypeOK, NEW t \in Trades, NEW v \in {OpenOnly, OpenClose},
         rows' = [rows EXCEPT ![t] = v]
  PROVE  bookBar' = [bookBar EXCEPT ![t] = IF v = OpenOnly THEN "open" ELSE "closed"]
<1>1. \A u \in Trades : u # t => (u \in LocallyOpen' <=> u \in LocallyOpen)
  BY DEF TypeOK, LedgerTypeOK, LocallyOpen
<1>2. t \in LocallyOpen' <=> v = OpenOnly
  BY LastRow, RowValues DEF TypeOK, LedgerTypeOK, LocallyOpen
<1>3. \A u \in Trades : rows'[u] = IF u = t THEN v ELSE rows[u]
  BY DEF TypeOK, LedgerTypeOK
<1>4. QED
  BY <1>1, <1>2, <1>3, RowValues DEF bookBar

-----------------------------------------------------------------------------
(* The steps of the book.                                                  *)

LEMMA SentCommits ==
  ASSUME IInv, EntrySent
  PROVE  Book!Commit(want)
<1>1. want \in Decisions /\ pos[DecisionSlot[want]] = NoTrade
  BY DEF EntrySent, IInv, FlowInv, EntryStageInv
<1>2. entryCmd[want] = "none" /\ \A e \in Decisions : ~Sent(e)
  BY DEF EntrySent, EntryAdmitted, EntryIsNew, Blocked, UnresolvedEntry, Sent
<1>3. /\ entryCmd' = [entryCmd EXCEPT ![want] = "submitted"]
      /\ UNCHANGED <<rows, holder, saved>>
  BY <1>1, <1>2 DEF EntrySent, BeginEntry, IInv, TypeInv, TypeOK, LedgerTypeOK
<1>4. stageBar' = [stageBar EXCEPT ![want] = "committed"]
  BY <1>1, <1>3, StageStep DEF IInv, TypeInv, Status, StageOf
<1>5. stageBar[want] = "new"
  BY <1>1, <1>2 DEF stageBar, StageOf
<1>6. \A e \in Decisions : stageBar[e] # "committed"
  <2> TAKE e \in Decisions
  <2>1. entryCmd[e] \in {"none", "applied", "rejected"}
    BY <1>2 DEF Sent, IInv, TypeInv, TypeOK, LedgerTypeOK, Status
  <2>2. QED
    BY <2>1 DEF stageBar, StageOf
<1>7. \A t \in Trades : bookBar[t] = "open" => holder[t] # DecisionSlot[want]
  <2> SUFFICES ASSUME NEW t \in Trades, bookBar[t] = "open"
               PROVE  holder[t] # DecisionSlot[want]
    OBVIOUS
  <2>1. rows[t] = OpenOnly
    BY BookOf DEF IInv, LedgerInv
  <2>2. QED
    BY <1>1, <2>1 DEF EntrySent, IInv, FlowInv, MemoryInv, InBooking
<1>8. UNCHANGED <<bookBar, holder, toldBar>>
  BY <1>3 DEF bookBar, toldBar, LocallyOpen
<1>9. QED
  BY <1>4, <1>5, <1>6, <1>7, <1>8 DEF Book!Commit

LEMMA RefusedRefuses ==
  ASSUME IInv, EntryRefused
  PROVE  want \in Decisions /\ Book!Refuse(want)
<1>1. want \in Decisions /\ entryCmd[want] = "submitted"
  BY DEF EntryRefused, IInv, FlowInv, EntryStageInv
<1>2. /\ entryCmd' = [entryCmd EXCEPT ![want] = "rejected"]
      /\ UNCHANGED <<rows, holder, saved>>
  BY <1>1 DEF EntryRefused, RejectEntry, IInv, TypeInv, TypeOK, LedgerTypeOK
<1>3. stageBar' = [stageBar EXCEPT ![want] = "refused"]
  BY <1>1, <1>2, StageStep DEF IInv, TypeInv, Status, StageOf
<1>4. stageBar[want] = "committed"
  BY <1>1 DEF stageBar, StageOf
<1>5. UNCHANGED <<bookBar, holder, toldBar>>
  BY <1>2 DEF bookBar, toldBar, LocallyOpen
<1>6. QED
  BY <1>1, <1>3, <1>4, <1>5 DEF Book!Refuse

\* The answer to an entry moves its command, not its stage.
LEMMA ResultIsQuiet ==
  ASSUME IInv, EntryResultCommit
  PROVE  UNCHANGED BookVars
<1>1. want \in Decisions /\ entryCmd[want] = "submitted"
  BY DEF EntryResultCommit, IInv, FlowInv, EntryStageInv
<1>2. /\ entryCmd' = [entryCmd EXCEPT ![want] = "received"]
      /\ UNCHANGED <<rows, holder, saved>>
  BY <1>1 DEF EntryResultCommit, EntryResult, IInv, TypeInv, TypeOK, LedgerTypeOK
<1>3. stageBar' = [stageBar EXCEPT ![want] = "committed"]
  BY <1>1, <1>2, StageStep DEF IInv, TypeInv, Status, StageOf
<1>4. stageBar[want] = "committed"
  BY <1>1 DEF stageBar, StageOf
<1>5. UNCHANGED <<bookBar, holder, toldBar>>
  BY <1>2 DEF bookBar, toldBar, LocallyOpen
<1>6. QED
  BY <1>1, <1>3, <1>4, <1>5 DEF BookVars, stageBar

LEMMA ApplyEntryOpens ==
  ASSUME IInv, NEW d \in Decisions, entryCmd[d] = "received", ApplyEntry(d),
         UNCHANGED <<venue, origin, entryWire, saved>>
  PROVE  entryTrade[d] \in Trades /\ Book!Open(d, entryTrade[d])
<1> DEFINE t == entryTrade[d]
<1>1. t \in Trades /\ rows[t] = <<>> /\ rows' = [rows EXCEPT ![t] = OpenOnly]
  BY ApplyEntryLedger DEF IInv
<1>2. /\ entryCmd' = [entryCmd EXCEPT ![d] = "applied"]
      /\ holder' = [holder EXCEPT ![t] = DecisionSlot[d]]
  BY DEF ApplyEntry
<1>3. stageBar' = [stageBar EXCEPT ![d] = "booked"]
  BY <1>2, StageStep DEF IInv, TypeInv, Status, StageOf
<1>4. bookBar' = [bookBar EXCEPT ![t] = "open"]
  BY <1>1, RowStep DEF IInv, TypeInv
<1>5. stageBar[d] = "committed" /\ bookBar[t] = "none"
  BY <1>1 DEF stageBar, StageOf, bookBar
<1>6. UNCHANGED toldBar
  BY DEF toldBar
<1>7. QED
  BY <1>1, <1>2, <1>3, <1>4, <1>5, <1>6 DEF Book!Open

LEMMA ApplyCloseCloses ==
  ASSUME IInv, NEW t \in Trades, closeCmd[t] = "received", ApplyClose(t),
         UNCHANGED <<venue, origin, entryWire, saved>>
  PROVE  Book!Close(t)
<1>1. rows[t] = OpenOnly
  BY DEF IInv, LedgerInv, RowInv
<1>2. rows' = [rows EXCEPT ![t] = OpenClose]
  BY ApplyCloseLedger DEF IInv
<1>3. bookBar' = [bookBar EXCEPT ![t] = "closed"]
  BY <1>2, RowStep, RowValues DEF IInv, TypeInv
<1>4. bookBar[t] = "open"
  BY <1>1, BookOf, RowValues DEF IInv, LedgerInv
<1>5. UNCHANGED <<entryCmd, holder>>
  BY DEF ApplyClose
<1>6. UNCHANGED <<stageBar, toldBar>>
  BY <1>5 DEF stageBar, toldBar
<1>7. QED
  BY <1>3, <1>4, <1>5, <1>6 DEF Book!Close

LEMMA DeliveryTells ==
  ASSUME IInv, NEW o \in Owners, DeliverTo(o)
  PROVE  Book!Tell(EventsOf(o)) /\ EventsOf(o) \in SUBSET Trades
<1>1. /\ EventsOf(o) # {} /\ EventsOf(o) \subseteq Trades
      /\ EventsOf(o) \subseteq OwnedBy(o)
      /\ \A t \in EventsOf(o) : closeCmd[t] = "applied" /\ t \notin notified
  BY DEF DeliverTo, EventsOf, PendingExternalEvents
<1>2. heard = saved /\ saved \in [Trades -> Nat]
      /\ \A t \in Trades : saved[t] = IF t \in external \cap notified THEN 1 ELSE 0
  BY DEF IInv, BooksInv, CloseInv, TypeInv, TypeOK
<1>3. \A t \in Trades : saved'[t] = IF t \in EventsOf(o) THEN saved[t] + 1 ELSE saved[t]
  BY <1>1, <1>2 DEF DeliverTo
<1>4. toldBar' = toldBar \cup EventsOf(o)
  BY <1>1, <1>2, <1>3 DEF toldBar
<1>5. \A t \in EventsOf(o) : bookBar[t] = "closed" /\ t \notin toldBar
  <2> TAKE t \in EventsOf(o)
  <2>1. t \in Trades /\ rows[t] = OpenClose
    BY <1>1 DEF IInv, LedgerInv, RowInv
  <2>2. bookBar[t] = "closed"
    BY <2>1, BookOf, RowValues DEF IInv, LedgerInv
  <2>3. t \notin toldBar
    BY <1>1, <1>2 DEF toldBar
  <2>4. QED
    BY <2>2, <2>3
<1>6. UNCHANGED <<stageBar, bookBar, holder>>
  BY DEF DeliverTo, AcknowledgeCloses, stageBar, bookBar, LocallyOpen
<1>7. QED
  BY <1>1, <1>4, <1>5, <1>6 DEF Book!Tell

-----------------------------------------------------------------------------
(* Every step.                                                             *)

BookStep == [Book!BookNext]_BookVars

LEMMA VenueStep == Venue => BookStep
<1> SUFFICES ASSUME Venue PROVE UNCHANGED BookVars
  BY DEF BookStep
<1>1. UNCHANGED <<entryCmd, rows, holder, saved>>
  BY DEF Venue, VenueOpens, VenueRefusesEntry, VenueCloses, CloseRequestLost,
         VenueClosesAlone, ManualOpen, ledgerVars
<1>2. QED
  BY <1>1, QuietStep

LEMMA StartupStep == IInv /\ (Crash \/ Startup) => BookStep
<1> SUFFICES ASSUME IInv, Crash \/ Startup PROVE BookStep
  OBVIOUS
<1>1. CASE Crash \/ Restart \/ BootRestore
  BY <1>1, QuietStep DEF BookStep, Crash, Restart, BootRestore, ledgerVars
<1>2. ASSUME NEW d \in Decisions, BootApplyEntry(d) PROVE BookStep
  BY <1>2, ApplyEntryOpens DEF BookStep, Book!BookNext, BootApplyEntry, ReceivedEntries, venueVars
<1>3. ASSUME NEW t \in Trades, BootApplyClose(t) PROVE BookStep
  BY <1>3, ApplyCloseCloses DEF BookStep, Book!BookNext, BootApplyClose, ReceivedCloses, venueVars
<1>4. QED
  BY <1>1, <1>2, <1>3 DEF Startup

LEMMA ReconcileStep == IInv /\ Reconcile => BookStep
<1> SUFFICES ASSUME IInv, Reconcile PROVE BookStep
  OBVIOUS
<1>1. CASE MinuteBar \/ HigherBar \/ InventoryFails \/ InventoryRead \/ HistoryFails
            \/ ExternalDone \/ DeliveryDone \/ ExternalResult
  BY <1>1, QuietStep DEF BookStep, MinuteBar, HigherBar, InventoryFails, InventoryRead,
     HistoryFails, ExternalDone, DeliveryDone, ExternalResult, CloseResult, ledgerVars
<1>2. ASSUME NEW listed \in SUBSET Trades, HistoryRead(listed) PROVE BookStep
  BY <1>2, QuietStep DEF BookStep, HistoryRead, ledgerVars
<1>3. ASSUME NEW s \in Slots, ExternalBegin(s) PROVE BookStep
  BY <1>3, QuietStep DEF BookStep, ExternalBegin, BeginClose
<1>4. CASE ExternalApply
  <2>1. ct \in Trades /\ closeCmd[ct] = "received"
    BY <1>4 DEF ExternalApply, IInv, FlowInv, ExitInv
  <2>2. Book!Close(ct)
    BY <1>4, <2>1, ApplyCloseCloses DEF ExternalApply, venueVars
  <2>3. QED
    BY <2>1, <2>2 DEF BookStep, Book!BookNext
<1>5. ASSUME NEW o \in Owners, DeliverTo(o) PROVE BookStep
  BY <1>5, DeliveryTells DEF BookStep, Book!BookNext
<1>6. QED
  BY <1>1, <1>2, <1>3, <1>4, <1>5 DEF Reconcile

LEMMA ExitStep == IInv /\ Exit => BookStep
<1> SUFFICES ASSUME IInv, Exit PROVE BookStep
  OBVIOUS
<1>1. CASE ExitFails \/ ExitAnswerLost \/ ExitAccepted \/ ExitResult \/ RetryDone \/ BarEnds
  BY <1>1, QuietStep DEF BookStep, ExitFails, ExitAnswerLost, ExitAccepted, ExitResult,
     CloseResult, RetryDone, BarEnds, ledgerVars
<1>2. ASSUME NEW s \in Slots, RetrySkips(s) \/ RetryExit(s) \/ SubmitExit(s) PROVE BookStep
  BY <1>2, QuietStep DEF BookStep, RetrySkips, RetryExit, SubmitExit, ExitStart, BeginClose,
     ledgerVars
<1>3. CASE ExitApply
  <2>1. ct \in Trades /\ closeCmd[ct] = "received"
    BY <1>3 DEF ExitApply, IInv, FlowInv, ExitInv
  <2>2. Book!Close(ct)
    BY <1>3, <2>1, ApplyCloseCloses DEF ExitApply, venueVars
  <2>3. QED
    BY <2>1, <2>2 DEF BookStep, Book!BookNext
<1>4. QED
  BY <1>1, <1>2, <1>3 DEF Exit

LEMMA EntryStep == IInv /\ Entry => BookStep
<1> SUFFICES ASSUME IInv, Entry PROVE BookStep
  OBVIOUS
<1>1. CASE EntryInventoryRead \/ EntryInventoryFails \/ EntryNotSent \/ EntryUnresolved
  BY <1>1, QuietStep DEF BookStep, EntryInventoryRead, EntryInventoryFails, EntryNotSent,
     EntryUnresolved, ledgerVars
<1>2. ASSUME NEW d \in Decisions, SubmitFlip(d) \/ SubmitEntry(d) PROVE BookStep
  BY <1>2, QuietStep DEF BookStep, SubmitFlip, SubmitEntry, ExitStart, BeginClose, ledgerVars
<1>3. CASE EntrySent
  <2>1. want \in Decisions
    BY <1>3 DEF EntrySent, IInv, FlowInv, EntryStageInv
  <2>2. QED
    BY <1>3, <2>1, SentCommits DEF BookStep, Book!BookNext
<1>4. CASE EntryRefused
  BY <1>4, RefusedRefuses DEF BookStep, Book!BookNext
<1>5. ASSUME NEW t \in Trades, EntryAccepted(t) PROVE BookStep
  BY <1>5, QuietStep DEF BookStep, EntryAccepted, ledgerVars
<1>6. CASE EntryResultCommit
  BY <1>6, ResultIsQuiet DEF BookStep
<1>7. CASE EntryApplyCommit
  <2>1. want \in Decisions /\ entryCmd[want] = "received"
    BY <1>7 DEF EntryApplyCommit, IInv, FlowInv, EntryStageInv
  <2>2. entryTrade[want] \in Trades /\ Book!Open(want, entryTrade[want])
    BY <1>7, <2>1, ApplyEntryOpens DEF EntryApplyCommit, venueVars
  <2>3. QED
    BY <2>1, <2>2 DEF BookStep, Book!BookNext
<1>8. QED
  BY <1>1, <1>2, <1>3, <1>4, <1>5, <1>6, <1>7 DEF Entry

\* Live execution, crashes and the venue's own moves included, implements the
\* book of decisions and trades: the detailed specification refines TradeBook.
THEOREM BookImplemented == Spec => BookIsKept
<1>1. Init => Book!BookInit
  BY DEF Init, LedgerInit, Book!BookInit, stageBar, StageOf, bookBar, toldBar
<1>2. IInv /\ [Next]_vars => [Book!BookNext]_(Book!bookVars)
  <2> SUFFICES ASSUME IInv, [Next]_vars PROVE BookStep
    BY DEF BookStep, BookVars, Book!bookVars
  <2>1. CASE UNCHANGED vars
    BY <2>1, QuietStep DEF BookStep, vars, ledgerVars
  <2>2. CASE Next
    BY <2>2, VenueStep, StartupStep, ReconcileStep, ExitStep, EntryStep DEF Next
  <2>3. QED
    BY <2>1, <2>2
<1>3. QED
  BY <1>1, <1>2, Invariance, PTL DEF Spec, BookIsKept, Book!BookSpec

=============================================================================
