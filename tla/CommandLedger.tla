--------------------------- MODULE CommandLedger ---------------------------
(***************************************************************************)
(* The durable half of live execution: the recorder's execution_commands   *)
(* table and the order rows it turns into (persistence/recorder.py).       *)
(*                                                                         *)
(* An entry command is keyed by the digest of the strategy's decision, a   *)
(* close command by the venue's trade id, so the two tables below are      *)
(* indexed by decision and by trade.  Every operator is one committed      *)
(* transaction and constrains only the variables of this module.           *)
(***************************************************************************)
EXTENDS Sequences, Naturals

CONSTANTS
  Slots,         \* execution keys "owner:slot", one isolated trade each
  Trades,        \* venue trade ids
  Decisions,     \* entry decisions (the digests that key entry commands)
  DecisionSlot,  \* the slot each decision is for
  NoTrade,       \* no trade id
  NoSlot         \* no order row has named an owner

ASSUME DecisionSlotType == DecisionSlot \in [Decisions -> Slots]
ASSUME NoTradeIsNone == NoTrade \notin Trades
ASSUME NoSlotIsNone == NoSlot \notin Slots

VARIABLES
  entryCmd,    \* status of the entry command of a decision
  entryTrade,  \* the trade id in its result_json
  closeCmd,    \* status of the close command of a trade
  external,    \* trades whose close result carries an external_event
  notified,    \* trades whose close command has notified = 1
  rows,        \* the isolated_action of the order rows of a trade, oldest first
  holder       \* the slot named by a trade's opening row

ledgerVars ==
  <<entryCmd, entryTrade, closeCmd, external, notified, rows, holder>>

Status == {"none", "submitted", "received", "applied", "rejected"}

LedgerTypeOK ==
  /\ entryCmd \in [Decisions -> Status]
  /\ entryTrade \in [Decisions -> Trades \cup {NoTrade}]
  /\ closeCmd \in [Trades -> Status \ {"rejected"}]
  /\ external \in SUBSET Trades
  /\ notified \in SUBSET Trades
  /\ rows \in [Trades -> Seq({"open", "close"})]
  /\ holder \in [Trades -> Slots \cup {NoSlot}]

LedgerInit ==
  /\ entryCmd = [d \in Decisions |-> "none"]
  /\ entryTrade = [d \in Decisions |-> NoTrade]
  /\ closeCmd = [t \in Trades |-> "none"]
  /\ external = {}
  /\ notified = {}
  /\ rows = [t \in Trades |-> <<>>]
  /\ holder = [t \in Trades |-> NoSlot]

-----------------------------------------------------------------------------
(* Reads.                                                                  *)

\* A trade is locally open while its latest order row is still an open.
LocallyOpen ==
  {t \in Trades : rows[t] # <<>> /\ rows[t][Len(rows[t])] = "open"}

OpenIn(s) == {t \in LocallyOpen : holder[t] = s}

\* Faulty: an entry whose answer never came no longer counts.
OnlyReceivedUnresolved == \E d \in Decisions : entryCmd[d] = "received"
UnresolvedEntry == \E d \in Decisions : entryCmd[d] \in {"submitted", "received"}

ReceivedEntries == {d \in Decisions : entryCmd[d] = "received"}
ReceivedCloses == {t \in Trades : closeCmd[t] = "received"}

\* Applied closes the venue made, not yet acknowledged by their strategy.
PendingExternalEvents ==
  {t \in Trades : closeCmd[t] = "applied" /\ t \in external \ notified}

-----------------------------------------------------------------------------
(* Entry commands.                                                         *)

\* Faulty: the insert's row count is not looked at.
EntryAlwaysNew(d) == entryCmd[d] \in Status

\* INSERT ... ON CONFLICT DO NOTHING: the caller tells the two cases apart.
EntryIsNew(d) == entryCmd[d] = "none"

BeginEntry(d) ==
  /\ entryCmd' = [entryCmd EXCEPT ![d] = IF @ = "none" THEN "submitted" ELSE @]
  /\ UNCHANGED <<entryTrade, closeCmd, external, notified, rows, holder>>

EntryResult(d, t) ==
  /\ entryCmd' = [entryCmd EXCEPT
                    ![d] = IF @ \in {"none", "applied"} THEN @ ELSE "received"]
  /\ entryTrade' = [entryTrade EXCEPT
                    ![d] = IF entryCmd[d] \in {"none", "applied"} THEN @ ELSE t]
  /\ UNCHANGED <<closeCmd, external, notified, rows, holder>>

RejectEntry(d) ==
  /\ entryCmd' = [entryCmd EXCEPT ![d] = IF @ = "none" THEN @ ELSE "rejected"]
  /\ UNCHANGED <<entryTrade, closeCmd, external, notified, rows, holder>>

\* Order row, fill, accounting and command status commit together; an applied
\* command returns its stored ids, any other status than received raises.
ApplyEntry(d) ==
  \/ /\ entryCmd[d] = "applied"
     /\ UNCHANGED ledgerVars
  \/ /\ entryCmd[d] = "received"
     /\ entryCmd' = [entryCmd EXCEPT ![d] = "applied"]
     /\ rows' = [rows EXCEPT ![entryTrade[d]] = Append(@, "open")]
     /\ holder' = [holder EXCEPT ![entryTrade[d]] = DecisionSlot[d]]
     /\ UNCHANGED <<entryTrade, closeCmd, external, notified>>

-----------------------------------------------------------------------------
(* Close commands.                                                         *)

BeginClose(t) ==
  /\ closeCmd' = [closeCmd EXCEPT ![t] = IF @ = "none" THEN "submitted" ELSE @]
  /\ UNCHANGED <<entryCmd, entryTrade, external, notified, rows, holder>>

\* byVenue: the result carries an external_event for the owning strategy.
CloseResult(t, byVenue) ==
  /\ closeCmd' = [closeCmd EXCEPT
                    ![t] = IF @ \in {"none", "applied"} THEN @ ELSE "received"]
  /\ external' = IF closeCmd[t] \in {"none", "applied"} THEN external
                 ELSE IF byVenue THEN external \cup {t} ELSE external \ {t}
  /\ UNCHANGED <<entryCmd, entryTrade, notified, rows, holder>>

\* Faulty: the rows commit, the command's status does not.
ApplyCloseKeepingStatus(t) ==
  /\ closeCmd[t] = "received"
  /\ rows' = [rows EXCEPT ![t] = Append(@, "close")]
  /\ UNCHANGED <<entryCmd, entryTrade, closeCmd, external, notified, holder>>

ApplyClose(t) ==
  \/ /\ closeCmd[t] = "applied"
     /\ UNCHANGED ledgerVars
  \/ /\ closeCmd[t] = "received"
     /\ closeCmd' = [closeCmd EXCEPT ![t] = "applied"]
     /\ rows' = [rows EXCEPT ![t] = Append(@, "close")]
     /\ notified' = IF t \in external THEN notified \ {t} ELSE notified \cup {t}
     /\ UNCHANGED <<entryCmd, entryTrade, external, holder>>

AcknowledgeCloses(T) ==
  /\ notified' = notified \cup T
  /\ UNCHANGED <<entryCmd, entryTrade, closeCmd, external, rows, holder>>

=============================================================================
