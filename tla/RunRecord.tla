------------------------------ MODULE RunRecord ------------------------------
(***************************************************************************)
(* What the database promises of every run of an engine, whichever way it  *)
(* is written and whoever else writes: its own record, numbered as if it   *)
(* were alone, grows a row at a time or arrives as a whole, each row       *)
(* belongs to the row it was made for, nothing stored changes, and the     *)
(* status of the run is final once.                                        *)
(***************************************************************************)
EXTENDS Integers, Sequences

CONSTANT Runs

VARIABLES
  record,   \* of each run: the rows of each table, linked by their own numbers
  status    \* of each run

Tables == {"bars", "signals", "orders", "fills", "snapshots", "events"}
NoRows == [t \in Tables |-> <<>>]
Final == {"done", "halted", "error"}

\* An order is in the timeframe of its signal, a fill is of its order's
\* quantity, and a risk event names a signal of the run or none.
Linked(rec) ==
  /\ \A i \in DOMAIN rec.orders :
       LET o == rec.orders[i] IN
         o.link \in DOMAIN rec.signals /\ rec.signals[o.link].item.tf = o.item.tf
  /\ \A i \in DOMAIN rec.fills :
       LET f == rec.fills[i] IN
         f.link \in DOMAIN rec.orders /\ rec.orders[f.link].item.qty \in {f.item, - f.item}
  /\ \A i \in DOMAIN rec.events : rec.events[i].link \in 0 .. Len(rec.signals)

Init == record = [r \in Runs |-> NoRows] /\ status = [r \in Runs |-> "new"]

Starts(r) ==
  /\ status[r] = "new" /\ status' = [status EXCEPT ![r] = "running"]
  /\ UNCHANGED record

\* The whole record at once, or one more row.
Extended(old, new) ==
  \/ old = NoRows
  \/ \E t \in Tables :
       /\ Len(new[t]) = Len(old[t]) + 1
       /\ SubSeq(new[t], 1, Len(old[t])) = old[t]
       /\ \A u \in Tables \ {t} : new[u] = old[u]

Grows(r) ==
  /\ status[r] = "running" /\ UNCHANGED status
  /\ \E old \in {record[r]}, new \in {record'[r]} :
       old # new /\ Extended(old, new) /\ Linked(new)
  /\ \A s \in Runs \ {r} : record'[s] = record[s]

Ends(r) ==
  /\ status[r] = "running"
  /\ \E s \in Final : status' = [status EXCEPT ![r] = s]
  /\ UNCHANGED record

Next == \E r \in Runs : Starts(r) \/ Grows(r) \/ Ends(r)

Spec == Init /\ [][Next]_<<record, status>>
=============================================================================
