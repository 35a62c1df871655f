---------------------------- MODULE StockLedger -----------------------------
(***************************************************************************)
(* What fuel entries and lubricant purchases promise together, with no     *)
(* requests, locks or transactions: every accepted change is one step that *)
(* moves the running totals by exactly what it adds to or takes from the   *)
(* record of purchases and sales.  FuelEntryStock is shown to implement    *)
(* this specification.                                                     *)
(*                                                                         *)
(* A step is stated as a relation between the rows before and after it, so *)
(* that no set of possible entries has to be enumerated.                   *)
(***************************************************************************)
EXTENDS StockRecords

VARIABLES live, stock, entry, batch

vars == <<live, stock, entry, batch>>

Init ==
  /\ live \subseteq Catalog
  /\ \A p \in live : stock[p] = Balance(entry, batch, p) /\ stock[p] >= 0

OnlyEntry(e) == \A f \in EntryIds \ {e} : entry'[f] = entry[f]

\* A fuel entry saved or resaved: its old sales go back, its new ones come out.
SaveEntry(e) ==
  /\ entry'[e] # None
  /\ OnlyEntry(e)
  /\ \A f \in EntryIds \ {e} : entry[f] # None => entry[f].slot # entry'[e].slot
  /\ \A i \in DOMAIN entry'[e].rows : entry'[e].rows[i].product \in live \cup {None}
  /\ \A p \in live :
       /\ stock'[p] = stock[p] + Taken(entry[e], p) - Taken(entry'[e], p)
       /\ stock'[p] >= 0
  /\ UNCHANGED <<live, batch>>

\* A fuel entry deleted: its sales go back, once.
RemoveEntry(e) ==
  /\ entry[e] # None
  /\ entry'[e] = None
  /\ OnlyEntry(e)
  /\ \A p \in live : stock'[p] = stock[p] + Taken(entry[e], p)
  /\ UNCHANGED <<live, batch>>

(***************************************************************************)
(* A change to the purchases of p never leaves a cost with less bought     *)
(* than the final entries say was sold at it, unless it already had.       *)
(***************************************************************************)
StaysCovered(p) ==
  \A c \in Costs :
    BoughtAt(batch', p, c) < BoughtAt(batch, p, c) =>
      SoldAt(entry, p, c) <= BoughtAt(batch', p, c)

\* A purchase recorded, corrected or deleted.
EditBatch(b) ==
  /\ \A d \in BatchIds \ {b} : batch'[d] = batch[d]
  /\ \A p \in live :
       /\ stock'[p] = stock[p] + Bought(batch', p) - Bought(batch, p)
       /\ stock'[p] >= 0
       /\ StaysCovered(p)
  /\ UNCHANGED <<live, entry>>

\* A product created, its opening stock recorded as its first purchase.
AddProduct(p) ==
  /\ p \notin live
  /\ live' = live \cup {p}
  /\ stock'[p] = Bought(batch', p)
  /\ \A q \in live : stock'[q] = stock[q] /\ BatchesOf(batch', q) = BatchesOf(batch, q)
  /\ UNCHANGED entry

\* A product deleted, with its purchases; its sales lose their product.
RemoveProduct(p) ==
  /\ p \in live
  /\ live' = live \ {p}
  /\ \A q \in live' : stock'[q] = stock[q]
  /\ batch' = [b \in BatchIds |-> IF b \in BatchesOf(batch, p) THEN None ELSE batch[b]]
  /\ entry' = [e \in EntryIds |-> IF entry[e] = None THEN None ELSE Orphaned(entry[e], p)]

Next ==
  \/ \E e \in EntryIds : SaveEntry(e) \/ RemoveEntry(e)
  \/ \E b \in BatchIds : EditBatch(b)
  \/ \E p \in Products : AddProduct(p) \/ RemoveProduct(p)

Spec == Init /\ [][Next]_vars
=============================================================================
