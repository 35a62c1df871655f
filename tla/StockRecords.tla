---------------------------- MODULE StockRecords ----------------------------
(***************************************************************************)
(* The rows the Pump 2 oil stock is made of, and the questions the code    *)
(* asks of them.                                                           *)
(*                                                                         *)
(*   Lubricant_Products.stock        one running total per product         *)
(*   Lubricant_Purchase_History      what was bought: the batches          *)
(*   Fuel_Entries / _Oil_Rows        what was sold: one entry per shift,   *)
(*                                   with the oil rows it sold             *)
(*                                                                         *)
(* Quantities are whole numbers: the code adds, subtracts and compares     *)
(* exact Decimals, so only their order and their sums matter.  A uuid4     *)
(* made by a request is modelled by the request itself: it is fresh, and   *)
(* one request creates at most one entry, one batch and one product.       *)
(***************************************************************************)
EXTENDS Integers, Sequences, FiniteSets, FiniteSetsExt

CONSTANTS
  Req,          \* the HTTP requests that may arrive
  Catalog,      \* products that exist before any of them
  OldEntries,   \* ids of the fuel entries that may exist before
  OldBatches,   \* ids of the purchase rows that may exist before
  Slots,        \* the (date, pump, shift) keys
  Pump2,        \* those of pump 2
  Dates, Costs, \* of purchases
  None          \* SQL NULL, "no row", "nobody"

ASSUME IdsAreDistinct ==
  /\ Catalog \cap Req = {}
  /\ None \notin Req \cup Catalog \cup OldEntries \cup OldBatches
  /\ Pump2 \subseteq Slots

\* A table has finitely many rows, so that what is on record can be summed.
ASSUME IdsAreFinite == IsFiniteSet(Req \cup OldEntries \cup OldBatches)

Products == Catalog \cup Req
EntryIds == OldEntries \cup Req
BatchIds == OldBatches \cup Req

\* `rate' is the cost of the batch the manager picked, copied into the row.
Row == [product : Products \cup {None}, count : Nat, rate : Costs]

Entry == [slot : Slots, final : BOOLEAN, rows : Seq(Row)]

Batch == [product : Products, date : Dates, cost : Costs, qty : Nat]

ASSUME NoneIsNoRow == None \notin Entry \cup Batch

(***************************************************************************)
(* Only a final entry of pump 2 moves stock: _apply_oil_stock returns      *)
(* early for pump 1, and a draft has no side effects.                      *)
(***************************************************************************)
MovesStock(e) == e.final /\ e.slot \in Pump2

RowsOf(e, p) == {i \in DOMAIN e.rows : e.rows[i].product = p}

\* What entry e takes out of product p's stock.
Taken(e, p) ==
  IF e # None /\ MovesStock(e)
  THEN MapThenSumSet(LAMBDA i : e.rows[i].count, RowsOf(e, p))
  ELSE 0

(***************************************************************************)
(* The queries of the lubricant repository.  They look at the final        *)
(* entries of both pumps, at one product and one rate.                     *)
(***************************************************************************)
FinalRowsAt(entries, p, c) ==
  {x \in UNION {{e} \X RowsOf(entries[e], p) :
                  e \in {f \in EntryIds : entries[f] # None /\ entries[f].final}} :
     entries[x[1]].rows[x[2]].rate = c}

\* sum_final_oil_row_count_at_rate
SoldAt(entries, p, c) ==
  MapThenSumSet(LAMBDA x : entries[x[1]].rows[x[2]].count, FinalRowsAt(entries, p, c))

\* has_final_oil_row_at_rate
HasFinalRowAt(entries, p, c) == FinalRowsAt(entries, p, c) # {}

\* has_fuel_entry_oil_rows: drafts count as well
HasRows(entries, p) == \E e \in EntryIds : entries[e] # None /\ RowsOf(entries[e], p) # {}

BatchesOf(batches, p) == {b \in BatchIds : batches[b] # None /\ batches[b].product = p}

Bought(batches, p) == MapThenSumSet(LAMBDA b : batches[b].qty, BatchesOf(batches, p))

BoughtAt(batches, p, c) ==
  MapThenSumSet(LAMBDA b : batches[b].qty, {b \in BatchesOf(batches, p) : batches[b].cost = c})

(***************************************************************************)
(* What the running total of p should be: everything bought less           *)
(* everything the final pump 2 entries sold.                               *)
(***************************************************************************)
Balance(entries, batches, p) ==
  Bought(batches, p) - MapThenSumSet(LAMBDA e : Taken(entries[e], p), EntryIds)

\* Mutation of Orphaned: the row goes, not only its product.
RowsGone(e, p) ==
  [e EXCEPT !.rows = [i \in DOMAIN @ |-> IF @[i].product = p THEN None ELSE @[i]]]

\* ON DELETE SET NULL on the oil rows that name a deleted product.
Orphaned(e, p) ==
  [e EXCEPT !.rows = [i \in DOMAIN @ |->
                        IF @[i].product = p THEN [@[i] EXCEPT !.product = None] ELSE @[i]]]
=============================================================================
