--------------------------- MODULE FuelEntryStock ---------------------------
(***************************************************************************)
(* Requests that save or delete fuel entries and edit lubricant purchases  *)
(* and products, as concurrent transactions on Postgres at READ COMMITTED. *)
(*                                                                         *)
(* One request has one session and one transaction (get_db): what it       *)
(* flushes stays private until the commit at its end, and any exception    *)
(* rolls all of it back.  The handlers run on one event loop and yield at  *)
(* every await, so a step here is a handler's work from one statement that *)
(* may wait, or whose result another request can change, to the next.      *)
(*                                                                         *)
(* This module keeps the stock: the entries with their oil rows, the       *)
(* purchases, the products.  The other things the same handlers write      *)
(* (ledger rows, bills, stock logs, the dashboard cache) and the check for *)
(* a closed month neither read nor write any of these; a rejection by one  *)
(* of them is an Abort here.                                                *)
(***************************************************************************)
EXTENDS StockRecords

CONSTANTS
  EntryWrites,  \* the FuelEntryWrite bodies a client may send
  BatchWrites,  \* the PurchaseCreate / PurchaseUpdate bodies
  Databases,    \* what may be on record before the requests arrive
  Loads         \* which kinds of request arrive together: functions of Req

Kinds == {"createEntry", "updateEntry", "deleteEntry",
          "addPurchase", "updatePurchase", "deletePurchase",
          "createProduct", "deleteProduct",
          "none"}   \* no request in this place

ASSUME WritesTyped == EntryWrites \subseteq Entry /\ BatchWrites \subseteq Batch

ASSUME LoadsTyped == Loads \subseteq [Req -> Kinds]

ASSUME DatabasesTyped ==
  \A d \in Databases :
    /\ d.live \subseteq Catalog
    /\ d.stock \in [Products -> Int]
    /\ d.entry \in [EntryIds -> Entry \cup {None}]
    /\ d.batch \in [BatchIds -> Batch \cup {None}]
    /\ \A p \in d.live : d.stock[p] >= 0

(***************************************************************************)
(* The requests' own ids are not in use yet, the foreign keys hold, and    *)
(* the running totals agree with the record the earlier requests left: the *)
(* properties are about what these requests make of it.                    *)
(***************************************************************************)
ASSUME DatabasesSound ==
  \A d \in Databases :
    /\ \A r \in Req : d.entry[r] = None /\ d.batch[r] = None
    /\ \A e \in EntryIds : d.entry[e] # None =>
         \A i \in DOMAIN d.entry[e].rows : d.entry[e].rows[i].product \in d.live \cup {None}
    /\ \A b \in BatchIds : d.batch[b] # None => d.batch[b].product \in d.live
    /\ \A p \in d.live : d.stock[p] = Balance(d.entry, d.batch, p)

VARIABLES
  \* committed
  live,     \* the products on record
  stock,    \* Lubricant_Products.stock
  entry,    \* Fuel_Entries with their oil rows
  batch,    \* Lubricant_Purchase_History
  \* one per request
  kind,     \* what it asks for
  pc,       \* the statement it is at
  job,      \* the ids and rows it works on
  old,      \* the entry as it read it
  todo,     \* oil rows whose stock it has yet to move
  view,     \* product.stock in its session
  base,     \* history: the committed stock its first `view' was read from
  \* the row locks its transaction holds in Postgres
  owns,     \* FOR UPDATE on products
  shares,   \* FOR KEY SHARE on products, taken by the foreign key of an oil row
  locked    \* FOR UPDATE on fuel entries

committed == <<live, stock, entry, batch>>
locks     == <<owns, shares, locked>>
vars      == <<committed, kind, pc, job, old, todo, view, base, locks>>

Running(r) == pc[r] \notin {"idle", "done", "failed"}

Init ==
  /\ \E d \in Databases :
       live = d.live /\ stock = d.stock /\ entry = d.entry /\ batch = d.batch
  /\ kind \in Loads
  /\ pc = [r \in Req |-> "idle"]
  /\ job = [r \in Req |-> None]
  /\ old = [r \in Req |-> None]
  /\ todo = [r \in Req |-> <<>>]
  /\ view = [r \in Req |-> [p \in Products |-> 0]]
  /\ base = [r \in Req |-> [p \in Products |-> 0]]
  /\ owns = [r \in Req |-> {}]
  /\ shares = [r \in Req |-> {}]
  /\ locked = [r \in Req |-> {}]
-----------------------------------------------------------------------------
(***************************************************************************)
(* Locks, and the end of a transaction                                     *)
(***************************************************************************)
\* Mutation of MayOwn: product.stock is read without lock_for_update.
NoLock(r, p) == TRUE

\* FOR UPDATE waits for every other lock on the row, FOR KEY SHARE for FOR UPDATE.
MayShare(r, p) == \A q \in Req \ {r} : p \notin owns[q]
MayOwn(r, p)   == \A q \in Req \ {r} : p \notin owns[q] \cup shares[q]
MayLock(r, e)  == \A q \in Req \ {r} : e \notin locked[q]

\* Mutation of Seen: each row starts from the committed stock again.
SeenCommitted(r, p) == stock[p]

\* product.stock as r's session sees it once it holds the lock: its own flushed
\* value, or else the committed one, which only now is read.
Seen(r, p) == IF p \in owns[r] THEN view[r][p] ELSE stock[p]

Own(r, p, value) ==
  /\ owns' = [owns EXCEPT ![r] = @ \cup {p}]
  /\ view' = [view EXCEPT ![r][p] = value]
  /\ base' = [base EXCEPT ![r][p] = IF p \in owns[r] THEN @ ELSE stock[p]]

\* Mutation of Release: the session is not closed.
KeepLocks(r) == UNCHANGED locks

Release(r) ==
  /\ owns' = [owns EXCEPT ![r] = {}]
  /\ shares' = [shares EXCEPT ![r] = {}]
  /\ locked' = [locked EXCEPT ![r] = {}]

\* The session is closed, and with it the transaction.
End(r, outcome) ==
  /\ pc' = [pc EXCEPT ![r] = outcome]
  /\ job' = [job EXCEPT ![r] = None]
  /\ old' = [old EXCEPT ![r] = None]
  /\ todo' = [todo EXCEPT ![r] = <<>>]
  /\ view' = [view EXCEPT ![r] = [p \in Products |-> 0]]
  /\ base' = [base EXCEPT ![r] = [p \in Products |-> 0]]
  /\ Release(r)
  /\ UNCHANGED kind

\* ConflictError, NotFoundError or IntegrityError: get_db rolls back.
Reject(r) == End(r, "failed") /\ UNCHANGED committed

Goto(r, at) == pc' = [pc EXCEPT ![r] = at] /\ UNCHANGED kind
-----------------------------------------------------------------------------
(***************************************************************************)
(* Requests arrive                                                         *)
(***************************************************************************)
Begin(r, k, at, id, e, b) ==
  /\ pc[r] = "idle"
  /\ kind[r] = k
  /\ Goto(r, at)
  /\ job' = [job EXCEPT ![r] = [id |-> id, entry |-> e, batch |-> b]]

CreateEntry(r) ==
  /\ \E w \in EntryWrites : Begin(r, "createEntry", "restore", r, w, None)
  /\ UNCHANGED <<committed, old, todo, view, base, locks>>

UpdateEntry(r) ==
  /\ \E e \in EntryIds, w \in EntryWrites : Begin(r, "updateEntry", "lock", e, w, None)
  /\ UNCHANGED <<committed, old, todo, view, base, locks>>

\* Mutation of StockRows: the rows of a draft are given back too.
DraftRowsToo(e) == IF e.slot \in Pump2 THEN e.rows ELSE <<>>

StockRows(e) == IF MovesStock(e) THEN e.rows ELSE <<>>

\* delete() reads the entry with no lock.
DeleteEntry(r) ==
  /\ \E e \in EntryIds :
       /\ entry[e] # None
       /\ Begin(r, "deleteEntry", "restore", e, None, None)
       /\ old' = [old EXCEPT ![r] = entry[e]]
       /\ todo' = [todo EXCEPT ![r] = StockRows(entry[e])]
  /\ UNCHANGED <<committed, view, base, locks>>

AddPurchase(r) ==
  /\ \E w \in BatchWrites : w.qty > 0 /\ Begin(r, "addPurchase", "edit", r, None, w)
  /\ UNCHANGED <<committed, old, todo, view, base, locks>>

UpdatePurchase(r) ==
  /\ \E b \in BatchIds, w \in BatchWrites :
       w.qty > 0 /\ Begin(r, "updatePurchase", "edit", b, None, w)
  /\ UNCHANGED <<committed, old, todo, view, base, locks>>

DeletePurchase(r) ==
  /\ \E b \in BatchIds :
       batch[b] # None /\ Begin(r, "deletePurchase", "edit", b, None, batch[b])
  /\ UNCHANGED <<committed, old, todo, view, base, locks>>

CreateProduct(r) ==
  /\ \E w \in BatchWrites :
       Begin(r, "createProduct", "commit", r, None, [w EXCEPT !.product = r])
  /\ UNCHANGED <<committed, old, todo, view, base, locks>>

\* The check for oil rows is made here, before anything is locked.
DeleteProduct(r) ==
  /\ \E p \in live : ~ HasRows(entry, p) /\ Begin(r, "deleteProduct", "drop", p, None, None)
  /\ UNCHANGED <<committed, old, todo, view, base, locks>>
-----------------------------------------------------------------------------
(***************************************************************************)
(* Fuel entries                                                            *)
(***************************************************************************)
\* get_with_details_for_update: what it reads is read once the lock is held.
LockEntry(r) ==
  /\ pc[r] = "lock"
  /\ LET e == job[r].id IN
     /\ MayLock(r, e)
     /\ \/ entry[e] = None /\ Reject(r)
        \/ /\ entry[e] # None
           /\ locked' = [locked EXCEPT ![r] = @ \cup {e}]
           /\ old' = [old EXCEPT ![r] = entry[e]]
           /\ todo' = [todo EXCEPT ![r] = StockRows(entry[e])]
           /\ Goto(r, "restore")
           /\ UNCHANGED <<committed, job, view, base, owns, shares>>

\* Mutation of Oversold: the sale is not checked against the stock.
NeverOversold(delta, resulting) == FALSE

\* Only a sale is refused: giving stock back cannot take it negative.
Oversold(delta, resulting) == delta < 0 /\ resulting < 0

\* _adjust_stock for one row, given back (+) or sold (-).
AdjustStock(r) ==
  /\ pc[r] \in {"restore", "sell"}
  /\ todo[r] # <<>>
  /\ LET row == Head(todo[r])
         p == row.product
         delta == IF pc[r] = "restore" THEN row.count ELSE -row.count
         rest == [todo EXCEPT ![r] = Tail(@)]
     IN
     \/ /\ p \notin live \/ row.count = 0
        /\ todo' = rest
        /\ UNCHANGED <<committed, kind, pc, job, old, view, base, locks>>
     \/ /\ p \in live /\ row.count # 0
        /\ MayOwn(r, p)
        /\ LET resulting == Seen(r, p) + delta IN
           \/ Oversold(delta, resulting) /\ Reject(r)
           \/ /\ ~ Oversold(delta, resulting)
              /\ Own(r, p, resulting)
              /\ todo' = rest
              /\ UNCHANGED <<committed, kind, pc, job, old, shares, locked>>

\* Keys of Fuel_Entries that q has written or deleted and not committed.
Touched(q) ==
  LET now == entry[job[q].id] IN
  CASE pc[q] \in {"rows", "sell"} ->
         {job[q].entry.slot} \cup (IF now # None THEN {now.slot} ELSE {})
    [] pc[q] = "commit" /\ kind[q] = "deleteEntry" ->
         IF now # None THEN {now.slot} ELSE {}
    [] OTHER -> {}

\* The INSERT or UPDATE of the entry row, under uq_fuel_entries_date_pump_shift: it
\* waits for a transaction that wrote the same key, and fails on a committed one.
WriteEntry(r) ==
  /\ pc[r] = "restore"
  /\ todo[r] = <<>>
  /\ kind[r] # "deleteEntry"
  /\ LET s == job[r].entry.slot
         taken == \E f \in EntryIds \ {job[r].id} : entry[f] # None /\ entry[f].slot = s
     IN
     /\ \A q \in Req \ {r} : s \notin Touched(q)
     /\ \/ taken /\ Reject(r)
        \/ /\ ~taken
           /\ Goto(r, "rows")
           /\ UNCHANGED <<committed, job, old, todo, view, base, locks>>

ProductsOf(e) == {e.rows[i].product : i \in DOMAIN e.rows} \ {None}

\* The flush of the oil rows.  The foreign key of each takes a FOR KEY SHARE lock on
\* its product, and fails if there is no such product.
WriteRows(r) ==
  /\ pc[r] = "rows"
  /\ LET new == job[r].entry
         ps == ProductsOf(new)
     IN
     \/ /\ ~(ps \subseteq live)
        /\ Reject(r)
     \/ /\ ps \subseteq live
        /\ \A p \in ps : MayShare(r, p)
        /\ shares' = [shares EXCEPT ![r] = @ \cup ps]
        /\ todo' = [todo EXCEPT ![r] = StockRows(new)]
        /\ Goto(r, "sell")
        /\ UNCHANGED <<committed, job, old, view, base, owns, locked>>

\* DELETE of the entry: it waits for whoever holds the row, and then deletes whatever is
\* there; of a row that is gone by now it deletes nothing, which is only a warning.
RemoveEntry(r) ==
  /\ pc[r] = "restore"
  /\ todo[r] = <<>>
  /\ kind[r] = "deleteEntry"
  /\ MayLock(r, job[r].id)
  /\ locked' = [locked EXCEPT ![r] = @ \cup {job[r].id}]
  /\ Goto(r, "commit")
  /\ UNCHANGED <<committed, job, old, todo, view, base, owns, shares>>
-----------------------------------------------------------------------------
(***************************************************************************)
(* Purchases and products                                                  *)
(***************************************************************************)
\* The row the request is about: add_purchase upserts by (date, cost), the others go by
\* id within the product's own history.
Matches(r) ==
  LET w == job[r].batch IN
  IF kind[r] = "addPurchase"
  THEN {b \in BatchesOf(batch, w.product) : batch[b].date = w.date /\ batch[b].cost = w.cost}
  ELSE {job[r].id} \cap BatchesOf(batch, w.product)

\* _guard_qty_reduction, and the check on a changed cost in update_purchase
MayChange(p, was, w) ==
  /\ w.cost # was.cost => ~ HasFinalRowAt(entry, p, was.cost)
  /\ w.qty < was.qty => w.qty >= SoldAt(entry, p, was.cost) /\ stock[p] + w.qty - was.qty >= 0

\* Mutation of MayDelete: only the overall stock is looked at.
MayDeleteByStock(p, b) == stock[p] - batch[b].qty >= 0

\* delete_purchase: what is left at that cost must cover what was sold at it
MayDelete(p, b) ==
  /\ SoldAt(entry, p, batch[b].cost) > 0 =>
       BoughtAt(batch, p, batch[b].cost) - batch[b].qty >= SoldAt(entry, p, batch[b].cost)
  /\ stock[p] - batch[b].qty >= 0

\* lock_for_update, then the product, its history and the guards, all read afresh.
EditPurchase(r) ==
  /\ pc[r] = "edit"
  /\ LET w == job[r].batch
         p == w.product
         Stage(b, new, value) ==
           /\ Own(r, p, value)
           /\ job' = [job EXCEPT ![r].id = b, ![r].batch = new]
           /\ Goto(r, "commit")
           /\ UNCHANGED <<committed, old, todo, shares, locked>>
     IN
     \/ p \notin live /\ Reject(r)
     \/ /\ p \in live
        /\ MayOwn(r, p)
        /\ \/ /\ Matches(r) = {}
              /\ IF kind[r] = "addPurchase" THEN Stage(r, w, stock[p] + w.qty) ELSE Reject(r)
           \/ /\ kind[r] # "deletePurchase"
              /\ \E b \in Matches(r) :
                   IF MayChange(p, batch[b], w)
                   THEN Stage(b, w, stock[p] + w.qty - batch[b].qty)
                   ELSE Reject(r)
           \/ /\ kind[r] = "deletePurchase"
              /\ \E b \in Matches(r) :
                   IF MayDelete(p, b)
                   THEN Stage(b, None, stock[p] - batch[b].qty)
                   ELSE Reject(r)

\* DELETE of the product: it waits for every lock on the row.
DropProduct(r) ==
  /\ pc[r] = "drop"
  /\ LET p == job[r].id IN
     \/ /\ p \notin live
        /\ Goto(r, "commit")
        /\ UNCHANGED <<committed, job, old, todo, view, base, locks>>
     \/ /\ p \in live
        /\ MayOwn(r, p)
        /\ Own(r, p, stock[p])
        /\ Goto(r, "commit")
        /\ UNCHANGED <<committed, job, old, todo, shares, locked>>
-----------------------------------------------------------------------------
(***************************************************************************)
(* The commit of get_db, and the ways not to reach it                      *)
(***************************************************************************)
Ready(r) == pc[r] = "commit" \/ (pc[r] = "sell" /\ todo[r] = <<>>)

CommitEntry(r) ==
  /\ kind[r] \in {"createEntry", "updateEntry", "deleteEntry"}
  /\ entry' = [entry EXCEPT ![job[r].id] = job[r].entry]
  /\ stock' = [p \in Products |-> IF p \in owns[r] THEN view[r][p] ELSE stock[p]]
  /\ UNCHANGED <<live, batch>>

CommitPurchase(r) ==
  /\ kind[r] \in {"addPurchase", "updatePurchase", "deletePurchase"}
  /\ batch' = [batch EXCEPT ![job[r].id] = job[r].batch]
  /\ stock' = [p \in Products |-> IF p \in owns[r] THEN view[r][p] ELSE stock[p]]
  /\ UNCHANGED <<live, entry>>

CommitProduct(r) ==
  \/ /\ kind[r] = "createProduct"
     /\ live' = live \cup {r}
     /\ stock' = [stock EXCEPT ![r] = job[r].batch.qty]
     /\ batch' = [batch EXCEPT ![r] = job[r].batch]
     /\ UNCHANGED entry
  \/ /\ kind[r] = "deleteProduct"
     /\ LET p == job[r].id IN
        /\ live' = live \ {p}
        /\ batch' = [b \in BatchIds |-> IF b \in BatchesOf(batch, p) THEN None ELSE batch[b]]
        /\ entry' = [e \in EntryIds |->
                       IF entry[e] = None THEN None ELSE Orphaned(entry[e], p)]
     /\ UNCHANGED stock

Commit(r) ==
  /\ Ready(r)
  /\ CommitEntry(r) \/ CommitPurchase(r) \/ CommitProduct(r)
  /\ End(r, "done")

\* A lost connection, a restart, or an exception from a part that is not modelled here.
Abort(r) == Running(r) /\ Reject(r)

\* Whom r's next statement waits for.
WaitsFor(r) ==
  LET blocking(p) == {q \in Req \ {r} : p \in owns[q] \cup shares[q]}
      locking(e)  == {q \in Req \ {r} : e \in locked[q]}
      row         == Head(todo[r])
  IN
  CASE pc[r] = "lock" -> locking(job[r].id)
    [] pc[r] \in {"restore", "sell"} /\ todo[r] # <<>> ->
         IF row.product \in live /\ row.count # 0 THEN blocking(row.product) ELSE {}
    [] pc[r] = "restore" /\ todo[r] = <<>> /\ kind[r] = "deleteEntry" -> locking(job[r].id)
    [] pc[r] = "restore" /\ todo[r] = <<>> /\ kind[r] # "deleteEntry" ->
         {q \in Req \ {r} : job[r].entry.slot \in Touched(q)}
    [] pc[r] = "rows" -> {q \in Req \ {r} : ProductsOf(job[r].entry) \cap owns[q] # {}}
    [] pc[r] = "edit" /\ job[r].batch.product \in live -> blocking(job[r].batch.product)
    [] pc[r] = "drop" /\ job[r].id \in live -> blocking(job[r].id)
    [] OTHER -> {}

\* A smallest set of requests that each wait for one of the set is a cycle.
Stuck(S) == S # {} /\ \A q \in S : WaitsFor(q) \cap S # {}
InCycle(r) == \E S \in SUBSET Req :
                r \in S /\ Stuck(S) /\ \A T \in SUBSET S : Stuck(T) => T = S

\* Postgres' deadlock detector: one of a cycle of waiting transactions is aborted.
DetectDeadlock(r) == InCycle(r) /\ Reject(r)

Arrive(r) ==
  \/ CreateEntry(r) \/ UpdateEntry(r) \/ DeleteEntry(r)
  \/ AddPurchase(r) \/ UpdatePurchase(r) \/ DeletePurchase(r)
  \/ CreateProduct(r) \/ DeleteProduct(r)

Proceed(r) ==
  \/ LockEntry(r) \/ AdjustStock(r) \/ WriteEntry(r) \/ WriteRows(r) \/ RemoveEntry(r)
  \/ EditPurchase(r) \/ DropProduct(r)
  \/ Commit(r)

\* Nobody is being served: the server waits for the next request.
Quiet == (\A r \in Req : ~Running(r)) /\ UNCHANGED vars

Next ==
  \/ \E r \in Req : Arrive(r) \/ Proceed(r) \/ DetectDeadlock(r) \/ Abort(r)
  \/ Quiet

(***************************************************************************)
(* The event loop resumes a handler whose statement has returned, and      *)
(* Postgres grants a free lock and breaks a deadlock.  Nothing makes a     *)
(* request arrive or a connection drop.                                    *)
(***************************************************************************)
Fairness ==
  /\ \A r \in Req : WF_vars(Proceed(r))
  /\ WF_vars(\E r \in Req : DetectDeadlock(r))

Spec == Init /\ [][Next]_vars
FairSpec == Spec /\ Fairness
-----------------------------------------------------------------------------
(***************************************************************************)
(* Properties                                                              *)
(***************************************************************************)
Job == [id : EntryIds \cup BatchIds \cup Products,
        entry : Entry \cup {None}, batch : Batch \cup {None}]

\* The shape of every table and of every request's private state.
TypeOK ==
  /\ live \subseteq Products
  /\ stock \in [Products -> Int]
  /\ entry \in [EntryIds -> Entry \cup {None}]
  /\ batch \in [BatchIds -> Batch \cup {None}]
  /\ kind \in [Req -> Kinds]
  /\ pc \in [Req -> {"idle", "lock", "restore", "rows", "sell", "edit", "drop", "commit",
                     "done", "failed"}]
  /\ job \in [Req -> Job \cup {None}]
  /\ old \in [Req -> Entry \cup {None}]
  /\ todo \in [Req -> Seq(Row)]
  /\ view \in [Req -> [Products -> Int]]
  /\ base \in [Req -> [Products -> Int]]
  /\ owns \in [Req -> SUBSET Products]
  /\ shares \in [Req -> SUBSET Products]
  /\ locked \in [Req -> SUBSET EntryIds]

(***************************************************************************)
(* The running total never drifts from the record: what is left of a       *)
(* product is what was bought less what the final pump 2 entries sold,     *)
(* whatever requests were interleaved or cut off.  It takes the row lock,  *)
(* the reversal of the old rows and the rollback together.                 *)
(***************************************************************************)
StockConserved == \A p \in live : stock[p] = Balance(entry, batch, p)

(***************************************************************************)
(* No interleaving of sales, purchase corrections and reversals takes the  *)
(* stock of a product below zero: each guard looks at a value that is      *)
(* still the current one when the change it allows is committed.           *)
(***************************************************************************)
StockNonNegative == \A p \in live : stock[p] >= 0

(***************************************************************************)
(* No lost update: as long as a request has a private value for a          *)
(* product's stock, the committed value is the one it started from, so its *)
(* commit overwrites nobody's change.                                      *)
(***************************************************************************)
NoLostUpdate == \A r \in Req : \A p \in owns[r] : base[r][p] = stock[p]

Ledger == INSTANCE StockLedger WITH live <- live, stock <- stock, entry <- entry, batch <- batch

(***************************************************************************)
(* A correction or deletion of a purchase never leaves less bought at its  *)
(* cost than the final entries sold at it: a sale being saved at the same  *)
(* time is either seen by the guard or waits for the correction.           *)
(***************************************************************************)
EditsStayCovered ==
  [][(\E r \in Req : kind[r] \in {"addPurchase", "updatePurchase", "deletePurchase"}
                     /\ pc[r] = "commit" /\ pc'[r] = "done")
       => \A p \in live : Ledger!StaysCovered(p)]_vars

(***************************************************************************)
(* Every request that arrived is answered, in spite of the waits: also two *)
(* sales of one product, which deadlock (each holds the foreign key's      *)
(* share lock that the other's FOR UPDATE waits for).                      *)
(***************************************************************************)
RequestsAnswered == \A r \in Req : Running(r) ~> ~Running(r)

(***************************************************************************)
(* The transactions behave as if each had run alone: every commit is one   *)
(* step of StockLedger on the rows as they then are, all else is invisible.*)
(***************************************************************************)
ImplementsLedger == Ledger!Spec
=============================================================================
