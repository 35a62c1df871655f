----------------------- MODULE FuelEntryStock_proofs ------------------------
(***************************************************************************)
(* Proofs about FuelEntryStock for any number of requests, products,       *)
(* entries and purchases, any request bodies and any database to start     *)
(* from.  The inductive invariant is IInv.                                 *)
(***************************************************************************)
EXTENDS FuelEntryStock, SequenceTheorems, TLAPS

EntryKinds    == {"createEntry", "updateEntry"}
PurchaseKinds == {"addPurchase", "updatePurchase", "deletePurchase"}

(***************************************************************************)
(* What a request carries fits what it asks for, as long as it runs.       *)
(***************************************************************************)
JobsFit ==
  \A r \in Req : Running(r) =>
    /\ job[r] \in Job
    /\ pc[r] \in {"lock", "rows", "sell"} => kind[r] \in EntryKinds
    /\ pc[r] = "restore" => kind[r] \in EntryKinds \cup {"deleteEntry"}
    /\ pc[r] = "edit" => kind[r] \in PurchaseKinds /\ job[r].batch \in Batch
    /\ pc[r] = "drop" => kind[r] = "deleteProduct"
    /\ pc[r] = "commit" => kind[r] \notin EntryKinds
    /\ kind[r] \in EntryKinds \cup {"deleteEntry"} => job[r].id \in EntryIds
    /\ kind[r] \in EntryKinds => job[r].entry \in Entry
    /\ kind[r] = "createProduct" => job[r].batch \in Batch

\* A product is neither on record nor locked before the request that creates it is done.
ProductsFresh ==
  \A r \in Req : kind[r] = "createProduct" /\ pc[r] # "done" =>
    r \notin live /\ \A q \in Req : r \notin owns[q]

\* Nobody locks a product that another request owns.
OwnersExclusive ==
  \A r, q \in Req : r # q => owns[r] \cap (owns[q] \cup shares[q]) = {}

\* A value that waits to be committed is no negative stock.
ViewsNonNegative == \A r \in Req : \A p \in owns[r] : view[r][p] >= 0

IInv ==
  /\ TypeOK
  /\ JobsFit
  /\ ProductsFresh
  /\ OwnersExclusive
  /\ NoLostUpdate
  /\ ViewsNonNegative
  /\ StockNonNegative
-----------------------------------------------------------------------------
(***************************************************************************)
(* Lemmas about data                                                       *)
(***************************************************************************)
\* Dropping a product from an entry's rows leaves an entry.
LEMMA OrphanedIsEntry ==
  ASSUME NEW e \in Entry, NEW p
  PROVE  Orphaned(e, p) \in Entry
<1> DEFINE rs == [i \in DOMAIN e.rows |->
                    IF e.rows[i].product = p THEN [e.rows[i] EXCEPT !.product = None]
                                             ELSE e.rows[i]]
<1>1. e.rows \in Seq(Row)
  BY DEF Entry
<1>2. Len(e.rows) \in Nat /\ e.rows \in [1..Len(e.rows) -> Row] /\ DOMAIN e.rows = 1..Len(e.rows)
  BY <1>1, LenProperties
<1>3. rs \in [1..Len(e.rows) -> Row]
  BY <1>2 DEF Row
<1>4. rs \in Seq(Row)
  BY <1>2, <1>3, SeqDef
<1>5. Orphaned(e, p) = [e EXCEPT !.rows = rs]
  BY DEF Orphaned
<1>6. QED
  BY <1>4, <1>5 DEF Entry

\* The rows whose stock an entry moves are rows.
LEMMA StockRowsTyped ==
  ASSUME NEW e \in Entry
  PROVE  StockRows(e) \in Seq(Row)
BY EmptySeq DEF StockRows, Entry

\* The first row of a work list is a row, and what remains is a work list.
LEMMA HeadTailTyped ==
  ASSUME NEW s \in Seq(Row), s # <<>>
  PROVE  /\ Head(s) \in Row /\ Tail(s) \in Seq(Row)
         /\ Head(s).count \in Nat /\ Head(s).product \in Products \cup {None}
<1>1. Head(s) \in Row /\ Tail(s) \in Seq(Row)
  BY HeadTailProperties
<1>2. QED
  BY <1>1 DEF Row
-----------------------------------------------------------------------------
(***************************************************************************)
(* The end of a transaction                                                *)
(***************************************************************************)
\* Ending a request, with the committed tables left alone, keeps the invariant.
LEMMA RejectKeeps ==
  ASSUME IInv, NEW r \in Req, Running(r), Reject(r)
  PROVE  IInv'
<1> USE DEF Reject, End, Release, committed
<1>1. TypeOK'
  BY EmptySeq DEF IInv, TypeOK, Kinds
<1>2. JobsFit'
  BY DEF IInv, TypeOK, JobsFit, Running
<1>3. ProductsFresh'
  BY DEF IInv, TypeOK, ProductsFresh, Running
<1>4. OwnersExclusive'
  BY DEF IInv, TypeOK, OwnersExclusive
<1>5. NoLostUpdate' /\ ViewsNonNegative'
  BY DEF IInv, TypeOK, NoLostUpdate, ViewsNonNegative
<1>6. StockNonNegative'
  BY DEF IInv, StockNonNegative
<1>7. QED
  BY <1>1, <1>2, <1>3, <1>4, <1>5, <1>6 DEF IInv

\* A step of a request that is not done, that leaves the tables, the private stock
\* values and who owns which product alone, keeps what is said of these.
LEMMA StockUntouched ==
  ASSUME IInv, NEW r \in Req, pc[r] # "done",
         UNCHANGED <<committed, kind, view, base, owns>>,
         NEW at, pc' = [pc EXCEPT ![r] = at]
  PROVE  ProductsFresh' /\ NoLostUpdate' /\ ViewsNonNegative' /\ StockNonNegative'
<1> USE DEF committed
<1>1. ProductsFresh'
  BY DEF IInv, TypeOK, ProductsFresh
<1>2. NoLostUpdate' /\ ViewsNonNegative' /\ StockNonNegative'
  BY DEF IInv, NoLostUpdate, ViewsNonNegative, StockNonNegative
<1>3. QED
  BY <1>1, <1>2
-----------------------------------------------------------------------------
(***************************************************************************)
(* Requests arrive: each gets the job that fits its kind.                  *)
(***************************************************************************)
\* Where a request starts, and what it then carries.
Starts(r, at, id, e, b) ==
  /\ pc[r] = "idle"
  /\ pc' = [pc EXCEPT ![r] = at]
  /\ job' = [job EXCEPT ![r] = [id |-> id, entry |-> e, batch |-> b]]
  /\ id \in EntryIds \cup BatchIds \cup Products
  /\ e \in Entry \cup {None}
  /\ b \in Batch \cup {None}
  /\ \/ kind[r] \in EntryKinds /\ at \in {"lock", "restore"} /\ id \in EntryIds /\ e \in Entry
     \/ kind[r] = "deleteEntry" /\ at = "restore" /\ id \in EntryIds
     \/ kind[r] \in PurchaseKinds /\ at = "edit" /\ b \in Batch
     \/ kind[r] = "createProduct" /\ at = "commit" /\ b \in Batch
     \/ kind[r] = "deleteProduct" /\ at = "drop"

LEMMA ArriveStarts ==
  ASSUME IInv, NEW r \in Req, Arrive(r)
  PROVE  /\ \E at, id, e, b : Starts(r, at, id, e, b)
         /\ UNCHANGED <<committed, kind, view, base, locks>>
         /\ old' \in [Req -> Entry \cup {None}]
         /\ todo' \in [Req -> Seq(Row)]
<1> USE WritesTyped DEF Begin, Goto, Starts, EntryKinds, PurchaseKinds, IInv, TypeOK
<1>1. CASE CreateEntry(r)
  BY <1>1 DEF CreateEntry, EntryIds
<1>2. CASE UpdateEntry(r)
  BY <1>2 DEF UpdateEntry
<1>3. CASE DeleteEntry(r)
  <2>1. PICK e \in EntryIds :
          /\ entry[e] # None
          /\ Begin(r, "deleteEntry", "restore", e, None, None)
          /\ old' = [old EXCEPT ![r] = entry[e]]
          /\ todo' = [todo EXCEPT ![r] = StockRows(entry[e])]
    BY <1>3 DEF DeleteEntry
  <2>2. entry[e] \in Entry /\ StockRows(entry[e]) \in Seq(Row)
    BY <2>1, StockRowsTyped
  <2>3. QED
    BY <1>3, <2>1, <2>2 DEF DeleteEntry
<1>4. CASE AddPurchase(r)
  BY <1>4 DEF AddPurchase, BatchIds
<1>5. CASE UpdatePurchase(r)
  BY <1>5 DEF UpdatePurchase
<1>6. CASE DeletePurchase(r)
  BY <1>6 DEF DeletePurchase
<1>7. CASE CreateProduct(r)
  <2>1. PICK w \in BatchWrites :
          Begin(r, "createProduct", "commit", r, None, [w EXCEPT !.product = r])
    BY <1>7 DEF CreateProduct
  <2>2. [w EXCEPT !.product = r] \in Batch /\ r \in Products
    BY DEF Batch, Products
  <2>3. QED
    BY <1>7, <2>1, <2>2 DEF CreateProduct
<1>8. CASE DeleteProduct(r)
  BY <1>8 DEF DeleteProduct
<1>9. QED
  BY <1>1, <1>2, <1>3, <1>4, <1>5, <1>6, <1>7, <1>8 DEF Arrive

\* An arrival keeps the invariant.
LEMMA ArriveKeeps ==
  ASSUME IInv, NEW r \in Req, Arrive(r)
  PROVE  IInv'
<1>1. PICK at, id, e, b : Starts(r, at, id, e, b)
  BY ArriveStarts
<1>2. /\ UNCHANGED <<committed, kind, view, base, locks>>
      /\ old' \in [Req -> Entry \cup {None}]
      /\ todo' \in [Req -> Seq(Row)]
  BY ArriveStarts
<1>3. [id |-> id, entry |-> e, batch |-> b] \in Job
  BY <1>1 DEF Starts, Job
<1>4. TypeOK'
  BY <1>1, <1>2, <1>3 DEF IInv, TypeOK, Starts, committed, locks
<1>5. JobsFit'
  BY <1>1, <1>2, <1>3 DEF IInv, TypeOK, JobsFit, Starts, Running, EntryKinds, PurchaseKinds
<1>6. ProductsFresh' /\ NoLostUpdate' /\ ViewsNonNegative' /\ StockNonNegative'
  BY <1>1, <1>2, StockUntouched DEF Starts, locks
<1>7. OwnersExclusive'
  BY <1>2 DEF IInv, OwnersExclusive, locks
<1>8. QED
  BY <1>4, <1>5, <1>6, <1>7 DEF IInv
-----------------------------------------------------------------------------
(***************************************************************************)
(* Stock taken under the row lock                                          *)
(***************************************************************************)
\* Locking a product on record and giving it a private value that is no negative
\* number, as every change of stock does.
LEMMA OwnKeeps ==
  ASSUME IInv, NEW r \in Req, Running(r), NEW p \in live, NEW value \in Int, value >= 0,
         MayOwn(r, p), Own(r, p, value),
         UNCHANGED <<committed, kind, shares>>,
         NEW at, pc' = [pc EXCEPT ![r] = at]
  PROVE  /\ view' \in [Req -> [Products -> Int]]
         /\ base' \in [Req -> [Products -> Int]]
         /\ owns' \in [Req -> SUBSET Products]
         /\ ProductsFresh' /\ OwnersExclusive'
         /\ NoLostUpdate' /\ ViewsNonNegative' /\ StockNonNegative'
<1> USE DEF Own, committed
<1>1. p \in Products
  BY DEF IInv, TypeOK
<1>2. /\ view' \in [Req -> [Products -> Int]]
      /\ base' \in [Req -> [Products -> Int]]
      /\ owns' \in [Req -> SUBSET Products]
  BY <1>1 DEF IInv, TypeOK
<1>3. ProductsFresh'
  BY <1>1 DEF IInv, TypeOK, ProductsFresh, Running
<1>4. OwnersExclusive'
  BY <1>1 DEF IInv, TypeOK, OwnersExclusive, MayOwn
<1>5. NoLostUpdate'
  BY <1>1 DEF IInv, TypeOK, NoLostUpdate
<1>6. ViewsNonNegative'
  BY <1>1 DEF IInv, TypeOK, ViewsNonNegative
<1>7. StockNonNegative'
  BY DEF IInv, StockNonNegative
<1>8. QED
  BY <1>2, <1>3, <1>4, <1>5, <1>6, <1>7

\* What a session sees of a product's stock is never negative.
LEMMA SeenNonNegative ==
  ASSUME IInv, NEW r \in Req, NEW p \in live
  PROVE  Seen(r, p) \in Int /\ Seen(r, p) >= 0
BY DEF IInv, TypeOK, Seen, ViewsNonNegative, StockNonNegative

LEMMA AdjustStockKeeps ==
  ASSUME IInv, NEW r \in Req, AdjustStock(r)
  PROVE  IInv'
<1> DEFINE row == Head(todo[r])
           p == row.product
           delta == IF pc[r] = "restore" THEN row.count ELSE -row.count
           resulting == Seen(r, p) + delta
           rest == [todo EXCEPT ![r] = Tail(@)]
<1>1. Running(r) /\ todo[r] \in Seq(Row) /\ todo[r] # <<>>
  BY DEF AdjustStock, Running, IInv, TypeOK
<1>2. row.count \in Nat /\ Tail(todo[r]) \in Seq(Row)
  BY <1>1, HeadTailTyped
<1>3. CASE /\ p \notin live \/ row.count = 0
           /\ todo' = rest
           /\ UNCHANGED <<committed, kind, pc, job, old, view, base, locks>>
  <2>1. TypeOK'
    BY <1>2, <1>3 DEF IInv, TypeOK, committed, locks
  <2>2. JobsFit' /\ ProductsFresh' /\ OwnersExclusive'
    BY <1>3 DEF IInv, JobsFit, Running, ProductsFresh, OwnersExclusive, committed, locks
  <2>3. NoLostUpdate' /\ ViewsNonNegative' /\ StockNonNegative'
    BY <1>3 DEF IInv, NoLostUpdate, ViewsNonNegative, StockNonNegative, committed, locks
  <2>4. QED
    BY <2>1, <2>2, <2>3 DEF IInv
<1>4. CASE Reject(r)
  BY <1>1, <1>4, RejectKeeps
<1>5. CASE /\ p \in live /\ row.count # 0 /\ MayOwn(r, p)
           /\ ~ Oversold(delta, resulting)
           /\ Own(r, p, resulting)
           /\ todo' = rest
           /\ UNCHANGED <<committed, kind, pc, job, old, shares, locked>>
  <2>1. resulting \in Int /\ resulting >= 0
    BY <1>2, <1>5, SeenNonNegative DEF Oversold
  <2>2. pc' = [pc EXCEPT ![r] = pc[r]]
    BY <1>5 DEF IInv, TypeOK
  <2>3. /\ view' \in [Req -> [Products -> Int]]
        /\ base' \in [Req -> [Products -> Int]]
        /\ owns' \in [Req -> SUBSET Products]
        /\ ProductsFresh' /\ OwnersExclusive'
        /\ NoLostUpdate' /\ ViewsNonNegative' /\ StockNonNegative'
    BY <1>1, <1>5, <2>1, <2>2, OwnKeeps
  <2>4. TypeOK'
    BY <1>2, <1>5, <2>3 DEF IInv, TypeOK, committed
  <2>5. JobsFit'
    BY <1>5 DEF IInv, JobsFit, Running
  <2>6. QED
    BY <2>3, <2>4, <2>5 DEF IInv
<1>6. QED
  BY <1>3, <1>4, <1>5 DEF AdjustStock

LEMMA EditPurchaseKeeps ==
  ASSUME IInv, NEW r \in Req, EditPurchase(r)
  PROVE  IInv'
<1> DEFINE w == job[r].batch
           p == w.product
           Stage(b, new, value) ==
             /\ Own(r, p, value)
             /\ job' = [job EXCEPT ![r].id = b, ![r].batch = new]
             /\ Goto(r, "commit")
             /\ UNCHANGED <<committed, old, todo, shares, locked>>
<1>1. Running(r) /\ job[r] \in Job /\ kind[r] \in PurchaseKinds /\ w \in Batch
  BY DEF EditPurchase, IInv, JobsFit, Running
<1>2. CASE Reject(r)
  BY <1>1, <1>2, RejectKeeps
<1>3. ASSUME NEW b \in BatchIds, NEW new \in Batch \cup {None}, NEW value \in Int, value >= 0,
             p \in live, MayOwn(r, p), Stage(b, new, value)
      PROVE  IInv'
  <2>1. /\ view' \in [Req -> [Products -> Int]]
        /\ base' \in [Req -> [Products -> Int]]
        /\ owns' \in [Req -> SUBSET Products]
        /\ ProductsFresh' /\ OwnersExclusive'
        /\ NoLostUpdate' /\ ViewsNonNegative' /\ StockNonNegative'
    BY <1>1, <1>3, OwnKeeps DEF Goto
  <2>2. [job[r] EXCEPT !.id = b, !.batch = new] \in Job
    BY <1>1 DEF Job
  <2>3. job' = [job EXCEPT ![r] = [job[r] EXCEPT !.id = b, !.batch = new]]
    BY <1>3 DEF IInv, TypeOK
  <2>4. TypeOK'
    <3>1. job' \in [Req -> Job \cup {None}]
      BY <2>2, <2>3 DEF IInv, TypeOK
    <3>2. pc' = [pc EXCEPT ![r] = "commit"] /\ UNCHANGED <<committed, kind, old, todo, shares, locked>>
      BY <1>3 DEF Goto
    <3>3. QED
      BY <2>1, <3>1, <3>2 DEF IInv, TypeOK, committed
  <2>5. JobsFit'
    BY <1>1, <1>3, <2>2, <2>3 DEF IInv, TypeOK, JobsFit, Running, Goto, PurchaseKinds, EntryKinds
  <2>6. QED
    BY <2>1, <2>4, <2>5 DEF IInv
<1>4. ASSUME p \in live
      PROVE  stock[p] \in Int /\ stock[p] >= 0 /\ w.qty \in Nat
  BY <1>1, <1>4 DEF IInv, TypeOK, StockNonNegative, Batch
<1>5. \A b \in Matches(r) : b \in BatchIds /\ batch[b] \in Batch /\ batch[b].qty \in Nat
  <2>1. Matches(r) \subseteq BatchesOf(batch, p)
    BY DEF Matches
  <2>2. QED
    BY <2>1 DEF BatchesOf, Batch, IInv, TypeOK
<1>6. CASE kind[r] = "addPurchase" /\ p \in live /\ MayOwn(r, p) /\ Stage(r, w, stock[p] + w.qty)
  <2>1. r \in BatchIds /\ stock[p] + w.qty \in Int /\ stock[p] + w.qty >= 0
    BY <1>4, <1>6 DEF BatchIds
  <2>2. QED
    BY <1>1, <1>3, <1>6, <2>1
<1>7. ASSUME NEW b \in Matches(r), MayChange(p, batch[b], w), p \in live, MayOwn(r, p),
             Stage(b, w, stock[p] + w.qty - batch[b].qty)
      PROVE  IInv'
  <2>1. stock[p] + w.qty - batch[b].qty \in Int /\ stock[p] + w.qty - batch[b].qty >= 0
    BY <1>4, <1>5, <1>7 DEF MayChange
  <2>2. QED
    BY <1>1, <1>3, <1>5, <1>7, <2>1
<1>8. ASSUME NEW b \in Matches(r), MayDelete(p, b), p \in live, MayOwn(r, p),
             Stage(b, None, stock[p] - batch[b].qty)
      PROVE  IInv'
  <2>1. stock[p] - batch[b].qty \in Int /\ stock[p] - batch[b].qty >= 0
    BY <1>4, <1>5, <1>8 DEF MayDelete
  <2>2. QED
    BY <1>3, <1>5, <1>8, <2>1
<1>9. QED
  BY <1>2, <1>6, <1>7, <1>8 DEF EditPurchase

LEMMA DropProductKeeps ==
  ASSUME IInv, NEW r \in Req, DropProduct(r)
  PROVE  IInv'
<1> DEFINE p == job[r].id
<1>1. Running(r)
  BY DEF DropProduct, Running
<1>2. CASE Goto(r, "commit") /\ UNCHANGED <<committed, job, old, todo, view, base, locks>>
  <2>1. TypeOK' /\ JobsFit'
    BY <1>2 DEF DropProduct, IInv, TypeOK, JobsFit, Running, Goto, committed, locks,
                EntryKinds, PurchaseKinds
  <2>2. ProductsFresh' /\ NoLostUpdate' /\ ViewsNonNegative' /\ StockNonNegative'
    BY <1>1, <1>2, StockUntouched DEF Goto, Running, locks
  <2>3. OwnersExclusive'
    BY <1>2 DEF IInv, OwnersExclusive, locks
  <2>4. QED
    BY <2>1, <2>2, <2>3 DEF IInv
<1>3. CASE /\ p \in live /\ MayOwn(r, p)
           /\ Own(r, p, stock[p])
           /\ Goto(r, "commit")
           /\ UNCHANGED <<committed, job, old, todo, shares, locked>>
  <2>1. stock[p] \in Int /\ stock[p] >= 0
    BY <1>3 DEF IInv, TypeOK, StockNonNegative
  <2>2. /\ view' \in [Req -> [Products -> Int]]
        /\ base' \in [Req -> [Products -> Int]]
        /\ owns' \in [Req -> SUBSET Products]
        /\ ProductsFresh' /\ OwnersExclusive'
        /\ NoLostUpdate' /\ ViewsNonNegative' /\ StockNonNegative'
    BY <1>1, <1>3, <2>1, OwnKeeps DEF Goto
  <2>3. TypeOK' /\ JobsFit'
    BY <1>3, <2>2 DEF DropProduct, IInv, TypeOK, JobsFit, Running, Goto, committed,
                      EntryKinds, PurchaseKinds
  <2>4. QED
    BY <2>2, <2>3 DEF IInv
<1>4. QED
  BY <1>2, <1>3 DEF DropProduct
-----------------------------------------------------------------------------
(***************************************************************************)
(* The other steps of a fuel entry touch no stock                          *)
(***************************************************************************)
LEMMA LockEntryKeeps ==
  ASSUME IInv, NEW r \in Req, LockEntry(r)
  PROVE  IInv'
<1> DEFINE e == job[r].id
<1>1. Running(r) /\ kind[r] \in EntryKinds
  BY DEF LockEntry, Running, IInv, JobsFit
<1>2. CASE Reject(r)
  BY <1>1, <1>2, RejectKeeps
<1>3. CASE /\ entry[e] # None
           /\ locked' = [locked EXCEPT ![r] = @ \cup {e}]
           /\ old' = [old EXCEPT ![r] = entry[e]]
           /\ todo' = [todo EXCEPT ![r] = StockRows(entry[e])]
           /\ Goto(r, "restore")
           /\ UNCHANGED <<committed, job, view, base, owns, shares>>
  <2>1. e \in EntryIds
    BY <1>1 DEF IInv, JobsFit
  <2>2. entry[e] \in Entry /\ StockRows(entry[e]) \in Seq(Row)
    BY <1>3, <2>1, StockRowsTyped DEF IInv, TypeOK
  <2>3. TypeOK'
    BY <1>3, <2>1, <2>2 DEF IInv, TypeOK, Goto, committed
  <2>4. JobsFit'
    BY <1>1, <1>3 DEF IInv, TypeOK, JobsFit, Running, Goto
  <2>5. ProductsFresh' /\ NoLostUpdate' /\ ViewsNonNegative' /\ StockNonNegative'
    BY <1>1, <1>3, StockUntouched DEF Goto, Running
  <2>6. OwnersExclusive'
    BY <1>3 DEF IInv, OwnersExclusive
  <2>7. QED
    BY <2>3, <2>4, <2>5, <2>6 DEF IInv
<1>4. QED
  BY <1>2, <1>3 DEF LockEntry

LEMMA WriteEntryKeeps ==
  ASSUME IInv, NEW r \in Req, WriteEntry(r)
  PROVE  IInv'
<1>1. Running(r) /\ kind[r] \in EntryKinds
  BY DEF WriteEntry, Running, IInv, JobsFit
<1>2. CASE Reject(r)
  BY <1>1, <1>2, RejectKeeps
<1>3. CASE Goto(r, "rows") /\ UNCHANGED <<committed, job, old, todo, view, base, locks>>
  <2>1. TypeOK' /\ JobsFit'
    BY <1>1, <1>3 DEF IInv, TypeOK, JobsFit, Running, Goto, committed, locks
  <2>2. ProductsFresh' /\ NoLostUpdate' /\ ViewsNonNegative' /\ StockNonNegative'
    BY <1>1, <1>3, StockUntouched DEF Goto, Running, locks
  <2>3. OwnersExclusive'
    BY <1>3 DEF IInv, OwnersExclusive, locks
  <2>4. QED
    BY <2>1, <2>2, <2>3 DEF IInv
<1>4. QED
  BY <1>2, <1>3 DEF WriteEntry

LEMMA WriteRowsKeeps ==
  ASSUME IInv, NEW r \in Req, WriteRows(r)
  PROVE  IInv'
<1> DEFINE new == job[r].entry
           ps == ProductsOf(new)
<1>1. Running(r) /\ kind[r] \in EntryKinds /\ new \in Entry
  BY DEF WriteRows, Running, IInv, JobsFit
<1>2. CASE Reject(r)
  BY <1>1, <1>2, RejectKeeps
<1>3. CASE /\ ps \subseteq live
           /\ \A p \in ps : MayShare(r, p)
           /\ shares' = [shares EXCEPT ![r] = @ \cup ps]
           /\ todo' = [todo EXCEPT ![r] = StockRows(new)]
           /\ Goto(r, "sell")
           /\ UNCHANGED <<committed, job, old, view, base, owns, locked>>
  <2> HIDE DEF ps, new
  <2>1. TypeOK'
    BY <1>1, <1>3, StockRowsTyped DEF IInv, TypeOK, Goto, committed
  <2>2. JobsFit'
    BY <1>1, <1>3 DEF IInv, TypeOK, JobsFit, Running, Goto
  <2>3. ProductsFresh' /\ NoLostUpdate' /\ ViewsNonNegative' /\ StockNonNegative'
    BY <1>1, <1>3, StockUntouched DEF Goto, Running
  <2>4. OwnersExclusive'
    BY <1>3 DEF IInv, TypeOK, OwnersExclusive, MayShare
  <2>5. QED
    BY <2>1, <2>2, <2>3, <2>4 DEF IInv
<1>4. QED
  BY <1>2, <1>3 DEF WriteRows

LEMMA RemoveEntryKeeps ==
  ASSUME IInv, NEW r \in Req, RemoveEntry(r)
  PROVE  IInv'
<1>1. Running(r) /\ kind[r] = "deleteEntry" /\ job[r].id \in EntryIds
  BY DEF RemoveEntry, Running, IInv, JobsFit
<1>2. /\ locked' = [locked EXCEPT ![r] = @ \cup {job[r].id}]
      /\ Goto(r, "commit")
      /\ UNCHANGED <<committed, job, old, todo, view, base, owns, shares>>
  BY DEF RemoveEntry
<1>3. TypeOK' /\ JobsFit'
  BY <1>1, <1>2 DEF IInv, TypeOK, JobsFit, Running, Goto, committed, EntryKinds, PurchaseKinds
<1>4. ProductsFresh' /\ NoLostUpdate' /\ ViewsNonNegative' /\ StockNonNegative'
  BY <1>1, <1>2, StockUntouched DEF Goto, Running
<1>5. OwnersExclusive'
  BY <1>2 DEF IInv, OwnersExclusive
<1>6. QED
  BY <1>3, <1>4, <1>5 DEF IInv
-----------------------------------------------------------------------------
(***************************************************************************)
(* The commit                                                              *)
(***************************************************************************)
\* Installing a request's private values and dropping its locks keeps what is said of
\* the values and locks of the others.
LEMMA InstallKeeps ==
  ASSUME IInv, NEW r \in Req, Running(r), End(r, "done"),
         live' = live,
         stock' = [p \in Products |-> IF p \in owns[r] THEN view[r][p] ELSE stock[p]]
  PROVE  /\ ProductsFresh' /\ OwnersExclusive'
         /\ NoLostUpdate' /\ ViewsNonNegative' /\ StockNonNegative'
<1> USE DEF End, Release
<1>1. ProductsFresh'
  BY DEF IInv, TypeOK, ProductsFresh, Running
<1>2. OwnersExclusive'
  BY DEF IInv, TypeOK, OwnersExclusive
<1>3. NoLostUpdate'
  <2>1. SUFFICES ASSUME NEW q \in Req, q # r, NEW p \in owns[q]
                 PROVE  base[q][p] = stock'[p]
    BY DEF IInv, TypeOK, NoLostUpdate
  <2>2. p \in Products /\ p \notin owns[r]
    BY <2>1 DEF IInv, TypeOK, OwnersExclusive
  <2>3. QED
    BY <2>1, <2>2 DEF IInv, NoLostUpdate
<1>4. ViewsNonNegative'
  BY DEF IInv, TypeOK, ViewsNonNegative
<1>5. StockNonNegative'
  BY DEF IInv, TypeOK, ViewsNonNegative, StockNonNegative
<1>6. QED
  BY <1>1, <1>2, <1>3, <1>4, <1>5

LEMMA CommitKeeps ==
  ASSUME IInv, NEW r \in Req, Commit(r)
  PROVE  IInv'
<1>1. Running(r) /\ job[r] \in Job
  BY DEF Commit, Ready, Running, IInv, JobsFit
<1>2. End(r, "done")
  BY DEF Commit
<1>3. JobsFit'
  BY <1>2 DEF IInv, TypeOK, JobsFit, Running, End
\* Any table of the right shape makes the whole state of the right shape.
<1>4. ASSUME live' \subseteq Products,
             stock' \in [Products -> Int],
             entry' \in [EntryIds -> Entry \cup {None}],
             batch' \in [BatchIds -> Batch \cup {None}]
      PROVE  TypeOK'
  BY <1>2, <1>4, EmptySeq DEF IInv, TypeOK, End, Release, Kinds
<1>5. CASE CommitEntry(r) \/ CommitPurchase(r)
  <2>1. /\ live' = live
        /\ stock' = [p \in Products |-> IF p \in owns[r] THEN view[r][p] ELSE stock[p]]
    BY <1>5 DEF CommitEntry, CommitPurchase
  <2>2. entry' \in [EntryIds -> Entry \cup {None}] /\ batch' \in [BatchIds -> Batch \cup {None}]
    BY <1>1, <1>5 DEF CommitEntry, CommitPurchase, IInv, TypeOK, Job
  <2>3. stock' \in [Products -> Int]
    BY <2>1 DEF IInv, TypeOK
  <2>4. TypeOK'
    BY <1>4, <2>1, <2>2, <2>3 DEF IInv, TypeOK
  <2>5. QED
    BY <1>1, <1>2, <1>3, <2>1, <2>4, InstallKeeps DEF IInv
<1>6. CASE kind[r] = "createProduct" /\ CommitProduct(r)
  <2>1. /\ live' = live \cup {r}
        /\ stock' = [stock EXCEPT ![r] = job[r].batch.qty]
        /\ batch' = [batch EXCEPT ![r] = job[r].batch]
        /\ entry' = entry
    BY <1>6 DEF CommitProduct
  <2>2. job[r].batch \in Batch /\ job[r].batch.qty \in Nat /\ r \in Products /\ r \in BatchIds
    BY <1>1, <1>6 DEF IInv, JobsFit, Batch, Products, BatchIds
  <2>3. \A q \in Req : r \notin owns[q]
    BY <1>1, <1>6 DEF IInv, ProductsFresh, Running
  <2>4. TypeOK'
    BY <1>4, <2>1, <2>2 DEF IInv, TypeOK
  <2>5. ProductsFresh' /\ OwnersExclusive' /\ ViewsNonNegative'
    BY <1>2, <2>1 DEF IInv, TypeOK, ProductsFresh, OwnersExclusive, ViewsNonNegative, End, Release
  <2>6. NoLostUpdate'
    BY <1>2, <2>1, <2>2, <2>3 DEF IInv, TypeOK, NoLostUpdate, End, Release
  <2>7. StockNonNegative'
    BY <2>1, <2>2 DEF IInv, TypeOK, StockNonNegative
  <2>8. QED
    BY <1>3, <2>4, <2>5, <2>6, <2>7 DEF IInv
<1>7. CASE kind[r] = "deleteProduct" /\ CommitProduct(r)
  <2> DEFINE p == job[r].id
  <2>1. /\ live' = live \ {p}
        /\ batch' = [b \in BatchIds |-> IF b \in BatchesOf(batch, p) THEN None ELSE batch[b]]
        /\ entry' = [e \in EntryIds |->
                       IF entry[e] = None THEN None ELSE Orphaned(entry[e], p)]
        /\ stock' = stock
    BY <1>7 DEF CommitProduct
  <2>2. entry' \in [EntryIds -> Entry \cup {None}]
    <3>1. \A e \in EntryIds : entry[e] # None => Orphaned(entry[e], p) \in Entry
      BY OrphanedIsEntry DEF IInv, TypeOK
    <3>2. QED
      BY <2>1, <3>1
  <2>3. batch' \in [BatchIds -> Batch \cup {None}]
    BY <2>1 DEF IInv, TypeOK
  <2>4. TypeOK'
    BY <1>4, <2>1, <2>2, <2>3 DEF IInv, TypeOK
  <2>5. ProductsFresh' /\ OwnersExclusive' /\ ViewsNonNegative'
    BY <1>2, <1>7, <2>1 DEF IInv, TypeOK, ProductsFresh, OwnersExclusive, ViewsNonNegative,
                            End, Release
  <2>6. NoLostUpdate' /\ StockNonNegative'
    BY <1>2, <2>1 DEF IInv, TypeOK, NoLostUpdate, StockNonNegative, End, Release
  <2>7. QED
    BY <1>3, <2>4, <2>5, <2>6 DEF IInv
<1>8. QED
  BY <1>5, <1>6, <1>7 DEF Commit, CommitProduct
-----------------------------------------------------------------------------
(***************************************************************************)
(* The invariant                                                           *)
(***************************************************************************)
LEMMA InitIInv ==
  ASSUME Init
  PROVE  IInv
<1>1. PICK d \in Databases : live = d.live /\ stock = d.stock /\ entry = d.entry /\ batch = d.batch
  BY DEF Init
<1>2. live \subseteq Catalog /\ \A p \in live : stock[p] >= 0
  BY <1>1, DatabasesTyped
<1>3. TypeOK
  <2>1. /\ live \subseteq Products
        /\ stock \in [Products -> Int]
        /\ entry \in [EntryIds -> Entry \cup {None}]
        /\ batch \in [BatchIds -> Batch \cup {None}]
    BY <1>1, DatabasesTyped DEF Products
  <2>2. kind \in [Req -> Kinds]
    BY LoadsTyped DEF Init
  <2>3. <<>> \in Seq(Row) /\ [p \in Products |-> 0] \in [Products -> Int]
    BY EmptySeq
  <2>4. QED
    BY <2>1, <2>2, <2>3 DEF Init, TypeOK
<1>4. JobsFit /\ OwnersExclusive /\ NoLostUpdate /\ ViewsNonNegative
  BY DEF Init, JobsFit, Running, OwnersExclusive, NoLostUpdate, ViewsNonNegative
<1>5. ProductsFresh
  BY <1>2, IdsAreDistinct DEF Init, ProductsFresh
<1>6. StockNonNegative
  BY <1>2 DEF StockNonNegative
<1>7. QED
  BY <1>3, <1>4, <1>5, <1>6 DEF IInv

\* A request in a cycle of waits is at a statement, so it is running.
LEMMA InCycleRuns ==
  ASSUME NEW r \in Req, InCycle(r)
  PROVE  Running(r)
<1>1. WaitsFor(r) # {}
  BY DEF InCycle, Stuck
<1>2. CASE pc[r] \in {"idle", "done", "failed"}
  BY <1>1, <1>2 DEF WaitsFor
<1>3. QED
  BY <1>2 DEF Running

LEMMA NextIInv ==
  ASSUME IInv, [Next]_vars
  PROVE  IInv'
<1>1. CASE UNCHANGED vars
  <2>1. TypeOK' /\ JobsFit' /\ ProductsFresh'
    BY <1>1 DEF IInv, TypeOK, JobsFit, Running, ProductsFresh, vars, committed, locks
  <2>2. OwnersExclusive' /\ NoLostUpdate' /\ ViewsNonNegative' /\ StockNonNegative'
    BY <1>1 DEF IInv, OwnersExclusive, NoLostUpdate, ViewsNonNegative, StockNonNegative,
                vars, committed, locks
  <2>3. QED
    BY <2>1, <2>2 DEF IInv
<1>2. ASSUME NEW r \in Req, Arrive(r)
      PROVE  IInv'
  BY <1>2, ArriveKeeps
<1>3. ASSUME NEW r \in Req, Proceed(r)
      PROVE  IInv'
  BY <1>3, LockEntryKeeps, AdjustStockKeeps, WriteEntryKeeps, WriteRowsKeeps, RemoveEntryKeeps,
     EditPurchaseKeeps, DropProductKeeps, CommitKeeps
  DEF Proceed
<1>4. ASSUME NEW r \in Req, DetectDeadlock(r) \/ Abort(r)
      PROVE  IInv'
  BY <1>4, InCycleRuns, RejectKeeps DEF DetectDeadlock, Abort
<1>5. QED
  BY <1>1, <1>2, <1>3, <1>4 DEF Next, Quiet

(***************************************************************************)
(* The invariant holds in every state of every run of the handlers.        *)
(***************************************************************************)
THEOREM Invariance == Spec => []IInv
<1>1. Init => IInv
  BY InitIInv
<1>2. IInv /\ [Next]_vars => IInv'
  BY NextIInv
<1>3. QED
  BY <1>1, <1>2, PTL DEF Spec

\* Every table and every request's private state keeps its shape.
THEOREM TypeCorrect == Spec => []TypeOK
<1>1. IInv => TypeOK
  BY DEF IInv
<1>2. QED
  BY <1>1, Invariance, PTL

(***************************************************************************)
(* lock_for_update before every read of product.stock is enough: however   *)
(* many sales, reversals and purchase edits meet, none of them commits a   *)
(* value that was computed from a stock another one has since changed.     *)
(***************************************************************************)
THEOREM UpdatesNotLost == Spec => []NoLostUpdate
<1>1. IInv => NoLostUpdate
  BY DEF IInv
<1>2. QED
  BY <1>1, Invariance, PTL

(***************************************************************************)
(* No product's stock goes below zero, unlocked deletes of fuel entries    *)
(* included: the guards of sales and purchase corrections suffice.         *)
(***************************************************************************)
THEOREM NeverNegative == Spec => []StockNonNegative
<1>1. IInv => StockNonNegative
  BY DEF IInv
<1>2. QED
  BY <1>1, Invariance, PTL
=============================================================================
