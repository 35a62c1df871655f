------------------------ MODULE CreditLedger_proofs ------------------------
(***************************************************************************)
(* What the requests on fuel entries, credit customers and their ledgers   *)
(* keep to, for any number of them.                                        *)
(***************************************************************************)
EXTENDS CreditLedger, SumTheorems

Resting == {"idle", "ready", "cleanup", "done", "failed"}

\* The statements of a handler.
OnPath(k) ==
  CASE k = "save" -> {"loadEntry", "readRows", "dropRows", "checkCustomers", "post", "commit"}
    [] k = "deleteEntry" -> {"loadEntry", "readRows", "dropRows", "dropEntry", "countScope", "commit"}
    [] k \in {"attach", "deleteRow"} -> {"loadRow", "writeRow", "commit"}
    [] k = "add" -> {"lockCustomer", "checkTwin", "insertRow", "commit"}
    [] k \in {"saveCustomer", "deleteCustomer"} -> {"loadCustomer", "writeCustomer", "commit"}
    [] k = "addCustomer" -> {"writeCustomer", "commit"}
    [] OTHER -> {}

Statement ==
  Resting \cup {"loadEntry", "readRows", "dropRows", "checkCustomers", "post", "dropEntry",
                "countScope", "commit", "loadRow", "writeRow", "lockCustomer", "checkTwin",
                "insertRow", "loadCustomer", "writeCustomer"}

Payment == [type : {"credit", "payment"}, amount : Nat \ {0}]

\* What a request of a kind was sent.
JobOf(k) ==
  CASE k = "save" ->
         [op : {k}, entry : EntryIds, scope : Scopes, row : {None}, cust : {None},
          form : Forms, bills : SUBSET Keys]
    [] k = "deleteEntry" ->
         [op : {k}, entry : EntryIds, scope : Scopes, row : {None}, cust : {None},
          form : {None}, bills : {{}}]
    [] k \in {"attach", "deleteRow"} ->
         [op : {k}, entry : EntryIds \cup {None}, scope : {None}, row : RowIds, cust : Customers,
          form : {None}, bills : SUBSET Req]
    [] k = "add" ->
         [op : {k}, entry : {None}, scope : {None}, row : {None}, cust : Customers,
          form : Payment, bills : SUBSET Req]
    [] OTHER ->
         [op : {k}, entry : {None}, scope : {None}, row : {None}, cust : Customers,
          form : {None}, bills : SUBSET Keys]

\* What a save or a deletion of an entry has loaded.
EntryRead ==
  [entry : Entry \cup {None}, lines : Seq(Line), rows : SUBSET RowIds,
   bills : [Customers -> SUBSET Keys], due : SUBSET Due]

CustomerRead == [bills : SUBSET Keys, rows : SUBSET Keys]

SeenFits(r) ==
  /\ kind[r] = "save" /\ pc[r] \in {"readRows", "dropRows", "checkCustomers", "post", "commit"} =>
       seen[r] \in EntryRead
  /\ kind[r] = "save" /\ pc[r] \in {"readRows", "dropRows"} => seen[r].entry # None
  /\ kind[r] = "save" /\ pc[r] \in {"post", "commit"} =>
       Len(seen[r].lines) = Len(job[r].form.lines)
  /\ kind[r] = "deleteEntry" /\ pc[r] \in {"readRows", "dropRows", "dropEntry", "countScope", "commit"} =>
       seen[r] \in EntryRead /\ seen[r].entry # None
  /\ kind[r] \in {"attach", "deleteRow"} /\ pc[r] \in {"writeRow", "commit"} =>
       seen[r] \in Keys \cup {None}
  /\ kind[r] \in {"saveCustomer", "deleteCustomer"} /\ pc[r] \in {"writeCustomer", "commit"} =>
       seen[r] \in CustomerRead

(***************************************************************************)
(* What a request has written follows from what it was sent and has read.  *)
(***************************************************************************)
Dropped(r) == [NothingWritten EXCEPT !.gone = seen[r].rows, !.undue = seen[r].due]

NewEntry(r) == BuildEntry(job[r], seen[r].lines)
Charges(r) ==
  IF job[r].form.final THEN NewCharges(r, job[r].entry, NewEntry(r), seen[r].bills) ELSE <<>>
Claimed(r) == {Charges(r)[row].bill : row \in DOMAIN Charges(r)}
NewDues(r) ==
  IF job[r].form.final
  THEN NewAdvances(r, job[r].entry, NewEntry(r)) \cup NewVariance(r, job[r].entry, NewEntry(r))
  ELSE {}
SaveQueue(r) ==
  ((UNION Range(seen[r].bills)) \ Claimed(r)) \cup RemovedKeys(seen[r].entry, job[r].bills)
Posted(r) ==
  [Dropped(r) EXCEPT !.entry = {NewEntry(r)}, !.new = Charges(r), !.due = NewDues(r),
                     !.queue = SaveQueue(r)]

RowsDropped(r) == [Dropped(r) EXCEPT !.queue = (UNION Range(seen[r].bills))]
EntryDropped(r) ==
  [RowsDropped(r) EXCEPT !.entry = {None}, !.queue = @ \cup seen[r].entry.bills]

NewBill(r) == IF job[r].bills = {} THEN None ELSE r
BillWritten(r) ==
  [NothingWritten EXCEPT
     !.bill = IF NewBill(r) = seen[r] THEN {} ELSE {[row |-> job[r].row, key |-> NewBill(r)]},
     !.queue = {seen[r]} \ {None, NewBill(r)}]
RowDropped(r) == [NothingWritten EXCEPT !.gone = {job[r].row}, !.queue = {seen[r]} \ {None}]
RowAdded(r) ==
  [NothingWritten EXCEPT !.new =
     [row \in {<<r, 1>>} |->
        [cust |-> job[r].cust, type |-> job[r].form.type, amount |-> job[r].form.amount,
         src |-> None, bill |-> NewBill(r)]]]

OldBills(r) == IF kind[r] = "addCustomer" THEN {} ELSE seen[r].bills
CustomerWritten(r) ==
  [NothingWritten EXCEPT
     !.cust = {[out |-> OldBills(r) \ job[r].bills, in |-> job[r].bills \ OldBills(r)]},
     !.queue = OldBills(r) \ job[r].bills]
CustomerDropped(r) ==
  [NothingWritten EXCEPT !.cust = {None}, !.queue = seen[r].bills \cup seen[r].rows]

\* Where nothing is written yet.
Unwritten ==
  {"idle", "ready", "loadEntry", "readRows", "dropRows", "loadRow", "writeRow", "lockCustomer",
   "checkTwin", "insertRow", "loadCustomer", "writeCustomer", "done", "failed"}

TxnFits(r) ==
  /\ pc[r] \in Unwritten => txn[r] = NothingWritten
  /\ pc[r] \in {"checkCustomers", "post"} => txn[r] = Dropped(r)
  /\ pc[r] = "dropEntry" => txn[r] = RowsDropped(r)
  /\ pc[r] = "countScope" => txn[r] = EntryDropped(r)
  /\ pc[r] = "cleanup" =>
       \E queue \in SUBSET Keys : txn[r] = [NothingWritten EXCEPT !.queue = queue]
  /\ pc[r] = "commit" =>
       /\ kind[r] = "save" => txn[r] = Posted(r)
       /\ kind[r] = "deleteEntry" =>
            \E log \in SUBSET Scopes : txn[r] = [EntryDropped(r) EXCEPT !.log = log]
       /\ kind[r] = "attach" => txn[r] = BillWritten(r)
       /\ kind[r] = "deleteRow" => txn[r] = RowDropped(r)
       /\ kind[r] = "add" => txn[r] = RowAdded(r)
       /\ kind[r] \in {"saveCustomer", "addCustomer"} => txn[r] = CustomerWritten(r)
       /\ kind[r] = "deleteCustomer" => txn[r] = CustomerDropped(r)

Lock == [on : ({"entry"} \X EntryIds) \cup ({"row"} \X RowIds) \cup ({"cust"} \X Customers),
         mode : {"share", "update"}]

Fits(r) ==
  /\ pc[r] \in OnPath(kind[r]) \cup Resting
  /\ Running(r) => job[r] \in JobOf(kind[r])
  /\ ~Running(r) => job[r] = None /\ seen[r] = None /\ holds[r] = {}
  /\ SeenFits(r)
  /\ TxnFits(r)

TypeInv ==
  /\ TypeOK
  /\ kind \in [Req -> Kinds] /\ pc \in [Req -> Statement] /\ holds \in [Req -> SUBSET Lock]
  /\ DOMAIN job = Req /\ DOMAIN seen = Req /\ DOMAIN txn = Req
  /\ young \subseteq Req
  /\ \A r \in Req : Fits(r)

-----------------------------------------------------------------------------
(***************************************************************************)
(* What a step of one request leaves to the others                         *)
(***************************************************************************)
Mine(r) == <<kind[r], pc[r], job[r], seen[r], txn[r], holds[r]>>

LEMMA SameWritings ==
  ASSUME NEW q \in Req, kind'[q] = kind[q], job'[q] = job[q], seen'[q] = seen[q]
  PROVE  /\ Dropped(q)' = Dropped(q) /\ RowsDropped(q)' = RowsDropped(q)
         /\ EntryDropped(q)' = EntryDropped(q) /\ Posted(q)' = Posted(q)
         /\ BillWritten(q)' = BillWritten(q) /\ RowDropped(q)' = RowDropped(q)
         /\ RowAdded(q)' = RowAdded(q) /\ CustomerWritten(q)' = CustomerWritten(q)
         /\ CustomerDropped(q)' = CustomerDropped(q)
         /\ NewEntry(q)' = NewEntry(q) /\ Charges(q)' = Charges(q) /\ NewDues(q)' = NewDues(q)
         /\ SaveQueue(q)' = SaveQueue(q)
<1>2. NewEntry(q)' = NewEntry(q)
  BY DEF NewEntry
<1>3. Charges(q)' = Charges(q) /\ NewDues(q)' = NewDues(q)
  BY <1>2 DEF Charges, NewDues
<1>4. Claimed(q)' = Claimed(q)
  BY <1>3 DEF Claimed
<1>5. SaveQueue(q)' = SaveQueue(q)
  BY <1>4 DEF SaveQueue
<1>6. Dropped(q)' = Dropped(q) /\ RowsDropped(q)' = RowsDropped(q) /\ EntryDropped(q)' = EntryDropped(q)
  <2>1. Dropped(q)' = Dropped(q)
    BY DEF Dropped, NothingWritten
  <2>2. RowsDropped(q)' = RowsDropped(q)
    BY <2>1 DEF RowsDropped
  <2> QED
    BY <2>1, <2>2 DEF EntryDropped
<1>7. Posted(q)' = Posted(q)
  BY <1>2, <1>3, <1>5, <1>6 DEF Posted
<1>8. BillWritten(q)' = BillWritten(q) /\ RowDropped(q)' = RowDropped(q) /\ RowAdded(q)' = RowAdded(q)
  BY DEF BillWritten, RowDropped, RowAdded, NewBill, NothingWritten
<1>9. CustomerWritten(q)' = CustomerWritten(q) /\ CustomerDropped(q)' = CustomerDropped(q)
  BY DEF CustomerWritten, CustomerDropped, OldBills, NothingWritten
<1> QED
  BY <1>2, <1>3, <1>5, <1>6, <1>7, <1>8, <1>9

LEMMA SameFits ==
  ASSUME NEW q \in Req, Fits(q), UNCHANGED Mine(q)
  PROVE  Fits(q)'
<1>1. /\ kind'[q] = kind[q] /\ pc'[q] = pc[q] /\ job'[q] = job[q] /\ seen'[q] = seen[q]
      /\ txn'[q] = txn[q] /\ holds'[q] = holds[q]
  BY DEF Mine
<1>10. TxnFits(q)'
  BY <1>1, SameWritings DEF Fits, TxnFits
<1>11. SeenFits(q)'
  BY <1>1 DEF Fits, SeenFits
<1> QED
  BY <1>1, <1>10, <1>11 DEF Fits, Running

\* It is enough to look at what the request itself becomes, and at the tables.
LEMMA MoveKeeps ==
  ASSUME TypeInv, NEW r \in Req, TypeOK',
         kind' = kind, pc' \in [Req -> Statement], holds' \in [Req -> SUBSET Lock],
         DOMAIN job' = Req, DOMAIN seen' = Req, DOMAIN txn' = Req, young' \subseteq Req,
         \A q \in Req \ {r} : UNCHANGED Mine(q),
         Fits(r)'
  PROVE  TypeInv'
<1>1. \A q \in Req : Fits(q)'
  <2>1. ASSUME NEW q \in Req, q # r PROVE Fits(q)'
    BY <2>1, SameFits DEF TypeInv
  <2> QED
    BY <2>1
<1> QED
  BY <1>1 DEF TypeInv

LEMMA NotWritten ==
  /\ NothingWritten.entry = {} /\ NothingWritten.gone = {} /\ NothingWritten.new = <<>>
  /\ NothingWritten.bill = {} /\ NothingWritten.due = {} /\ NothingWritten.undue = {}
  /\ NothingWritten.cust = {} /\ NothingWritten.log = {} /\ NothingWritten.queue = {}
BY DEF NothingWritten

\* A step that changes no row of the database.
QuietStep(r) ==
  /\ UNCHANGED <<committed, kind>>
  /\ \A q \in Req \ {r} : UNCHANGED Mine(q)

LEMMA QuietKeeps ==
  ASSUME TypeInv, NEW r \in Req, QuietStep(r), files' \subseteq Keys, young' \subseteq Req,
         pc'[r] \in Statement, holds'[r] \in SUBSET Lock,
         DOMAIN pc' = Req, DOMAIN holds' = Req, pc' = [q \in Req |-> pc'[q]],
         holds' = [q \in Req |-> holds'[q]],
         DOMAIN job' = Req, DOMAIN seen' = Req, DOMAIN txn' = Req,
         Fits(r)'
  PROVE  TypeInv'
<1>1. TypeOK'
  BY DEF TypeInv, TypeOK, QuietStep, committed
<1>2. pc' \in [Req -> Statement]
  <2>1. \A q \in Req : pc'[q] \in Statement
    BY DEF TypeInv, QuietStep, Mine
  <2> QED
    BY <2>1
<1>3. holds' \in [Req -> SUBSET Lock]
  <2>1. \A q \in Req : holds'[q] \in SUBSET Lock
    BY DEF TypeInv, QuietStep, Mine
  <2> QED
    BY <2>1
<1> QED
  BY <1>1, <1>2, <1>3, MoveKeeps DEF QuietStep

LEMMA EndIs ==
  ASSUME TypeInv, NEW r \in Req, NEW outcome \in {"done", "failed"}, End(r, outcome)
  PROVE  /\ QuietStep(r)
         /\ pc'[r] = outcome /\ job'[r] = None /\ seen'[r] = None
         /\ txn'[r] = NothingWritten /\ holds'[r] = {} /\ kind'[r] = kind[r]
         /\ Fits(r)'
         /\ files' \subseteq Keys /\ young' \subseteq Req => TypeInv'
<1>1. /\ QuietStep(r)
      /\ pc'[r] = outcome /\ job'[r] = None /\ seen'[r] = None
      /\ txn'[r] = NothingWritten /\ holds'[r] = {} /\ kind'[r] = kind[r]
      /\ DOMAIN pc' = Req /\ DOMAIN holds' = Req
      /\ pc' = [q \in Req |-> pc'[q]] /\ holds' = [q \in Req |-> holds'[q]]
      /\ DOMAIN job' = Req /\ DOMAIN seen' = Req /\ DOMAIN txn' = Req
  BY DEF TypeInv, End, QuietStep, Mine
<1>2. Fits(r)'
  BY <1>1 DEF Fits, Running, Resting, SeenFits, TxnFits
<1> QED
  BY <1>1, <1>2, QuietKeeps DEF Statement, Resting

LEMMA RefuseKeeps ==
  ASSUME TypeInv, NEW r \in Req, Refuse(r)
  PROVE  /\ TypeInv' /\ QuietStep(r) /\ pc'[r] = "failed" /\ young' = young \ {r} /\ files' = files
         /\ job'[r] = None /\ seen'[r] = None /\ txn'[r] = NothingWritten /\ holds'[r] = {}
<1>1. End(r, "failed") /\ young' = young \ {r} /\ files' = files
  BY DEF Refuse
<1> QED
  BY <1>1, EndIs DEF TypeInv, TypeOK

\* The requests are functions of Req.
Framed ==
  /\ pc = [q \in Req |-> pc[q]] /\ holds = [q \in Req |-> holds[q]]
  /\ DOMAIN job = Req /\ DOMAIN seen = Req /\ DOMAIN txn = Req

\* A step inside a handler: to another statement, with what it has read, written and locked.
Goes(r, at, read, written, locks) ==
  /\ QuietStep(r) /\ files' = files /\ young' = young
  /\ kind'[r] = kind[r] /\ pc'[r] = at /\ job'[r] = job[r]
  /\ seen'[r] = read /\ txn'[r] = written /\ holds'[r] = locks
  /\ Framed'

LEMMA GoesKeeps ==
  ASSUME TypeInv, NEW r \in Req, NEW at, NEW read, NEW written, NEW locks,
         Goes(r, at, read, written, locks), Running(r),
         at \in OnPath(kind[r]), locks \in SUBSET Lock,
         SeenFits(r)', TxnFits(r)'
  PROVE  TypeInv'
<1>2. at \in Statement /\ at \notin Resting
  BY DEF OnPath, Statement, Resting
<1>3. Fits(r)'
  BY <1>2 DEF Goes, TypeInv, Fits, Running, Resting
<1> QED
  BY <1>2, <1>3, QuietKeeps DEF Goes, TypeInv, TypeOK, Framed

LEMMA RemembersIs ==
  ASSUME TypeInv, NEW r \in Req, NEW at, NEW read,
         Remember(r, read), Goto(r, at), UNCHANGED txn, Private(r)
  PROVE  Goes(r, at, read, txn[r], holds[r])
BY DEF Goes, QuietStep, Mine, Framed, TypeInv, Remember, Goto, Private, Database

LEMMA WritesIs ==
  ASSUME TypeInv, NEW r \in Req, NEW at, NEW written,
         Write(r, written), Goto(r, at), UNCHANGED seen, Private(r)
  PROVE  Goes(r, at, seen[r], written, holds[r])
BY DEF Goes, QuietStep, Mine, Framed, TypeInv, Write, Goto, Private, Database

\* What a request has locked after it has locked rows.
With(r, on, mode) == holds[r] \cup [on : on, mode : {mode}]

LEMMA HoldsWrites ==
  ASSUME TypeInv, NEW r \in Req, NEW at, NEW written, NEW on, NEW mode,
         Hold(r, on, mode), Write(r, written), Goto(r, at), UNCHANGED seen, Database
  PROVE  Goes(r, at, seen[r], written, With(r, on, mode))
BY DEF Goes, QuietStep, Mine, Framed, TypeInv, Write, Goto, Hold, Database, With

LEMMA HoldsReads ==
  ASSUME TypeInv, NEW r \in Req, NEW at, NEW read, NEW on, NEW mode,
         Hold(r, on, mode), Remember(r, read), Goto(r, at), UNCHANGED txn, Database
  PROVE  Goes(r, at, read, txn[r], With(r, on, mode))
BY DEF Goes, QuietStep, Mine, Framed, TypeInv, Remember, Goto, Hold, Database, With

LEMMA LocksFit ==
  ASSUME TypeInv, NEW r \in Req, NEW mode \in {"share", "update"},
         NEW on \in SUBSET (({"entry"} \X EntryIds) \cup ({"row"} \X RowIds) \cup ({"cust"} \X Customers))
  PROVE  With(r, on, mode) \in SUBSET Lock
BY DEF TypeInv, With, Lock

-----------------------------------------------------------------------------
(***************************************************************************)
(* What each statement of a handler does                                   *)
(***************************************************************************)
LEMMA AtStatement ==
  ASSUME TypeInv, NEW r \in Req, Running(r)
  PROVE  pc[r] \in OnPath(kind[r]) /\ job[r] \in JobOf(kind[r]) /\ job[r].op = kind[r] /\ kind[r] \in Kinds
<1>1. pc[r] \in OnPath(kind[r]) /\ job[r] \in JobOf(kind[r]) /\ kind[r] \in Kinds
  BY DEF TypeInv, Fits, Running, Resting
<1>2. CASE kind[r] \in {"save", "deleteEntry", "attach", "deleteRow", "add"}
  BY <1>1, <1>2 DEF JobOf
<1>3. CASE kind[r] \notin {"save", "deleteEntry", "attach", "deleteRow", "add"}
  BY <1>1, <1>3 DEF JobOf
<1> QED
  BY <1>1, <1>2, <1>3

LEMMA KindAt ==
  ASSUME TypeInv, NEW r \in Req
  PROVE  /\ pc[r] \in {"loadEntry", "readRows", "dropRows"} => kind[r] \in {"save", "deleteEntry"}
         /\ pc[r] \in {"checkCustomers", "post"} => kind[r] = "save"
         /\ pc[r] \in {"dropEntry", "countScope"} => kind[r] = "deleteEntry"
         /\ pc[r] \in {"loadRow", "writeRow"} => kind[r] \in {"attach", "deleteRow"}
         /\ pc[r] \in {"lockCustomer", "checkTwin", "insertRow"} => kind[r] = "add"
         /\ pc[r] = "loadCustomer" => kind[r] \in {"saveCustomer", "deleteCustomer"}
         /\ pc[r] = "writeCustomer" => kind[r] \in {"saveCustomer", "deleteCustomer", "addCustomer"}
         /\ Running(r) => kind[r] \notin {"saveCheckpoint", "deleteCheckpoint"}
<1>1. kind[r] \in Kinds /\ pc[r] \in OnPath(kind[r]) \cup Resting
  BY DEF TypeInv, Fits
<1>2. CASE kind[r] \in {"save", "deleteEntry"}
  BY <1>1, <1>2 DEF OnPath, Resting, Running
<1>3. CASE kind[r] \in {"attach", "deleteRow", "add"}
  BY <1>1, <1>3 DEF OnPath, Resting, Running
<1>4. CASE kind[r] \in {"saveCustomer", "deleteCustomer", "addCustomer"}
  BY <1>1, <1>4 DEF OnPath, Resting, Running
<1>5. CASE kind[r] \in {"saveCheckpoint", "deleteCheckpoint"}
  BY <1>1, <1>5 DEF OnPath, Resting, Running
<1> QED
  BY <1>1, <1>2, <1>3, <1>4, <1>5 DEF Kinds

LEMMA JobIs ==
  ASSUME TypeInv, NEW r \in Req, Running(r)
  PROVE  /\ job[r].op = kind[r]
         /\ kind[r] = "save" => /\ job[r].entry \in EntryIds /\ job[r].scope \in Scopes
                                /\ job[r].form \in Forms /\ job[r].bills \in SUBSET Keys
         /\ kind[r] = "deleteEntry" => job[r].entry \in EntryIds /\ job[r].scope \in Scopes
         /\ kind[r] \in {"attach", "deleteRow"} =>
              /\ job[r].entry \in EntryIds \cup {None} /\ job[r].row \in RowIds
              /\ job[r].cust \in Customers /\ job[r].bills \in SUBSET Req
         /\ kind[r] = "add" => /\ job[r].cust \in Customers /\ job[r].form \in Payment
                               /\ job[r].bills \in SUBSET Req
         /\ kind[r] \in {"saveCustomer", "deleteCustomer", "addCustomer"} =>
              job[r].cust \in Customers /\ job[r].bills \in SUBSET Keys
<1>1. job[r] \in JobOf(kind[r]) /\ job[r].op = kind[r]
  BY AtStatement
<1>2. CASE kind[r] \in {"save", "deleteEntry"}
  BY <1>1, <1>2 DEF JobOf
<1>3. CASE kind[r] \in {"attach", "deleteRow", "add"}
  BY <1>1, <1>3 DEF JobOf
<1>4. CASE kind[r] \in {"saveCustomer", "deleteCustomer", "addCustomer"}
  BY <1>1, <1>4 DEF JobOf
<1> QED
  BY <1>1, <1>2, <1>3, <1>4

LEMMA LoadForSaveIs ==
  ASSUME TypeInv, NEW r \in Req, LoadForSave(r)
  PROVE  /\ kind[r] = "save" /\ Running(r)
         /\ \/ Refuse(r)
            \/ /\ MayBeSaved(job[r].form) /\ job[r].entry = r
               /\ Goes(r, "checkCustomers", Loaded(None), txn[r], holds[r])
            \/ /\ MayBeSaved(job[r].form) /\ job[r].entry # r
               /\ entries[job[r].entry] # None
               /\ Free(r, {<<"entry", job[r].entry>>}, "update")
               /\ Goes(r, "readRows", Loaded(entries[job[r].entry]), txn[r],
                       With(r, {<<"entry", job[r].entry>>}, "update"))
<1>1. Running(r) /\ kind[r] = "save"
  BY JobIs, KindAt DEF LoadForSave, Running
<1>2. CASE Refuse(r)
  BY <1>1, <1>2
<1>3. CASE /\ MayBeSaved(job[r].form) /\ job[r].entry = r
           /\ Remember(r, Loaded(None)) /\ Goto(r, "checkCustomers")
           /\ UNCHANGED txn /\ Private(r)
  BY <1>1, <1>3, RemembersIs
<1>4. CASE /\ MayBeSaved(job[r].form) /\ job[r].entry # r
           /\ entries[job[r].entry] # None
           /\ Free(r, {<<"entry", job[r].entry>>}, "update")
           /\ Hold(r, {<<"entry", job[r].entry>>}, "update")
           /\ Remember(r, Loaded(entries[job[r].entry]))
           /\ Goto(r, "readRows")
           /\ UNCHANGED txn /\ Database
  BY <1>1, <1>4, HoldsReads
<1> QED
  BY <1>2, <1>3, <1>4 DEF LoadForSave

LEMMA LoadForDeleteIs ==
  ASSUME TypeInv, NEW r \in Req, LoadForDelete(r)
  PROVE  /\ kind[r] = "deleteEntry" /\ Running(r)
         /\ \/ Refuse(r)
            \/ /\ entries[job[r].entry] # None
               /\ Goes(r, "readRows", Loaded(entries[job[r].entry]), txn[r], holds[r])
<1>1. Running(r) /\ kind[r] = "deleteEntry"
  BY JobIs, KindAt DEF LoadForDelete, Running
<1>2. CASE Refuse(r)
  BY <1>1, <1>2
<1>3. CASE /\ entries[job[r].entry] # None
           /\ Remember(r, Loaded(entries[job[r].entry])) /\ Goto(r, "readRows")
           /\ UNCHANGED txn /\ Private(r)
  BY <1>1, <1>3, RemembersIs
<1> QED
  BY <1>2, <1>3 DEF LoadForDelete

\* What ReadRows remembers.
RowsRead(r) ==
  [seen[r] EXCEPT
     !.rows = Sourced(job[r].entry),
     !.bills = [c \in Customers |-> BillsOf(Sourced(job[r].entry) \cap OfCustomer(c))],
     !.due = {d \in dues : d.src = job[r].entry}]

LEMMA ReadRowsIs ==
  ASSUME TypeInv, NEW r \in Req, ReadRows(r)
  PROVE  /\ kind[r] \in {"save", "deleteEntry"} /\ Running(r)
         /\ Goes(r, "dropRows", RowsRead(r), txn[r], holds[r])
<1>1. Running(r) /\ kind[r] \in {"save", "deleteEntry"}
  BY KindAt DEF ReadRows, Running
<1> QED
  BY <1>1, RemembersIs DEF ReadRows, RowsRead

LEMMA DropRowsIs ==
  ASSUME TypeInv, NEW r \in Req, DropRows(r)
  PROVE  LET on == {<<"row", i>> : i \in seen[r].rows} IN
         /\ Running(r) /\ Free(r, on, "update")
         /\ \/ /\ kind[r] = "save"
               /\ Goes(r, "checkCustomers", seen[r], Dropped(r), With(r, on, "update"))
            \/ /\ kind[r] = "deleteEntry"
               /\ Goes(r, "dropEntry", seen[r], RowsDropped(r), With(r, on, "update"))
<1> DEFINE on == {<<"row", i>> : i \in seen[r].rows}
           dropped == [txn[r] EXCEPT !.gone = seen[r].rows, !.undue = seen[r].due]
<1>1. /\ Running(r) /\ kind[r] \in {"save", "deleteEntry"} /\ job[r].op = kind[r]
      /\ txn[r] = NothingWritten
  BY JobIs, KindAt DEF DropRows, Running, TypeInv, Fits, TxnFits, Unwritten
<1>2. dropped = Dropped(r)
  BY <1>1 DEF Dropped
<1>3. [dropped EXCEPT !.queue = (UNION Range(seen[r].bills))] = RowsDropped(r)
  BY <1>2 DEF RowsDropped
<1>4. CASE kind[r] = "save"
  <2>1. /\ Hold(r, on, "update") /\ Free(r, on, "update") /\ Write(r, dropped)
        /\ Goto(r, "checkCustomers") /\ UNCHANGED seen /\ Database
    BY <1>1, <1>4 DEF DropRows
  <2> QED
    BY <1>1, <1>2, <1>4, <2>1, HoldsWrites
<1>5. CASE kind[r] = "deleteEntry"
  <2>1. /\ Hold(r, on, "update") /\ Free(r, on, "update")
        /\ Write(r, [dropped EXCEPT !.queue = (UNION Range(seen[r].bills))])
        /\ Goto(r, "dropEntry") /\ UNCHANGED seen /\ Database
    BY <1>1, <1>5 DEF DropRows
  <2> QED
    BY <1>1, <1>3, <1>5, <2>1, HoldsWrites
<1> QED
  BY <1>1, <1>4, <1>5

LEMMA CheckCustomersIs ==
  ASSUME TypeInv, NEW r \in Req, CheckCustomers(r)
  PROVE  /\ kind[r] = "save" /\ Running(r)
         /\ \/ Refuse(r)
            \/ /\ \A i \in ChargeLines(job[r].form) : job[r].form.lines[i].who \in Known
               /\ Goes(r, "post", [seen[r] EXCEPT !.lines = BuildPayments(job[r].form.lines)],
                       txn[r], holds[r])
<1>1. Running(r) /\ kind[r] = "save"
  BY KindAt DEF CheckCustomers, Running
<1> QED
  BY <1>1, RemembersIs DEF CheckCustomers

NamedInLines(r) == {seen[r].lines[i].who : i \in DOMAIN seen[r].lines} \cap Customers

LEMMA PostIs ==
  ASSUME TypeInv, NEW r \in Req, Post(r)
  PROVE  LET on == {<<"cust", c>> : c \in NamedInLines(r)} IN
         /\ kind[r] = "save" /\ Running(r)
         /\ \/ Refuse(r)
            \/ /\ NamedInLines(r) \subseteq Known /\ Free(r, on, "share")
               /\ Goes(r, "commit", seen[r], Posted(r), With(r, on, "share"))
<1> DEFINE on == {<<"cust", c>> : c \in NamedInLines(r)}
           id == job[r].entry
           e == BuildEntry(job[r], seen[r].lines)
           charges == IF e.final THEN NewCharges(r, id, e, seen[r].bills) ELSE <<>>
           taken == {charges[row].bill : row \in DOMAIN charges}
           written == [txn[r] EXCEPT
                !.entry = {e}, !.new = charges,
                !.due = IF e.final THEN NewAdvances(r, id, e) \cup NewVariance(r, id, e) ELSE {},
                !.queue = ((UNION Range(seen[r].bills)) \ taken) \cup RemovedKeys(seen[r].entry, job[r].bills)]
<1>1. /\ Running(r) /\ kind[r] = "save" /\ txn[r] = Dropped(r)
  BY KindAt DEF Post, Running, TypeInv, Fits, TxnFits
<1>2. e = NewEntry(r) /\ e.final = job[r].form.final
  BY DEF NewEntry, BuildEntry
<1>3. charges = Charges(r) /\ taken = Claimed(r)
  BY <1>2 DEF Charges, Claimed
<1>4. (IF e.final THEN NewAdvances(r, id, e) \cup NewVariance(r, id, e) ELSE {}) = NewDues(r)
  BY <1>2 DEF NewDues
<1>5. written = Posted(r)
  BY <1>1, <1>2, <1>3, <1>4 DEF Posted, SaveQueue
<1>6. CASE Refuse(r)
  BY <1>1, <1>6
<1>7. CASE /\ NamedInLines(r) \subseteq Known /\ Free(r, on, "share")
           /\ Hold(r, on, "share") /\ Write(r, written)
           /\ Goto(r, "commit") /\ UNCHANGED seen /\ Database
  <2> HIDE DEF written, on
  <2>1. Goes(r, "commit", seen[r], written, With(r, on, "share"))
    BY <1>7, HoldsWrites
  <2> QED
    BY <1>1, <1>5, <1>7, <2>1 DEF on
<1> QED
  BY <1>6, <1>7 DEF Post, NamedInLines

LEMMA DropEntryIs ==
  ASSUME TypeInv, NEW r \in Req, DropEntry(r)
  PROVE  LET on == {<<"entry", job[r].entry>>} \cup {<<"row", i>> : i \in Sourced(job[r].entry)} IN
         /\ kind[r] = "deleteEntry" /\ Running(r) /\ Free(r, on, "update")
         /\ Goes(r, "countScope", seen[r], EntryDropped(r), With(r, on, "update"))
<1>1. /\ Running(r) /\ kind[r] = "deleteEntry" /\ txn[r] = RowsDropped(r)
  BY KindAt DEF DropEntry, Running, TypeInv, Fits, TxnFits
<1>2. [txn[r] EXCEPT !.entry = {None}, !.queue = @ \cup seen[r].entry.bills] = EntryDropped(r)
  BY <1>1 DEF EntryDropped
<1> QED
  BY <1>1, <1>2, HoldsWrites DEF DropEntry

LEMMA CountScopeIs ==
  ASSUME TypeInv, NEW r \in Req, CountScope(r)
  PROVE  LET log == IF LeftInScope(job[r].entry, seen[r].entry.scope) = {}
                    THEN {seen[r].entry.scope} \cap checkpoints ELSE {} IN
         /\ kind[r] = "deleteEntry" /\ Running(r)
         /\ Goes(r, "commit", seen[r], [EntryDropped(r) EXCEPT !.log = log], holds[r])
<1>1. /\ Running(r) /\ kind[r] = "deleteEntry" /\ txn[r] = EntryDropped(r)
  BY KindAt DEF CountScope, Running, TypeInv, Fits, TxnFits
<1> QED
  BY <1>1, WritesIs DEF CountScope

LEMMA LoadRowIs ==
  ASSUME TypeInv, NEW r \in Req, LoadRow(r)
  PROVE  /\ kind[r] \in {"attach", "deleteRow"} /\ Running(r)
         /\ \/ Refuse(r)
            \/ /\ ledger[job[r].row] # None
               /\ kind[r] = "deleteRow" => ledger[job[r].row].src = None
               /\ Goes(r, "writeRow", ledger[job[r].row].bill, txn[r], holds[r])
<1>1. /\ Running(r) /\ kind[r] \in {"attach", "deleteRow"} /\ job[r].op = kind[r]
  BY KindAt, JobIs DEF LoadRow, Running
<1>2. CASE Refuse(r)
  BY <1>1, <1>2
<1>3. CASE ~Refuse(r)
  <2>1. /\ ledger[job[r].row] # None
        /\ job[r].op = "deleteRow" => ledger[job[r].row].src = None
        /\ Remember(r, ledger[job[r].row].bill) /\ Goto(r, "writeRow")
        /\ UNCHANGED txn /\ Private(r)
    BY <1>3 DEF LoadRow
  <2> QED
    BY <1>1, <2>1, RemembersIs
<1> QED
  BY <1>2, <1>3

LEMMA WriteBillIs ==
  ASSUME TypeInv, NEW r \in Req, WriteBill(r)
  PROVE  LET on == {<<"row", job[r].row>>} IN
         /\ kind[r] = "attach" /\ Running(r)
         /\ \/ Refuse(r)
            \/ /\ ledger[job[r].row] # None /\ Free(r, on, "update")
               /\ Goes(r, "commit", seen[r], BillWritten(r), With(r, on, "update"))
<1> DEFINE on == {<<"row", job[r].row>>}
           written == [txn[r] EXCEPT
             !.bill = IF NewBill(r) = seen[r] THEN {} ELSE {[row |-> job[r].row, key |-> NewBill(r)]},
             !.queue = {seen[r]} \ {None, NewBill(r)}]
<1>1. /\ Running(r) /\ kind[r] = "attach" /\ txn[r] = NothingWritten
  BY KindAt, JobIs DEF WriteBill, Running, TypeInv, Fits, TxnFits, Unwritten
<1>2. written = BillWritten(r)
  BY <1>1 DEF BillWritten
<1>3. CASE Refuse(r)
  BY <1>1, <1>3
<1>4. CASE ~Refuse(r)
  <2>1. /\ ledger[job[r].row] # None /\ Free(r, on, "update")
        /\ Hold(r, on, "update") /\ Write(r, written) /\ Goto(r, "commit") /\ UNCHANGED seen /\ Database
    BY <1>4 DEF WriteBill, NewBill
  <2> HIDE DEF written
  <2> QED
    BY <1>1, <1>2, <2>1, HoldsWrites
<1> QED
  BY <1>3, <1>4

LEMMA DeleteRowIs ==
  ASSUME TypeInv, NEW r \in Req, DeleteRow(r)
  PROVE  LET on == {<<"row", job[r].row>>} IN
         /\ kind[r] = "deleteRow" /\ Running(r) /\ Free(r, on, "update")
         /\ Goes(r, "commit", seen[r], RowDropped(r), With(r, on, "update"))
<1>1. /\ Running(r) /\ kind[r] = "deleteRow" /\ txn[r] = NothingWritten
  BY KindAt, JobIs DEF DeleteRow, Running, TypeInv, Fits, TxnFits, Unwritten
<1>2. [txn[r] EXCEPT !.gone = {job[r].row}, !.queue = {seen[r]} \ {None}] = RowDropped(r)
  BY <1>1 DEF RowDropped
<1> QED
  BY <1>1, <1>2, HoldsWrites DEF DeleteRow

LEMMA LockCustomerIs ==
  ASSUME TypeInv, NEW r \in Req, LockCustomer(r)
  PROVE  LET on == IF job[r].cust \in Known THEN {<<"cust", job[r].cust>>} ELSE {} IN
         /\ kind[r] = "add" /\ Running(r) /\ Free(r, {<<"cust", job[r].cust>>}, "update")
         /\ Goes(r, "checkTwin", seen[r], txn[r], With(r, on, "update"))
<1>1. /\ Running(r) /\ kind[r] = "add"
  BY KindAt DEF LockCustomer, Running
<1> QED
  BY <1>1 DEF LockCustomer, Goes, QuietStep, Mine, Framed, TypeInv, Goto, Hold, Database, With

LEMMA CheckTwinIs ==
  ASSUME TypeInv, NEW r \in Req, CheckTwin(r)
  PROVE  /\ kind[r] = "add" /\ Running(r)
         /\ \/ Refuse(r)
            \/ /\ job[r].cust \in Known /\ Twins(job[r].cust, job[r].form) = {}
               /\ Goes(r, "insertRow", seen[r], txn[r], holds[r])
<1>1. /\ Running(r) /\ kind[r] = "add"
  BY KindAt DEF CheckTwin, Running
<1> QED
  BY <1>1 DEF CheckTwin, Goes, QuietStep, Mine, Framed, TypeInv, Goto, Private, Database

LEMMA InsertRowIs ==
  ASSUME TypeInv, NEW r \in Req, InsertRow(r)
  PROVE  /\ kind[r] = "add" /\ Running(r)
         /\ Goes(r, "commit", seen[r], RowAdded(r), holds[r])
<1>1. /\ Running(r) /\ kind[r] = "add" /\ txn[r] = NothingWritten
  BY KindAt DEF InsertRow, Running, TypeInv, Fits, TxnFits, Unwritten
<1>2. Write(r, RowAdded(r))
  BY <1>1 DEF InsertRow, Write, RowAdded, NewBill
<1> QED
  BY <1>1, <1>2, WritesIs DEF InsertRow

LEMMA LoadCustomerIs ==
  ASSUME TypeInv, NEW r \in Req, LoadCustomer(r)
  PROVE  /\ kind[r] \in {"saveCustomer", "deleteCustomer"} /\ Running(r)
         /\ \/ Refuse(r)
            \/ /\ job[r].cust \in Known /\ (kind[r] = "deleteCustomer" => MayGo(job[r].cust))
               /\ Goes(r, "writeCustomer",
                       [bills |-> custs[job[r].cust], rows |-> BillsOf(OfCustomer(job[r].cust))],
                       txn[r], holds[r])
<1>1. /\ Running(r) /\ kind[r] \in {"saveCustomer", "deleteCustomer"} /\ job[r].op = kind[r]
  BY KindAt, JobIs DEF LoadCustomer, Running
<1>2. CASE Refuse(r)
  BY <1>1, <1>2
<1>3. CASE ~Refuse(r)
  <2>1. /\ job[r].cust \in Known /\ (job[r].op = "deleteCustomer" => MayGo(job[r].cust))
        /\ Remember(r, [bills |-> custs[job[r].cust], rows |-> BillsOf(OfCustomer(job[r].cust))])
        /\ Goto(r, "writeCustomer") /\ UNCHANGED txn /\ Private(r)
    BY <1>3 DEF LoadCustomer
  <2> QED
    BY <1>1, <2>1, RemembersIs
<1> QED
  BY <1>2, <1>3

LEMMA WriteCustomerIs ==
  ASSUME TypeInv, NEW r \in Req, WriteCustomer(r)
  PROVE  LET on == {<<"cust", job[r].cust>>}
             mode == IF job[r].cust \in Known THEN "share" ELSE "update" IN
         /\ kind[r] \in {"saveCustomer", "addCustomer"} /\ Running(r)
         /\ \/ Refuse(r)
            \/ /\ job[r].cust \in Known <=> kind[r] = "saveCustomer"
               /\ Free(r, on, "share")
               /\ Goes(r, "commit", seen[r], CustomerWritten(r), With(r, on, mode))
<1> DEFINE on == {<<"cust", job[r].cust>>}
           mode == IF job[r].cust \in Known THEN "share" ELSE "update"
           written == [txn[r] EXCEPT
                !.cust = {[out |-> OldBills(r) \ job[r].bills, in |-> job[r].bills \ OldBills(r)]},
                !.queue = OldBills(r) \ job[r].bills]
<1>1. /\ Running(r) /\ kind[r] \in {"saveCustomer", "addCustomer"} /\ job[r].op = kind[r]
      /\ txn[r] = NothingWritten
  BY KindAt, JobIs DEF WriteCustomer, Running, TypeInv, Fits, TxnFits, Unwritten
<1>2. written = CustomerWritten(r)
  BY <1>1 DEF CustomerWritten
<1>3. CASE Refuse(r)
  BY <1>1, <1>3
<1>4. CASE ~Refuse(r)
  <2>1. /\ job[r].cust \in Known <=> kind[r] = "saveCustomer"
        /\ Free(r, on, "share")
        /\ Hold(r, on, mode) /\ Write(r, written) /\ Goto(r, "commit") /\ UNCHANGED seen /\ Database
    BY <1>1, <1>4 DEF WriteCustomer, OldBills
  <2> HIDE DEF written, mode, on
  <2>2. Goes(r, "commit", seen[r], written, With(r, on, mode))
    BY <2>1, HoldsWrites
  <2> QED
    BY <1>1, <1>2, <2>1, <2>2 DEF on, mode
<1> QED
  BY <1>3, <1>4

LEMMA DeleteCustomerIs ==
  ASSUME TypeInv, NEW r \in Req, DeleteCustomer(r)
  PROVE  LET on == {<<"cust", job[r].cust>>} \cup {<<"row", i>> : i \in OfCustomer(job[r].cust)} IN
         /\ kind[r] = "deleteCustomer" /\ Running(r) /\ Free(r, on, "update")
         /\ Goes(r, "commit", seen[r], CustomerDropped(r), With(r, on, "update"))
<1>1. /\ Running(r) /\ kind[r] = "deleteCustomer" /\ txn[r] = NothingWritten
  BY KindAt, JobIs DEF DeleteCustomer, Running, TypeInv, Fits, TxnFits, Unwritten
<1>2. [txn[r] EXCEPT !.cust = {None}, !.queue = seen[r].bills \cup seen[r].rows] = CustomerDropped(r)
  BY <1>1 DEF CustomerDropped
<1> QED
  BY <1>1, <1>2, HoldsWrites DEF DeleteCustomer

-----------------------------------------------------------------------------
(***************************************************************************)
(* The steps of a handler keep the types                                   *)
(***************************************************************************)
LEMMA NothingDropped ==
  ASSUME NEW rows, NEW due, rows = {}, due = {}
  PROVE  [NothingWritten EXCEPT !.gone = rows, !.undue = due] = NothingWritten
<1>1. /\ NothingWritten = [x \in DOMAIN NothingWritten |-> NothingWritten[x]]
      /\ NothingWritten.gone = rows /\ NothingWritten.undue = due
  BY DEF NothingWritten
<1> DEFINE t == NothingWritten
<1>2. t = [x \in DOMAIN t |-> t[x]] /\ t.gone = rows /\ t.undue = due
  BY <1>1
<1> HIDE DEF t
<1>3. [t EXCEPT !.gone = rows, !.undue = due] = t
  BY <1>2
<1> QED
  BY <1>3 DEF t

LEMMA LoadedFits ==
  ASSUME NEW entry \in Entry \cup {None}
  PROVE  Loaded(entry) \in EntryRead /\ Loaded(entry).entry = entry
         /\ Loaded(entry).rows = {} /\ Loaded(entry).due = {}
BY DEF Loaded, EntryRead

LEMMA LoadForSaveKeeps ==
  ASSUME TypeInv, NEW r \in Req, LoadForSave(r)
  PROVE  TypeInv'
<1>1. /\ kind[r] = "save" /\ Running(r) /\ txn[r] = NothingWritten /\ pc[r] = "loadEntry"
      /\ holds[r] \in SUBSET Lock /\ job[r].entry \in EntryIds
  BY LoadForSaveIs, JobIs DEF LoadForSave, TypeInv, Fits, TxnFits, Unwritten
<1>2. CASE Refuse(r)
  BY <1>2, RefuseKeeps
<1>3. CASE Goes(r, "checkCustomers", Loaded(None), txn[r], holds[r])
  <2>1. SeenFits(r)'
    BY <1>1, <1>3, LoadedFits DEF SeenFits, Goes
  <2>2. Dropped(r)' = NothingWritten
    <3>1. seen'[r].rows = {} /\ seen'[r].due = {}
      BY <1>3, LoadedFits DEF Goes
    <3> QED
      BY <3>1, NothingDropped DEF Dropped, NothingWritten
  <2>3. TxnFits(r)'
    BY <1>1, <1>3, <2>2 DEF TxnFits, Goes, Unwritten
  <2> QED
    BY <1>1, <1>3, <2>1, <2>3, GoesKeeps DEF OnPath
<1>4. CASE /\ entries[job[r].entry] # None
           /\ Goes(r, "readRows", Loaded(entries[job[r].entry]), txn[r],
                   With(r, {<<"entry", job[r].entry>>}, "update"))
  <2>1. SeenFits(r)'
    BY <1>1, <1>4, LoadedFits DEF SeenFits, Goes, TypeInv, TypeOK
  <2>2. TxnFits(r)'
    BY <1>1, <1>4 DEF TxnFits, Goes, Unwritten
  <2>3. With(r, {<<"entry", job[r].entry>>}, "update") \in SUBSET Lock
    BY <1>1, LocksFit
  <2> QED
    BY <1>1, <1>4, <2>1, <2>2, <2>3, GoesKeeps DEF OnPath
<1> QED
  BY <1>2, <1>3, <1>4, LoadForSaveIs

LEMMA LoadForDeleteKeeps ==
  ASSUME TypeInv, NEW r \in Req, LoadForDelete(r)
  PROVE  TypeInv'
<1>1. /\ kind[r] = "deleteEntry" /\ Running(r) /\ txn[r] = NothingWritten /\ pc[r] = "loadEntry"
      /\ holds[r] \in SUBSET Lock /\ job[r].entry \in EntryIds
  BY LoadForDeleteIs, JobIs DEF LoadForDelete, TypeInv, Fits, TxnFits, Unwritten
<1>2. CASE Refuse(r)
  BY <1>2, RefuseKeeps
<1>3. CASE /\ entries[job[r].entry] # None
           /\ Goes(r, "readRows", Loaded(entries[job[r].entry]), txn[r], holds[r])
  <2>1. SeenFits(r)'
    BY <1>1, <1>3, LoadedFits DEF SeenFits, Goes, TypeInv, TypeOK
  <2>2. TxnFits(r)'
    BY <1>1, <1>3 DEF TxnFits, Goes, Unwritten
  <2> QED
    BY <1>1, <1>3, <2>1, <2>2, GoesKeeps DEF OnPath
<1> QED
  BY <1>2, <1>3, LoadForDeleteIs

LEMMA BillsAreKeys ==
  ASSUME TypeInv, NEW rows \in SUBSET Rows
  PROVE  BillsOf(rows) \in SUBSET Keys
BY DEF BillsOf, TypeInv, TypeOK, Charge, Rows

LEMMA RowsReadFits ==
  ASSUME TypeInv, NEW r \in Req, seen[r] \in EntryRead
  PROVE  /\ RowsRead(r) \in EntryRead /\ RowsRead(r).entry = seen[r].entry
         /\ RowsRead(r).rows = Sourced(job[r].entry)
         /\ RowsRead(r).due = {d \in dues : d.src = job[r].entry}
         /\ RowsRead(r).bills = [c \in Customers |-> BillsOf(Sourced(job[r].entry) \cap OfCustomer(c))]
<1>1. [c \in Customers |-> BillsOf(Sourced(job[r].entry) \cap OfCustomer(c))] \in [Customers -> SUBSET Keys]
  BY BillsAreKeys DEF Sourced
<1>2. Sourced(job[r].entry) \in SUBSET RowIds
  BY DEF Sourced, Rows
<1>3. {d \in dues : d.src = job[r].entry} \in SUBSET Due
  BY DEF TypeInv, TypeOK
<1> QED
  BY <1>1, <1>2, <1>3 DEF RowsRead, EntryRead

LEMMA ReadRowsKeeps ==
  ASSUME TypeInv, NEW r \in Req, ReadRows(r)
  PROVE  TypeInv'
<1>1. /\ kind[r] \in {"save", "deleteEntry"} /\ Running(r) /\ txn[r] = NothingWritten
      /\ pc[r] = "readRows" /\ holds[r] \in SUBSET Lock
      /\ seen[r] \in EntryRead /\ seen[r].entry # None
      /\ Goes(r, "dropRows", RowsRead(r), txn[r], holds[r])
  BY ReadRowsIs DEF ReadRows, TypeInv, Fits, TxnFits, SeenFits, Unwritten
<1>2. SeenFits(r)'
  BY <1>1, RowsReadFits DEF SeenFits, Goes
<1>3. TxnFits(r)'
  BY <1>1 DEF TxnFits, Goes, Unwritten
<1> QED
  BY <1>1, <1>2, <1>3, GoesKeeps DEF OnPath

LEMMA DropRowsKeeps ==
  ASSUME TypeInv, NEW r \in Req, DropRows(r)
  PROVE  TypeInv'
<1> DEFINE locks == With(r, {<<"row", i>> : i \in seen[r].rows}, "update")
<1>1. /\ kind[r] \in {"save", "deleteEntry"} /\ Running(r)
      /\ pc[r] = "dropRows" /\ seen[r] \in EntryRead /\ seen[r].entry # None
  BY DropRowsIs DEF DropRows, TypeInv, Fits, SeenFits
<1>2. locks \in SUBSET Lock
  BY <1>1, LocksFit DEF EntryRead
<1> HIDE DEF locks
<1>3. CASE kind[r] = "save" /\ Goes(r, "checkCustomers", seen[r], Dropped(r), locks)
  <2>1. SeenFits(r)' /\ TxnFits(r)'
    BY <1>1, <1>3, SameWritings DEF SeenFits, TxnFits, Goes, Unwritten
  <2> QED
    BY <1>1, <1>2, <1>3, <2>1, GoesKeeps DEF OnPath
<1>4. CASE kind[r] = "deleteEntry" /\ Goes(r, "dropEntry", seen[r], RowsDropped(r), locks)
  <2>1. SeenFits(r)' /\ TxnFits(r)'
    BY <1>1, <1>4, SameWritings DEF SeenFits, TxnFits, Goes, Unwritten
  <2> QED
    BY <1>1, <1>2, <1>4, <2>1, GoesKeeps DEF OnPath
<1> QED
  BY <1>3, <1>4, DropRowsIs DEF locks

LEMMA BuiltLines ==
  ASSUME NEW lines \in Seq(Line)
  PROVE  BuildPayments(lines) \in Seq(Line) /\ Len(BuildPayments(lines)) = Len(lines)
<1>1. BuildPayments(lines) = [i \in 1 .. Len(lines) |-> BuildPayments(lines)[i]]
  BY DEF BuildPayments
<1>2. ASSUME NEW i \in 1 .. Len(lines) PROVE BuildPayments(lines)[i] \in Line
  <2>1. BuildPayments(lines)[i] = IF lines[i].who \in Known \cup Workers THEN lines[i]
                                  ELSE [lines[i] EXCEPT !.who = None]
    BY DEF BuildPayments
  <2>2. lines[i] \in Line
    OBVIOUS
  <2> QED
    BY <2>1, <2>2 DEF Line
<1> QED
  BY <1>1, <1>2

LEMMA FormFields ==
  ASSUME NEW f \in Forms
  PROVE  f.lines \in Seq(Line) /\ Len(f.lines) <= MaxLines /\ f.worker \in Workers \cup {None}
         /\ f.final \in BOOLEAN /\ f.offer \in Nat
BY FormsTyped

LEMMA CheckCustomersKeeps ==
  ASSUME TypeInv, NEW r \in Req, CheckCustomers(r)
  PROVE  TypeInv'
<1> DEFINE read == [seen[r] EXCEPT !.lines = BuildPayments(job[r].form.lines)]
<1>1. /\ kind[r] = "save" /\ Running(r) /\ pc[r] = "checkCustomers" /\ seen[r] \in EntryRead
      /\ txn[r] = Dropped(r) /\ job[r].form \in Forms /\ holds[r] \in SUBSET Lock
  BY CheckCustomersIs, JobIs DEF CheckCustomers, TypeInv, Fits, SeenFits, TxnFits
<1>2. CASE Refuse(r)
  BY <1>2, RefuseKeeps
<1>3. CASE Goes(r, "post", read, txn[r], holds[r])
  <2>1. BuildPayments(job[r].form.lines) \in Seq(Line)
        /\ Len(BuildPayments(job[r].form.lines)) = Len(job[r].form.lines)
    BY <1>1, BuiltLines, FormFields
  <2>2. /\ read \in EntryRead /\ read.rows = seen[r].rows /\ read.due = seen[r].due
        /\ read.lines = BuildPayments(job[r].form.lines)
    BY <1>1, <2>1 DEF EntryRead
  <2> HIDE DEF read
  <2>3. SeenFits(r)'
    BY <1>1, <1>3, <2>1, <2>2 DEF SeenFits, Goes
  <2>4. Dropped(r)' = Dropped(r)
    BY <1>3, <2>2 DEF Dropped, NothingWritten, Goes
  <2>5. TxnFits(r)'
    BY <1>1, <1>3, <2>4 DEF TxnFits, Goes, Unwritten
  <2> QED
    BY <1>1, <1>3, <2>3, <2>5, GoesKeeps DEF OnPath
<1> QED
  BY <1>2, <1>3, CheckCustomersIs

LEMMA PostKeeps ==
  ASSUME TypeInv, NEW r \in Req, Post(r)
  PROVE  TypeInv'
<1> DEFINE locks == With(r, {<<"cust", c>> : c \in NamedInLines(r)}, "share")
<1>1. /\ kind[r] = "save" /\ Running(r) /\ pc[r] = "post" /\ seen[r] \in EntryRead
      /\ Len(seen[r].lines) = Len(job[r].form.lines)
  BY PostIs DEF Post, TypeInv, Fits, SeenFits
<1>2. CASE Refuse(r)
  BY <1>2, RefuseKeeps
<1>3. CASE Goes(r, "commit", seen[r], Posted(r), locks)
  <2>1. locks \in SUBSET Lock
    BY LocksFit DEF NamedInLines
  <2> HIDE DEF locks
  <2>2. SeenFits(r)' /\ TxnFits(r)'
    BY <1>1, <1>3, SameWritings DEF SeenFits, TxnFits, Goes, Unwritten
  <2> QED
    BY <1>1, <1>3, <2>1, <2>2, GoesKeeps DEF OnPath
<1> QED
  BY <1>2, <1>3, PostIs

LEMMA DropEntryKeeps ==
  ASSUME TypeInv, NEW r \in Req, DropEntry(r)
  PROVE  TypeInv'
<1> DEFINE locks == With(r, {<<"entry", job[r].entry>>} \cup {<<"row", i>> : i \in Sourced(job[r].entry)}, "update")
<1>1. /\ kind[r] = "deleteEntry" /\ Running(r) /\ pc[r] = "dropEntry"
      /\ seen[r] \in EntryRead /\ seen[r].entry # None /\ job[r].entry \in EntryIds
      /\ Goes(r, "countScope", seen[r], EntryDropped(r), locks)
  BY DropEntryIs, JobIs DEF DropEntry, TypeInv, Fits, SeenFits
<1>2. locks \in SUBSET Lock
  BY <1>1, LocksFit DEF Sourced, Rows
<1> HIDE DEF locks
<1>3. SeenFits(r)' /\ TxnFits(r)'
  BY <1>1, SameWritings DEF SeenFits, TxnFits, Goes, Unwritten
<1> QED
  BY <1>1, <1>2, <1>3, GoesKeeps DEF OnPath

LEMMA CountScopeKeeps ==
  ASSUME TypeInv, NEW r \in Req, CountScope(r)
  PROVE  TypeInv'
<1> DEFINE log == IF LeftInScope(job[r].entry, seen[r].entry.scope) = {}
                  THEN {seen[r].entry.scope} \cap checkpoints ELSE {}
<1>1. /\ kind[r] = "deleteEntry" /\ Running(r) /\ pc[r] = "countScope" /\ holds[r] \in SUBSET Lock
      /\ seen[r] \in EntryRead /\ seen[r].entry # None
      /\ Goes(r, "commit", seen[r], [EntryDropped(r) EXCEPT !.log = log], holds[r])
  BY CountScopeIs DEF CountScope, TypeInv, Fits, SeenFits
<1>2. log \in SUBSET Scopes
  BY <1>1 DEF EntryRead, Entry
<1> HIDE DEF log
<1>3. SeenFits(r)'
  BY <1>1 DEF SeenFits, Goes
<1>4. \E l \in SUBSET Scopes : txn'[r] = [EntryDropped(r)' EXCEPT !.log = l]
  BY <1>1, <1>2, SameWritings DEF Goes
<1>5. TxnFits(r)'
  BY <1>1, <1>4 DEF TxnFits, Goes, Unwritten
<1> QED
  BY <1>1, <1>3, <1>5, GoesKeeps DEF OnPath

LEMMA LoadRowKeeps ==
  ASSUME TypeInv, NEW r \in Req, LoadRow(r)
  PROVE  TypeInv'
<1>1. /\ kind[r] \in {"attach", "deleteRow"} /\ Running(r) /\ pc[r] = "loadRow"
      /\ txn[r] = NothingWritten /\ job[r].row \in RowIds /\ holds[r] \in SUBSET Lock
  BY LoadRowIs, JobIs DEF LoadRow, TypeInv, Fits, TxnFits, Unwritten
<1>2. CASE Refuse(r)
  BY <1>2, RefuseKeeps
<1>3. CASE /\ ledger[job[r].row] # None
           /\ Goes(r, "writeRow", ledger[job[r].row].bill, txn[r], holds[r])
  <2>1. ledger[job[r].row].bill \in Keys \cup {None}
    BY <1>1, <1>3 DEF TypeInv, TypeOK, Charge
  <2>2. SeenFits(r)' /\ TxnFits(r)'
    BY <1>1, <1>3, <2>1 DEF SeenFits, TxnFits, Goes, Unwritten
  <2> QED
    BY <1>1, <1>3, <2>2, GoesKeeps DEF OnPath
<1> QED
  BY <1>2, <1>3, LoadRowIs

LEMMA WriteBillKeeps ==
  ASSUME TypeInv, NEW r \in Req, WriteBill(r)
  PROVE  TypeInv'
<1> DEFINE locks == With(r, {<<"row", job[r].row>>}, "update")
<1>1. /\ kind[r] = "attach" /\ Running(r) /\ pc[r] = "writeRow" /\ job[r].row \in RowIds
      /\ seen[r] \in Keys \cup {None}
  BY WriteBillIs, JobIs DEF WriteBill, TypeInv, Fits, SeenFits
<1>2. CASE Refuse(r)
  BY <1>2, RefuseKeeps
<1>3. CASE Goes(r, "commit", seen[r], BillWritten(r), locks)
  <2>1. locks \in SUBSET Lock
    BY <1>1, LocksFit
  <2> HIDE DEF locks
  <2>2. SeenFits(r)' /\ TxnFits(r)'
    BY <1>1, <1>3, SameWritings DEF SeenFits, TxnFits, Goes, Unwritten
  <2> QED
    BY <1>1, <1>3, <2>1, <2>2, GoesKeeps DEF OnPath
<1> QED
  BY <1>2, <1>3, WriteBillIs

LEMMA DeleteRowKeeps ==
  ASSUME TypeInv, NEW r \in Req, DeleteRow(r)
  PROVE  TypeInv'
<1> DEFINE locks == With(r, {<<"row", job[r].row>>}, "update")
<1>1. /\ kind[r] = "deleteRow" /\ Running(r) /\ pc[r] = "writeRow" /\ job[r].row \in RowIds
      /\ seen[r] \in Keys \cup {None}
      /\ Goes(r, "commit", seen[r], RowDropped(r), locks)
  BY DeleteRowIs, JobIs DEF DeleteRow, TypeInv, Fits, SeenFits
<1>2. locks \in SUBSET Lock
  BY <1>1, LocksFit
<1> HIDE DEF locks
<1>3. SeenFits(r)' /\ TxnFits(r)'
  BY <1>1, SameWritings DEF SeenFits, TxnFits, Goes, Unwritten
<1> QED
  BY <1>1, <1>2, <1>3, GoesKeeps DEF OnPath

LEMMA AddingKeeps ==
  ASSUME TypeInv, NEW r \in Req, LockCustomer(r) \/ CheckTwin(r) \/ InsertRow(r)
  PROVE  TypeInv'
<1>1. /\ kind[r] = "add" /\ Running(r) /\ job[r].cust \in Customers /\ holds[r] \in SUBSET Lock
      /\ pc[r] \in {"lockCustomer", "checkTwin", "insertRow"}
      /\ txn[r] = NothingWritten
  BY LockCustomerIs, CheckTwinIs, InsertRowIs, JobIs
     DEF LockCustomer, CheckTwin, InsertRow, TypeInv, Fits, TxnFits, Unwritten
<1>2. CASE LockCustomer(r)
  <2> DEFINE on == IF job[r].cust \in Known THEN {<<"cust", job[r].cust>>} ELSE {}
             locks == With(r, on, "update")
  <2>1. Goes(r, "checkTwin", seen[r], txn[r], locks)
    BY <1>2, LockCustomerIs
  <2>2. locks \in SUBSET Lock
    BY <1>1, LocksFit
  <2> HIDE DEF locks
  <2>3. SeenFits(r)' /\ TxnFits(r)'
    BY <1>1, <2>1 DEF SeenFits, TxnFits, Goes, Unwritten
  <2> QED
    BY <1>1, <2>1, <2>2, <2>3, GoesKeeps DEF OnPath
<1>3. CASE CheckTwin(r) /\ Refuse(r)
  BY <1>3, RefuseKeeps
<1>4. CASE CheckTwin(r) /\ Goes(r, "insertRow", seen[r], txn[r], holds[r])
  <2>1. SeenFits(r)' /\ TxnFits(r)'
    BY <1>1, <1>4 DEF SeenFits, TxnFits, Goes, Unwritten
  <2> QED
    BY <1>1, <1>4, <2>1, GoesKeeps DEF OnPath
<1>5. CASE InsertRow(r)
  <2>1. Goes(r, "commit", seen[r], RowAdded(r), holds[r])
    BY <1>5, InsertRowIs
  <2>2. SeenFits(r)' /\ TxnFits(r)'
    BY <1>1, <2>1, SameWritings DEF SeenFits, TxnFits, Goes, Unwritten
  <2> QED
    BY <1>1, <2>1, <2>2, GoesKeeps DEF OnPath
<1> QED
  BY <1>2, <1>3, <1>4, <1>5, CheckTwinIs

LEMMA LoadCustomerKeeps ==
  ASSUME TypeInv, NEW r \in Req, LoadCustomer(r)
  PROVE  TypeInv'
<1> DEFINE read == [bills |-> custs[job[r].cust], rows |-> BillsOf(OfCustomer(job[r].cust))]
<1>1. /\ kind[r] \in {"saveCustomer", "deleteCustomer"} /\ Running(r) /\ pc[r] = "loadCustomer"
      /\ txn[r] = NothingWritten /\ job[r].cust \in Customers /\ holds[r] \in SUBSET Lock
  BY LoadCustomerIs, JobIs DEF LoadCustomer, TypeInv, Fits, TxnFits, Unwritten
<1>2. CASE Refuse(r)
  BY <1>2, RefuseKeeps
<1>3. CASE job[r].cust \in Known /\ Goes(r, "writeCustomer", read, txn[r], holds[r])
  <2>1. custs[job[r].cust] \in SUBSET Keys
    BY <1>3 DEF Known, TypeInv, TypeOK
  <2>2. BillsOf(OfCustomer(job[r].cust)) \in SUBSET Keys
    BY BillsAreKeys DEF OfCustomer
  <2>3. read \in CustomerRead
    BY <2>1, <2>2 DEF CustomerRead
  <2> HIDE DEF read
  <2>4. SeenFits(r)' /\ TxnFits(r)'
    BY <1>1, <1>3, <2>3 DEF SeenFits, TxnFits, Goes, Unwritten
  <2> QED
    BY <1>1, <1>3, <2>4, GoesKeeps DEF OnPath
<1> QED
  BY <1>2, <1>3, LoadCustomerIs

LEMMA WriteCustomerKeeps ==
  ASSUME TypeInv, NEW r \in Req, WriteCustomer(r)
  PROVE  TypeInv'
<1> DEFINE mode == IF job[r].cust \in Known THEN "share" ELSE "update"
           locks == With(r, {<<"cust", job[r].cust>>}, mode)
<1>1. /\ kind[r] \in {"saveCustomer", "addCustomer"} /\ Running(r) /\ pc[r] = "writeCustomer"
      /\ job[r].cust \in Customers
      /\ kind[r] = "saveCustomer" => seen[r] \in CustomerRead
  BY WriteCustomerIs, JobIs DEF WriteCustomer, TypeInv, Fits, SeenFits
<1>2. CASE Refuse(r)
  BY <1>2, RefuseKeeps
<1>3. CASE Goes(r, "commit", seen[r], CustomerWritten(r), locks)
  <2>1. locks \in SUBSET Lock
    BY <1>1, LocksFit
  <2> HIDE DEF locks
  <2>2. SeenFits(r)' /\ TxnFits(r)'
    BY <1>1, <1>3, SameWritings DEF SeenFits, TxnFits, Goes, Unwritten
  <2>3. "commit" \in OnPath(kind[r])
    BY <1>1 DEF OnPath
  <2> QED
    BY <1>1, <1>3, <2>1, <2>2, <2>3, GoesKeeps
<1> QED
  BY <1>2, <1>3, WriteCustomerIs

LEMMA DeleteCustomerKeeps ==
  ASSUME TypeInv, NEW r \in Req, DeleteCustomer(r)
  PROVE  TypeInv'
<1> DEFINE locks == With(r, {<<"cust", job[r].cust>>} \cup {<<"row", i>> : i \in OfCustomer(job[r].cust)}, "update")
<1>1. /\ kind[r] = "deleteCustomer" /\ Running(r) /\ pc[r] = "writeCustomer"
      /\ job[r].cust \in Customers /\ seen[r] \in CustomerRead
      /\ Goes(r, "commit", seen[r], CustomerDropped(r), locks)
  BY DeleteCustomerIs, JobIs DEF DeleteCustomer, TypeInv, Fits, SeenFits
<1>2. locks \in SUBSET Lock
  BY <1>1, LocksFit DEF OfCustomer, Rows
<1> HIDE DEF locks
<1>3. SeenFits(r)' /\ TxnFits(r)'
  BY <1>1, SameWritings DEF SeenFits, TxnFits, Goes, Unwritten
<1> QED
  BY <1>1, <1>2, <1>3, GoesKeeps DEF OnPath

-----------------------------------------------------------------------------
(***************************************************************************)
(* What a client sends                                                     *)
(***************************************************************************)
\* A request of kind k for what is on record.
AsksFor(r, j) ==
  /\ j \in JobOf(kind[r]) /\ j.op = kind[r]
  /\ kind[r] = "save" =>
       \/ /\ j.entry \in OnRecord
          /\ j.bills \subseteq entries[j.entry].bills \cup Stale \cup Fresh(r)
       \/ j.entry = r /\ j.bills \subseteq Stale \cup Fresh(r)
  /\ kind[r] = "deleteEntry" => j.entry \in OnRecord /\ j.scope = entries[j.entry].scope
  /\ kind[r] \in {"attach", "deleteRow"} =>
       /\ j.row \in Rows /\ j.bills = Fresh(r)
       /\ j.entry = ledger[j.row].src /\ j.cust = ledger[j.row].cust
  /\ kind[r] = "add" => j.cust \in Known /\ j.bills = Fresh(r)
  /\ kind[r] = "saveCustomer" => j.cust \in Known /\ j.bills \subseteq custs[j.cust] \cup Stale \cup Fresh(r)
  /\ kind[r] = "deleteCustomer" => j.cust \in Known /\ j.bills = {}
  /\ kind[r] = "addCustomer" => j.cust = r /\ j.bills = Fresh(r)

LEMMA FreshIs ==
  ASSUME NEW r \in Req
  PROVE  Fresh(r) \subseteq {r} /\ Fresh(r) \subseteq Keys /\ r \in EntryIds /\ r \in Customers /\ r \in Keys
BY DEF Fresh, Keys, EntryIds, Customers

LEMMA ResentIs ==
  ASSUME NEW r \in Req, NEW shown \in SUBSET Keys, NEW b \in Resent(shown, r)
  PROVE  b \subseteq shown \cup Stale \cup Fresh(r) /\ b \in SUBSET Keys
BY FreshIs, ClientsTyped DEF Resent

LEMMA SaveJobs ==
  ASSUME TypeInv, NEW r \in Req, kind[r] = "save", NEW j \in Jobs(r)
  PROVE  AsksFor(r, j) /\ First(j.op) = "loadEntry"
<1>1. CASE j \in Creates(r)
  <2>1. PICK s \in NewScopes, f \in Forms, b \in Resent({}, r) : j = Job("save", r, s, None, None, f, b)
    BY <1>1 DEF Creates
  <2>2. s \in Scopes /\ b \subseteq {} \cup Stale \cup Fresh(r) /\ b \in SUBSET Keys
    BY ResentIs, FormsTyped
  <2>3. j \in JobOf("save")
    BY <2>1, <2>2, FreshIs DEF Job, JobOf
  <2> QED
    BY <2>1, <2>2, <2>3 DEF AsksFor, Job, First
<1>2. CASE j \in UNION {Updates(r, e) : e \in OnRecord}
  <2>1. PICK e \in OnRecord : j \in Updates(r, e)
    BY <1>2
  <2>2. PICK s \in Scopes, f \in Forms, b \in Resent(entries[e].bills, r) :
               j = Job("save", e, s, None, None, f, b)
    BY <2>1 DEF Updates
  <2>3. e \in EntryIds /\ entries[e].bills \in SUBSET Keys
    BY DEF OnRecord, TypeInv, TypeOK, Entry
  <2>4. b \subseteq entries[e].bills \cup Stale \cup Fresh(r) /\ b \in SUBSET Keys
    BY <2>3, ResentIs
  <2>5. j \in JobOf("save")
    BY <2>2, <2>3, <2>4 DEF Job, JobOf
  <2> QED
    BY <2>2, <2>4, <2>5 DEF AsksFor, Job, First
<1> QED
  BY <1>1, <1>2 DEF Jobs

LEMMA RowJobs ==
  ASSUME TypeInv, NEW r \in Req, kind[r] \in {"deleteEntry", "attach", "deleteRow", "add"}, NEW j \in Jobs(r)
  PROVE  /\ AsksFor(r, j)
         /\ First(j.op) = CASE kind[r] = "deleteEntry" -> "loadEntry"
                            [] kind[r] \in {"attach", "deleteRow"} -> "loadRow"
                            [] kind[r] = "add" -> "lockCustomer"
<1>1. CASE kind[r] = "deleteEntry"
  <2>1. PICK e \in OnRecord : j = Job("deleteEntry", e, entries[e].scope, None, None, None, {})
    BY <1>1 DEF Jobs
  <2>2. e \in EntryIds /\ entries[e].scope \in Scopes
    BY DEF OnRecord, TypeInv, TypeOK, Entry
  <2>3. j \in JobOf("deleteEntry")
    BY <2>1, <2>2 DEF Job, JobOf
  <2> QED
    BY <1>1, <2>1, <2>3 DEF AsksFor, Job, First
<1>2. CASE kind[r] \in {"attach", "deleteRow"}
  <2>1. PICK i \in Rows : j = Job(kind[r], ledger[i].src, None, i, ledger[i].cust, None, Fresh(r))
    BY <1>2 DEF Jobs
  <2>2. /\ i \in RowIds /\ ledger[i].src \in EntryIds \cup {None} /\ ledger[i].cust \in Customers
        /\ Fresh(r) \in SUBSET Req
    BY FreshIs DEF Rows, TypeInv, TypeOK, Charge
  <2>3. j \in JobOf(kind[r])
    BY <1>2, <2>1, <2>2 DEF Job, JobOf
  <2> QED
    BY <1>2, <2>1, <2>3 DEF AsksFor, Job, First
<1>3. CASE kind[r] = "add"
  <2>1. PICK c \in Known, t \in {"credit", "payment"} :
           j = Job("add", None, None, None, c, [type |-> t, amount |-> 1], Fresh(r))
    BY <1>3 DEF Jobs
  <2>2. c \in Customers /\ [type |-> t, amount |-> 1] \in Payment /\ Fresh(r) \in SUBSET Req
    BY FreshIs DEF Known, Payment
  <2>3. j \in JobOf("add")
    BY <2>1, <2>2 DEF Job, JobOf
  <2> QED
    BY <1>3, <2>1, <2>3 DEF AsksFor, Job, First
<1> QED
  BY <1>1, <1>2, <1>3

LEMMA CustomerJobs ==
  ASSUME TypeInv, NEW r \in Req, NEW j \in Jobs(r),
         kind[r] \in {"saveCustomer", "deleteCustomer", "addCustomer"}
  PROVE  /\ AsksFor(r, j)
         /\ First(j.op) = IF kind[r] = "addCustomer" THEN "writeCustomer" ELSE "loadCustomer"
<1>1. CASE kind[r] = "saveCustomer"
  <2>1. PICK c \in Known : \E b \in Resent(custs[c], r) :
          j = Job("saveCustomer", None, None, None, c, None, b)
    BY <1>1 DEF Jobs
  <2>2. PICK b \in Resent(custs[c], r) : j = Job("saveCustomer", None, None, None, c, None, b)
    BY <2>1
  <2>3. c \in Customers /\ custs[c] \subseteq Keys
    BY DEF Known, TypeInv, TypeOK
  <2>4. b \subseteq custs[c] \cup Stale \cup Fresh(r) /\ b \in SUBSET Keys
    BY <2>3, ResentIs
  <2>5. j \in JobOf("saveCustomer")
    BY <2>2, <2>3, <2>4 DEF Job, JobOf
  <2> QED
    BY <1>1, <2>2, <2>4, <2>5 DEF AsksFor, Job, First
<1>2. CASE kind[r] = "deleteCustomer"
  <2>1. PICK c \in Known : j = Job("deleteCustomer", None, None, None, c, None, {})
    BY <1>2 DEF Jobs
  <2>2. j \in JobOf("deleteCustomer")
    BY <2>1 DEF Job, JobOf, Known
  <2> QED
    BY <1>2, <2>1, <2>2 DEF AsksFor, Job, First
<1>3. CASE kind[r] = "addCustomer"
  <2>1. j = Job("addCustomer", None, None, None, r, None, Fresh(r))
    BY <1>3 DEF Jobs
  <2>2. j \in JobOf("addCustomer")
    BY <2>1, FreshIs DEF Job, JobOf
  <2> QED
    BY <1>3, <2>1, <2>2 DEF AsksFor, Job, First
<1> QED
  BY <1>1, <1>2, <1>3

\* r has sent j, which clashes with nothing that is under way.
Asks(r, j) ==
  /\ pc[r] \in {"idle", "ready"} /\ AsksFor(r, j)
  /\ \A q \in Req : job[q] # None => ~Clash(j, job[q])
  /\ QuietStep(r) /\ Framed' /\ files' = files /\ young' = young \cup {r}
  /\ kind'[r] = kind[r] /\ job'[r] = j
  /\ pc'[r] \in OnPath(kind[r]) \cap
       {"loadEntry", "loadRow", "lockCustomer", "loadCustomer", "writeCustomer"}
  /\ pc'[r] = "writeCustomer" => kind[r] = "addCustomer"
  /\ seen'[r] = None /\ txn'[r] = NothingWritten /\ holds'[r] = {}

LEMMA SendIs ==
  ASSUME TypeInv, NEW r \in Req, Send(r)
  PROVE  \E j : Asks(r, j)
<1>1. PICK j \in Jobs(r) :
        /\ \A q \in Req : job[q] # None => ~Clash(j, job[q])
        /\ job' = [job EXCEPT ![r] = j]
        /\ pc' = [pc EXCEPT ![r] = First(j.op)]
  BY DEF Send
<1>2. /\ seen[r] = None /\ txn[r] = NothingWritten /\ holds[r] = {} /\ pc[r] \in {"idle", "ready"}
  BY DEF Send, TypeInv, Fits, TxnFits, Unwritten, Running
<1>3. kind[r] \notin {"saveCheckpoint", "deleteCheckpoint"}
  BY <1>1 DEF Jobs
<1>4. kind[r] \in Kinds
  BY DEF TypeInv
<1>5. /\ AsksFor(r, j)
      /\ First(j.op) \in OnPath(kind[r]) \cap
           {"loadEntry", "loadRow", "lockCustomer", "loadCustomer", "writeCustomer"}
      /\ First(j.op) = "writeCustomer" => kind[r] = "addCustomer"
  <2>1. CASE kind[r] = "save"
    BY <2>1, SaveJobs DEF OnPath
  <2>2. CASE kind[r] \in {"deleteEntry", "attach", "deleteRow", "add"}
    <3>1. AsksFor(r, j) /\ First(j.op) \in {"loadEntry", "loadRow", "lockCustomer"}
      BY <2>2, RowJobs
    <3>2. First(j.op) \in OnPath(kind[r])
      BY <2>2, RowJobs DEF OnPath
    <3> QED
      BY <3>1, <3>2
  <2>3. CASE kind[r] \in {"saveCustomer", "deleteCustomer", "addCustomer"}
    <3>1. AsksFor(r, j)
      BY <2>3, CustomerJobs
    <3>2. First(j.op) = IF kind[r] = "addCustomer" THEN "writeCustomer" ELSE "loadCustomer"
      BY <2>3, CustomerJobs
    <3>3. First(j.op) \in OnPath(kind[r])
      BY <2>3, <3>2 DEF OnPath
    <3> QED
      BY <3>1, <3>2, <3>3
  <2> QED
    BY <1>3, <1>4, <2>1, <2>2, <2>3 DEF Kinds
<1>6. /\ QuietStep(r) /\ Framed' /\ files' = files /\ young' = young \cup {r}
      /\ kind'[r] = kind[r] /\ job'[r] = j /\ pc'[r] = First(j.op)
      /\ seen'[r] = None /\ txn'[r] = NothingWritten /\ holds'[r] = {}
  BY <1>1, <1>2 DEF Send, QuietStep, Mine, Framed, TypeInv
<1> QED
  BY <1>1, <1>2, <1>5, <1>6 DEF Asks

LEMMA SendKeeps ==
  ASSUME TypeInv, NEW r \in Req, Send(r)
  PROVE  TypeInv'
<1>1. PICK j : Asks(r, j)
  BY SendIs
<1>2. /\ pc'[r] \in OnPath(kind[r])
      /\ pc'[r] \in {"loadEntry", "loadRow", "lockCustomer", "loadCustomer", "writeCustomer"}
      /\ pc'[r] = "writeCustomer" => kind[r] = "addCustomer"
      /\ kind'[r] = kind[r] /\ job'[r] \in JobOf(kind[r])
      /\ seen'[r] = None /\ txn'[r] = NothingWritten /\ holds'[r] = {}
  BY <1>1 DEF Asks, AsksFor
<1>3. Fits(r)'
  BY <1>2 DEF Fits, Running, SeenFits, TxnFits, Unwritten
<1> QED
  BY <1>1, <1>2, <1>3, QuietKeeps DEF Asks, Framed, TypeInv, TypeOK, Statement

-----------------------------------------------------------------------------
(***************************************************************************)
(* The figures of a shift, as sums of functions, and that both forms of    *)
(* what its worker owes agree                                              *)
(***************************************************************************)
LEMMA ReadingsSum ==
  ASSUME NEW S
  PROVE  Total(ReadingAmount, S) = SumOver([x \in S |-> ReadingAmount(x)], S)
<1> DEFINE f == [x \in S |-> ReadingAmount(x)]
           step(h) == [s \in SUBSET S |->
                         IF s = {} THEN 0 ELSE ReadingAmount(AnyOf(s)) + h[s \ {AnyOf(s)}]]
<1>1. ASSUME NEW h
      PROVE  step(h) = Fold(f, S, h)
  BY AnyOfIn DEF Fold
<1>2. Total(ReadingAmount, S) = (CHOOSE h : h = step(h))[S]
  BY DEF Total, MapThenSumSet, MapThenFoldSet, AnyOf
<1> HIDE DEF step, f
<1>3. (CHOOSE h : h = step(h)) = (CHOOSE h : h = Fold(f, S, h))
  BY <1>1, Zenon
<1> QED
  BY <1>2, <1>3, SumIsFold DEF f

OilOf(x, type) == {i \in DOMAIN x.oil : x.oil[i].type = type}

LEMMA OilSum ==
  ASSUME NEW x, NEW type
  PROVE  OilTotal(x, type)
           = SumOver([i \in OilOf(x, type) |-> x.oil[i].count * x.oil[i].rate], OilOf(x, type))
<1> DEFINE S == OilOf(x, type)
           f == [i \in S |-> x.oil[i].count * x.oil[i].rate]
           step(h) == [s \in SUBSET S |->
                         IF s = {} THEN 0
                         ELSE x.oil[AnyOf(s)].count * x.oil[AnyOf(s)].rate + h[s \ {AnyOf(s)}]]
<1>1. ASSUME NEW h
      PROVE  step(h) = Fold(f, S, h)
  <2> HIDE DEF S
  <2> QED
    BY AnyOfIn DEF Fold
<1>2. OilTotal(x, type) = (CHOOSE h : h = step(h))[S]
  BY DEF OilTotal, OilOf, Total, MapThenSumSet, MapThenFoldSet, AnyOf
<1> HIDE DEF step, f, S
<1>3. (CHOOSE h : h = step(h)) = (CHOOSE h : h = Fold(f, S, h))
  BY <1>1, Zenon
<1> QED
  BY <1>2, <1>3, SumIsFold DEF f, S

LEMMA PaymentsSum ==
  ASSUME NEW x
  PROVE  PaymentsTotal(x)
           = SumOver([i \in DOMAIN x.lines |-> x.lines[i].amount], DOMAIN x.lines) * Unit
<1> DEFINE S == DOMAIN x.lines
           f == [i \in S |-> x.lines[i].amount]
           step(h) == [s \in SUBSET S |->
                         IF s = {} THEN 0 ELSE x.lines[AnyOf(s)].amount + h[s \ {AnyOf(s)}]]
<1>1. ASSUME NEW h
      PROVE  step(h) = Fold(f, S, h)
  <2> HIDE DEF S
  <2> QED
    BY AnyOfIn DEF Fold
<1>2. PaymentsTotal(x) = (CHOOSE h : h = step(h))[S] * Unit
  BY DEF PaymentsTotal, Total, MapThenSumSet, MapThenFoldSet, AnyOf
<1> HIDE DEF step, f, S
<1>3. (CHOOSE h : h = step(h)) = (CHOOSE h : h = Fold(f, S, h))
  BY <1>1, Zenon
<1> QED
  BY <1>2, <1>3, SumIsFold DEF f, S

Shown(x) == {f \in Fuels : NozzlesOut(x, f) # None}
FuelOut(x, f) == NozzlesOut(x, f)["nozzle1"] + NozzlesOut(x, f)["nozzle2"]

LEMMA FuelSum ==
  ASSUME NEW x
  PROVE  ExcessShortage(x) =
           PaymentsTotal(x) - (SumOver([f \in Shown(x) |-> FuelOut(x, f)], Shown(x))
                               + OilTotal(x, "pocket") + CaneTotal(x))
<1> DEFINE S == Shown(x)
           f == [g \in S |-> FuelOut(x, g)]
           step(h) == [s \in SUBSET S |->
                         IF s = {} THEN 0 ELSE FuelOut(x, AnyOf(s)) + h[s \ {AnyOf(s)}]]
           fuel == (CHOOSE h : h = step(h))[S]
<1>1. ASSUME NEW h
      PROVE  step(h) = Fold(f, S, h)
  <2> HIDE DEF S
  <2> QED
    BY AnyOfIn DEF Fold
<1>2. ExcessShortage(x) = PaymentsTotal(x) - (fuel + OilTotal(x, "pocket") + CaneTotal(x))
  BY DEF ExcessShortage, Shown, FuelOut, Total, MapThenSumSet, MapThenFoldSet, AnyOf
<1> HIDE DEF step, f, S
<1>3. (CHOOSE h : h = step(h)) = (CHOOSE h : h = Fold(f, S, h))
  BY <1>1, Zenon
<1>4. fuel = SumOver(f, S)
  BY <1>3, SumIsFold
<1> QED
  BY <1>2, <1>4 DEF f, S

LEMMA TimesNat == \A m, n \in Nat : m * n \in Nat
OBVIOUS

LEMMA Quotient ==
  ASSUME NEW a \in Nat, NEW b \in Nat \ {0}
  PROVE  a \div b \in Int /\ b * (a \div b) <= a /\ a < b * (a \div b) + b
OBVIOUS

\* A rounded amount is no further from the amount than half a hundredth.
LEMMA HundredthsIs ==
  ASSUME NEW n \in Nat
  PROVE  Hundredths(n) \in Nat /\ 2 * (Hundredths(n) * Unit - n) \in -Unit .. Unit
<1> DEFINE q == Hundredths(n)
<1>1. /\ q \in Int /\ (2 * Unit) * q <= 2 * n + Unit
      /\ 2 * n + Unit < (2 * Unit) * q + 2 * Unit
  <2>1. 2 * n + Unit \in Nat /\ 2 * Unit \in Nat \ {0}
    BY UnitIsPositive
  <2> QED
    BY <2>1, Quotient DEF Hundredths
<1> HIDE DEF q
<1>2. q \in Nat /\ 2 * (q * Unit - n) \in -Unit .. Unit
  BY <1>1, UnitIsPositive
<1> QED
  BY <1>2 DEF q

\* The fuels whose meters a form sends, and the row made for one nozzle.
Metered(form) == {g \in Fuels : form.meters[g] # None}
RowOf(form, g, n) ==
  [fuel |-> g, nozzle |-> n, opening |-> form.meters[g][n].opening,
   closing |-> form.meters[g][n].closing, testing |-> form.meters[g][n].testing,
   rate |-> form.meters[g][n].rate]

LEMMA RowOfFits ==
  ASSUME NEW form \in Forms, NEW g \in Metered(form), NEW n \in Nozzles
  PROVE  RowOf(form, g, n) \in Reading
<1>1. form.meters[g] \in NozzlesIn
  BY FormsTyped DEF Metered
<1>2. form.meters[g][n] \in ReadingIn
  BY <1>1 DEF NozzlesIn
<1> QED
  BY <1>2 DEF RowOf, Reading, ReadingIn, Metered

LEMMA RowsBuilt ==
  ASSUME NEW form \in Forms
  PROVE  /\ BuildReadings(form) = {RowOf(form, g, n) : g \in Metered(form), n \in Nozzles}
         /\ BuildReadings(form) \in SUBSET Reading
         /\ IsFiniteSet(BuildReadings(form))
<1>1. BuildReadings(form) = {RowOf(form, g, n) : g \in Metered(form), n \in Nozzles}
  BY DEF BuildReadings, Metered, RowOf
<1>2. BuildReadings(form) \in SUBSET Reading
  BY <1>1, RowOfFits
<1>3. IsFiniteSet(BuildReadings(form))
  <2> DEFINE P == Metered(form) \X Nozzles
             b == [p \in P |-> RowOf(form, p[1], p[2])]
  <2>1. IsFiniteSet(P)
    <3>1. Metered(form) \in SUBSET Fuels /\ IsFiniteSet(Fuels) /\ IsFiniteSet(Nozzles)
      <4>1. /\ IsFiniteSet({} \cup {"petrol"}) /\ IsFiniteSet(({} \cup {"petrol"}) \cup {"diesel"})
            /\ IsFiniteSet((({} \cup {"petrol"}) \cup {"diesel"}) \cup {"oil"})
        BY FS_EmptySet, FS_AddElement
      <4>2. IsFiniteSet(({} \cup {"nozzle1"}) \cup {"nozzle2"})
        BY FS_EmptySet, FS_AddElement
      <4>3. /\ Fuels = (({} \cup {"petrol"}) \cup {"diesel"}) \cup {"oil"}
            /\ Nozzles = ({} \cup {"nozzle1"}) \cup {"nozzle2"}
        BY DEF Fuels, Nozzles
      <4> QED
        BY <4>1, <4>2, <4>3 DEF Metered
    <3> QED
      BY <3>1, FS_Subset, FS_Product
  <2>2. b \in Surjection(P, BuildReadings(form))
    <3>1. \A p \in P : p[1] \in Metered(form) /\ p[2] \in Nozzles /\ p = <<p[1], p[2]>>
      OBVIOUS
    <3>2. b \in [P -> BuildReadings(form)]
      BY <1>1, <3>1
    <3>3. ASSUME NEW row \in BuildReadings(form) PROVE \E p \in P : b[p] = row
      <4>1. PICK g \in Metered(form), n \in Nozzles : row = RowOf(form, g, n)
        BY <1>1
      <4>2. <<g, n>> \in P /\ b[<<g, n>>] = row
        BY <4>1
      <4> QED
        BY <4>2
    <3> QED
      BY <3>2, <3>3 DEF Surjection
  <2> QED
    BY <2>1, <2>2, FS_Surjection
<1> QED
  BY <1>1, <1>2, <1>3

LEMMA OilBuilt ==
  ASSUME NEW form \in Forms
  PROVE  BuildOilRows(form) \in Seq(OilRow)
<1>1. form.pocket \in Seq(OilRowIn) /\ form.cane \in Seq(OilRowIn)
  BY FormsTyped
<1>2. ASSUME NEW type \in {"pocket", "cane"}, NEW rows \in Seq(OilRowIn)
      PROVE  Typed(type, rows) \in Seq(OilRow)
  <2>1. DOMAIN rows = 1 .. Len(rows) /\ \A i \in DOMAIN rows : rows[i] \in OilRowIn
    OBVIOUS
  <2>2. Typed(type, rows) \in [1 .. Len(rows) -> OilRow]
    BY <2>1 DEF Typed, OilRow, OilRowIn
  <2> QED
    BY <2>2
<1> QED
  BY <1>1, <1>2 DEF BuildOilRows

LEMMA FiguresAreNat ==
  ASSUME NEW x, IsFiniteSet(x.readings), x.readings \subseteq Reading,
         x.oil \in Seq(OilRow), x.lines \in Seq(Line), x.offer \in Nat
  PROVE  /\ \A type \in {"pocket", "cane"} : OilTotal(x, type) \in Nat
         /\ CaneTotal(x) \in Nat /\ PaymentsTotal(x) \in Nat
         /\ \A row \in x.readings : ReadingAmount(row) \in Nat
         /\ Total(ReadingAmount, x.readings) \in Nat
         /\ ShiftTotals(x).sale \in Nat /\ ShiftTotals(x).paid \in Nat
<1>1. ASSUME NEW type \in {"pocket", "cane"}
      PROVE  OilTotal(x, type) \in Nat
  <2> DEFINE S == OilOf(x, type)
             f == [i \in S |-> x.oil[i].count * x.oil[i].rate]
  <2>1. S \in SUBSET (1 .. Len(x.oil)) /\ IsFiniteSet(1 .. Len(x.oil))
    <3>1. Len(x.oil) \in Int /\ DOMAIN x.oil = 1 .. Len(x.oil) /\ x.oil \in [1 .. Len(x.oil) -> OilRow]
      <4>1. \A s \in Seq(OilRow) : Len(s) \in Int /\ DOMAIN s = 1 .. Len(s) /\ s \in [1 .. Len(s) -> OilRow]
        OBVIOUS
      <4> QED
        BY <4>1
    <3>2. IsFiniteSet(1 .. Len(x.oil))
      BY <3>1, FS_Interval
    <3> QED
      BY <3>1, <3>2 DEF OilOf
  <2>2. \A i \in S : f[i] \in Nat
    <3>1. \A i \in S : x.oil[i].count \in Nat /\ x.oil[i].rate \in Nat
      <4>1. \A s \in Seq(OilRow) : \A i \in DOMAIN s : s[i] \in OilRow
        OBVIOUS
      <4>2. S \subseteq DOMAIN x.oil
        BY DEF OilOf
      <4>3. \A row \in OilRow : row.count \in Nat /\ row.rate \in Nat
        BY DEF OilRow
      <4> HIDE DEF S
      <4> QED
        BY <4>1, <4>2, <4>3
    <3> QED
      BY <3>1, TimesNat
  <2> HIDE DEF S, f
  <2>3. IsFiniteSet(S)
    BY <2>1, FS_Subset
  <2>4. SumOver(f, S) \in Nat
    BY <2>2, <2>3, SumNat
  <2> QED
    BY <2>4, OilSum DEF S, f
<1>2. CaneTotal(x) \in Nat
  <2>1. x.offer * Unit \in Nat
    BY TimesNat, UnitIsPositive
  <2>2. OilTotal(x, "cane") \in Nat
    BY <1>1
  <2> QED
    BY <2>1, <2>2 DEF CaneTotal, Largest
<1>3. PaymentsTotal(x) \in Nat
  <2> DEFINE S == DOMAIN x.lines
             f == [i \in S |-> x.lines[i].amount]
  <2>1. S = 1 .. Len(x.lines) /\ IsFiniteSet(1 .. Len(x.lines))
    <3>1. Len(x.lines) \in Int /\ DOMAIN x.lines = 1 .. Len(x.lines)
      OBVIOUS
    <3> QED
      BY <3>1, FS_Interval
  <2>2. \A i \in S : f[i] \in Nat
    BY DEF Line
  <2> HIDE DEF S, f
  <2>3. SumOver(f, S) \in Nat
    BY <2>1, <2>2, SumNat
  <2>4. SumOver(f, S) * Unit \in Nat
    BY <2>3, TimesNat, UnitIsPositive
  <2> QED
    BY <2>4, PaymentsSum DEF S, f
<1>4. ASSUME NEW row \in x.readings PROVE ReadingAmount(row) \in Nat
  BY TimesNat DEF ReadingAmount, ReadingLiters, Largest, Reading
<1>5. Total(ReadingAmount, x.readings) \in Nat
  <2> DEFINE f == [row \in x.readings |-> ReadingAmount(row)]
  <2>1. \A row \in x.readings : f[row] \in Nat
    BY <1>4
  <2> HIDE DEF f
  <2>2. SumOver(f, x.readings) \in Nat
    BY <2>1, SumNat
  <2> QED
    BY <2>2, ReadingsSum DEF f
<1>6. ShiftTotals(x).sale \in Nat /\ ShiftTotals(x).paid \in Nat
  <2>1. OilTotal(x, "pocket") \in Nat
    BY <1>1
  <2> HIDE DEF Total
  <2>2. ShiftTotals(x).sale = Total(ReadingAmount, x.readings) + OilTotal(x, "pocket") + CaneTotal(x)
    BY DEF ShiftTotals
  <2>3. ShiftTotals(x).paid = PaymentsTotal(x)
    BY DEF ShiftTotals
  <2> QED
    BY <1>2, <1>3, <1>5, <2>1, <2>2, <2>3
<1> QED
  BY <1>1, <1>2, <1>3, <1>4, <1>5, <1>6

-----------------------------------------------------------------------------
(***************************************************************************)
(* What a save puts on record                                              *)
(***************************************************************************)
LEMMA KeysFinite == IsFiniteSet(Keys) /\ \A S \in SUBSET Keys : IsFiniteSet(S)
BY IdsAreFinite, FS_Subset DEF Keys

\* A finite set as a sequence names each of its elements once.
LEMMA SequenceOf ==
  ASSUME NEW S, IsFiniteSet(S)
  PROVE  /\ Cardinality(S) \in Nat
         /\ SetToSeq(S) \in [1 .. Cardinality(S) -> S]
         /\ \A i, j \in 1 .. Cardinality(S) : SetToSeq(S)[i] = SetToSeq(S)[j] => i = j
         /\ \A x \in S : \E i \in 1 .. Cardinality(S) : SetToSeq(S)[i] = x
<1> DEFINE D == 1 .. Cardinality(S)
<1>1. Cardinality(S) \in Nat /\ ExistsBijection(D, S)
  BY FS_CardinalityType
<1>2. PICK f : f \in Bijection(D, S)
  BY <1>1 DEF ExistsBijection
<1>3. f \in [D -> S] /\ IsInjective(f)
  BY <1>2 DEF Bijection, Injection
<1>4. SetToSeq(S) \in [D -> S] /\ IsInjective(SetToSeq(S))
  <2>1. \E g \in [D -> S] : IsInjective(g)
    BY <1>3
  <2> QED
    BY <2>1 DEF SetToSeq
<1>5. IsFiniteSet(D) /\ Cardinality(D) = Cardinality(S)
  BY <1>1, FS_Interval
<1>6. SetToSeq(S) \in Injection(D, S)
  BY <1>4 DEF Injection
<1>7. SetToSeq(S) \in Surjection(D, S)
  BY <1>5, <1>6, FS_Injection
<1> QED
  BY <1>1, <1>4, <1>7 DEF IsInjective, Surjection

LEMMA NewEntryIs ==
  ASSUME TypeInv, NEW r \in Req, kind[r] = "save", Running(r), seen[r] \in EntryRead
  PROVE  /\ NewEntry(r) \in Entry
         /\ NewEntry(r).scope = job[r].scope /\ NewEntry(r).worker = job[r].form.worker
         /\ NewEntry(r).final = job[r].form.final /\ NewEntry(r).lines = seen[r].lines
         /\ NewEntry(r).bills = job[r].bills
         /\ NewEntry(r).readings = BuildReadings(job[r].form)
         /\ NewEntry(r).oil = BuildOilRows(job[r].form)
         /\ NewEntry(r).offer = job[r].form.offer
<1>1. job[r].form \in Forms /\ job[r].scope \in Scopes /\ job[r].bills \in SUBSET Keys
  BY JobIs
<1>2. /\ BuildReadings(job[r].form) \in SUBSET Reading /\ BuildOilRows(job[r].form) \in Seq(OilRow)
      /\ job[r].form.final \in BOOLEAN /\ job[r].form.worker \in Workers \cup {None}
      /\ job[r].form.offer \in Nat
  BY <1>1, RowsBuilt, OilBuilt, FormFields
<1>3. seen[r].lines \in Seq(Line)
  BY DEF EntryRead
<1> QED
  BY <1>1, <1>2, <1>3 DEF NewEntry, BuildEntry, Entry

\* The lines of an entry that charge somebody, and what they say.
LEMMA ChargeLinesAre ==
  ASSUME NEW x, x.lines \in Seq(Line), NEW i \in ChargeLines(x)
  PROVE  /\ i \in 1 .. Len(x.lines) /\ x.lines[i].type = "credit"
         /\ x.lines[i].who \in Customers /\ x.lines[i].amount \in Nat \ {0}
<1>1. i \in DOMAIN x.lines /\ IsCharge(x.lines[i]) /\ x.lines[i] \in Line
  BY DEF ChargeLines
<1>2. DOMAIN x.lines = 1 .. Len(x.lines)
  OBVIOUS
<1> QED
  BY <1>1, <1>2 DEF IsCharge, Line

LEMMA AdvanceLinesAre ==
  ASSUME NEW x, x.lines \in Seq(Line), NEW i \in AdvanceLines(x)
  PROVE  /\ i \in 1 .. Len(x.lines) /\ x.lines[i].type = "employee_credit"
         /\ x.lines[i].who \in Workers /\ x.lines[i].amount \in Nat \ {0}
<1>1. i \in DOMAIN x.lines /\ x.lines[i] \in Line /\ x.lines[i].type = "employee_credit"
      /\ x.lines[i].who # None /\ x.lines[i].amount > 0
  BY DEF AdvanceLines
<1>2. DOMAIN x.lines = 1 .. Len(x.lines)
  OBVIOUS
<1> QED
  BY <1>1, <1>2 DEF Line

\* How many lines of the customer there are up to line i, which is one of them.
NthOf(x, i) == Cardinality({k \in ChargeLines(x) : k <= i /\ x.lines[k].who = x.lines[i].who})

LEMMA NthIs ==
  ASSUME NEW x, x.lines \in Seq(Line), NEW i \in ChargeLines(x)
  PROVE  NthOf(x, i) \in Nat \ {0}
<1> DEFINE S == {k \in ChargeLines(x) : k <= i /\ x.lines[k].who = x.lines[i].who}
<1>1. Len(x.lines) \in Int /\ IsFiniteSet(1 .. Len(x.lines))
  BY FS_Interval
<1>2. S \in SUBSET (1 .. Len(x.lines)) /\ i \in S
  BY ChargeLinesAre
<1> HIDE DEF S
<1>3. IsFiniteSet(S) /\ S # {}
  BY <1>1, <1>2, FS_Subset
<1>4. Cardinality(S) \in Nat \ {0}
  BY <1>3, FS_CardinalityType, FS_EmptySet
<1> QED
  BY <1>4 DEF S, NthOf

LEMMA CarriedBillIs ==
  ASSUME NEW x, x.lines \in Seq(Line), NEW i \in ChargeLines(x), NEW bills \in [Customers -> SUBSET Keys]
  PROVE  CarriedBill(x, i, bills) \in bills[x.lines[i].who] \cup {None}
<1> DEFINE S == bills[x.lines[i].who]
<1>1. S \in SUBSET Keys
  BY ChargeLinesAre
<1>2. CarriedBill(x, i, bills) = IF NthOf(x, i) <= Cardinality(S) THEN SetToSeq(S)[NthOf(x, i)] ELSE None
  BY DEF CarriedBill, NthOf
<1> HIDE DEF S
<1>3. Cardinality(S) \in Nat /\ SetToSeq(S) \in [1 .. Cardinality(S) -> S]
  BY <1>1, KeysFinite, SequenceOf
<1> QED
  BY <1>2, <1>3, NthIs DEF S

\* The rows a final save makes: one for each line that charges a customer.
LEMMA ChargesAre ==
  ASSUME TypeInv, NEW r \in Req, kind[r] = "save", pc[r] = "commit"
  PROVE  /\ DOMAIN Charges(r) = IF job[r].form.final THEN {<<r, i>> : i \in ChargeLines(NewEntry(r))} ELSE {}
         /\ DOMAIN Charges(r) \in SUBSET RowIds
         /\ \A row \in DOMAIN Charges(r) :
              /\ row = <<r, row[2]>> /\ row[2] \in ChargeLines(NewEntry(r)) /\ job[r].form.final
              /\ Charges(r)[row] =
                   [cust |-> NewEntry(r).lines[row[2]].who, type |-> "credit",
                    amount |-> NewEntry(r).lines[row[2]].amount,
                    src |-> job[r].entry, bill |-> CarriedBill(NewEntry(r), row[2], seen[r].bills)]
              /\ Charges(r)[row] \in Charge
<1> DEFINE x == NewEntry(r)
           new == NewCharges(r, job[r].entry, x, seen[r].bills)
<1>1. /\ Running(r) /\ seen[r] \in EntryRead /\ Len(seen[r].lines) = Len(job[r].form.lines)
      /\ job[r].entry \in EntryIds /\ job[r].form \in Forms
  BY JobIs DEF TypeInv, Fits, SeenFits, Running
<1>2. /\ x.lines \in Seq(Line) /\ Len(x.lines) <= MaxLines /\ MaxLines \in Nat
      /\ seen[r].bills \in [Customers -> SUBSET Keys]
  BY <1>1, NewEntryIs, FormsTyped DEF EntryRead
<1>3. CASE ~job[r].form.final
  BY <1>3 DEF Charges
<1>4. CASE job[r].form.final
  <2>1. Charges(r) = new
    BY <1>4 DEF Charges
  <2> HIDE DEF x
  <2>2. DOMAIN new = {<<r, i>> : i \in ChargeLines(x)}
    BY DEF NewCharges
  <2>3. \A row \in DOMAIN new : row = <<r, row[2]>> /\ row[2] \in ChargeLines(x)
    BY <2>2
  <2>4. \A row \in DOMAIN new : new[row] =
          [cust |-> x.lines[row[2]].who, type |-> "credit", amount |-> x.lines[row[2]].amount,
           src |-> job[r].entry, bill |-> CarriedBill(x, row[2], seen[r].bills)]
    BY DEF NewCharges
  <2> HIDE DEF new
  <2>5. ASSUME NEW i \in ChargeLines(x)
        PROVE  /\ <<r, i>> \in RowIds /\ x.lines[i].who \in Customers /\ x.lines[i].amount \in Nat \ {0}
               /\ CarriedBill(x, i, seen[r].bills) \in Keys \cup {None}
    <3>1. i \in 1 .. Len(x.lines) /\ x.lines[i].who \in Customers /\ x.lines[i].amount \in Nat \ {0}
      BY <1>2, ChargeLinesAre
    <3>2. Len(x.lines) \in Nat
      BY <1>2
    <3>3. CarriedBill(x, i, seen[r].bills) \in seen[r].bills[x.lines[i].who] \cup {None}
      BY <1>2, CarriedBillIs
    <3> QED
      BY <1>2, <3>1, <3>2, <3>3 DEF RowIds
  <2>6. \A row \in DOMAIN new : new[row] \in Charge /\ row \in RowIds
    <3>1. ASSUME NEW row \in DOMAIN new PROVE new[row] \in Charge /\ row \in RowIds
      BY <1>1, <2>3, <2>4, <2>5 DEF Charge
    <3> QED
      BY <3>1
  <2> QED
    BY <1>4, <2>1, <2>2, <2>3, <2>4, <2>6 DEF x
<1> QED
  BY <1>3, <1>4

LEMMA NewDuesAre ==
  ASSUME TypeInv, NEW r \in Req, kind[r] = "save", pc[r] = "commit"
  PROVE  /\ NewDues(r) \in SUBSET Due
         /\ \A d \in NewDues(r) : d.by = r /\ d.src = job[r].entry
<1> DEFINE x == NewEntry(r)
           v == ShiftTotals(x).paid - ShiftTotals(x).sale
<1>1. /\ Running(r) /\ seen[r] \in EntryRead /\ Len(seen[r].lines) = Len(job[r].form.lines)
      /\ job[r].entry \in EntryIds /\ job[r].form \in Forms
  BY JobIs DEF TypeInv, Fits, SeenFits, Running
<1>2. /\ x.lines \in Seq(Line) /\ Len(x.lines) <= MaxLines /\ MaxLines \in Nat
      /\ x \in Entry /\ x.worker \in Workers \cup {None}
      /\ IsFiniteSet(x.readings) /\ x.readings \subseteq Reading /\ x.oil \in Seq(OilRow) /\ x.offer \in Nat
  <2>1. /\ x \in Entry /\ x.lines = seen[r].lines /\ x.worker = job[r].form.worker
        /\ x.readings = BuildReadings(job[r].form) /\ x.oil = BuildOilRows(job[r].form)
        /\ x.offer = job[r].form.offer
    BY <1>1, NewEntryIs
  <2> HIDE DEF x
  <2>2. /\ IsFiniteSet(x.readings) /\ x.readings \subseteq Reading /\ x.oil \in Seq(OilRow)
    BY <1>1, <2>1, RowsBuilt, OilBuilt
  <2>3. /\ x.lines \in Seq(Line) /\ Len(x.lines) <= MaxLines /\ MaxLines \in Nat
        /\ x.worker \in Workers \cup {None} /\ x.offer \in Nat
    BY <1>1, <2>1, FormFields, FormsTyped DEF EntryRead
  <2> QED
    BY <2>1, <2>2, <2>3
<1> HIDE DEF x
<1>3. v \in Int
  <2>1. ShiftTotals(x).sale \in Nat /\ ShiftTotals(x).paid \in Nat
    BY <1>2, FiguresAreNat
  <2> QED
    BY <2>1
<1>4. \A d \in NewAdvances(r, job[r].entry, x) : d \in Due /\ d.by = r /\ d.src = job[r].entry
  <2>1. ASSUME NEW d \in NewAdvances(r, job[r].entry, x)
        PROVE  d \in Due /\ d.by = r /\ d.src = job[r].entry
    <3>1. PICK i \in AdvanceLines(x) :
            d = [by |-> r, n |-> i, src |-> job[r].entry, worker |-> x.lines[i].who,
                 amount |-> x.lines[i].amount, type |-> "credit"]
      BY DEF NewAdvances
    <3>2. i \in 1 .. Len(x.lines) /\ x.lines[i].who \in Workers /\ x.lines[i].amount \in Nat \ {0}
      BY <1>2, AdvanceLinesAre
    <3>3. i \in 0 .. MaxLines
      <4>1. Len(x.lines) \in Nat
        BY <1>2
      <4> QED
        BY <1>2, <3>2, <4>1
    <3> QED
      BY <1>1, <3>1, <3>2, <3>3 DEF Due
  <2> QED
    BY <2>1
<1>5. \A d \in NewVariance(r, job[r].entry, x) : d \in Due /\ d.by = r /\ d.src = job[r].entry
  <2>1. NewVariance(r, job[r].entry, x) =
          IF x.worker = None \/ v = 0 THEN {}
          ELSE {[by |-> r, n |-> 0, src |-> job[r].entry, worker |-> x.worker,
                 amount |-> Hundredths(IF v < 0 THEN -v ELSE v),
                 type |-> IF v < 0 THEN "credit" ELSE "excess"]}
    BY DEF NewVariance
  <2> HIDE DEF v
  <2>2. Hundredths(IF v < 0 THEN -v ELSE v) \in Nat
    <3>1. (IF v < 0 THEN -v ELSE v) \in Nat
      BY <1>3
    <3> QED
      BY <3>1, HundredthsIs
  <2>3. (IF v < 0 THEN "credit" ELSE "excess") \in {"credit", "excess"} /\ 0 \in 0 .. MaxLines
    BY <1>2
  <2> QED
    BY <1>1, <1>2, <2>1, <2>2, <2>3 DEF Due
<1>6. NewDues(r) = IF job[r].form.final
                   THEN NewAdvances(r, job[r].entry, x) \cup NewVariance(r, job[r].entry, x) ELSE {}
  BY DEF NewDues, x
<1> QED
  BY <1>4, <1>5, <1>6

-----------------------------------------------------------------------------
(***************************************************************************)
(* What a commit makes of the tables, request by request                   *)
(***************************************************************************)
\* The request is over but for the deletions in storage.
Closes(r) ==
  /\ UNCHANGED <<kind, files, young>> /\ Framed'
  /\ pc[r] = "commit" /\ pc'[r] = "cleanup"
  /\ job'[r] = None /\ seen'[r] = None /\ holds'[r] = {}
  /\ txn'[r] = [NothingWritten EXCEPT !.queue = txn[r].queue]
  /\ \A q \in Req \ {r} : UNCHANGED Mine(q)

LEMMA CommitCloses ==
  ASSUME TypeInv, NEW r \in Req, Commit(r)
  PROVE  /\ Closes(r) /\ Running(r)
         /\ entries' = EntriesAfter(r) /\ ledger' = LedgerAfter(r) /\ custs' = CustsAfter(r)
         /\ dues' = DuesAfter(r) /\ checkpoints' = checkpoints \ txn[r].log
BY DEF Commit, Closes, Framed, Mine, TypeInv, Running

\* The parts of what each request has written.
Fields(t, entry, gone, new, bill, due, undue, cust, queue) ==
  /\ t.entry = entry /\ t.gone = gone /\ t.new = new /\ t.bill = bill /\ t.due = due
  /\ t.undue = undue /\ t.cust = cust /\ t.queue = queue

LEMMA FieldsOf ==
  ASSUME NEW r
  PROVE  /\ Fields(Dropped(r), {}, seen[r].rows, <<>>, {}, {}, seen[r].due, {}, {})
         /\ Fields(Posted(r), {NewEntry(r)}, seen[r].rows, Charges(r), {}, NewDues(r), seen[r].due, {},
                   SaveQueue(r))
         /\ Fields(EntryDropped(r), {None}, seen[r].rows, <<>>, {}, {}, seen[r].due, {},
                   (UNION Range(seen[r].bills)) \cup seen[r].entry.bills)
         /\ \A log : Fields([EntryDropped(r) EXCEPT !.log = log], {None}, seen[r].rows, <<>>, {}, {},
                   seen[r].due, {}, (UNION Range(seen[r].bills)) \cup seen[r].entry.bills)
         /\ Fields(RowDropped(r), {}, {job[r].row}, <<>>, {}, {}, {}, {}, {seen[r]} \ {None})
         /\ Fields(CustomerDropped(r), {}, {}, <<>>, {}, {}, {}, {None}, seen[r].bills \cup seen[r].rows)
<1>1. Fields(Dropped(r), {}, seen[r].rows, <<>>, {}, {}, seen[r].due, {}, {})
  BY DEF Fields, Dropped, NothingWritten
<1>2. DOMAIN Dropped(r) = DOMAIN NothingWritten
  BY DEF Dropped
<1>3. Fields(RowsDropped(r), {}, seen[r].rows, <<>>, {}, {}, seen[r].due, {}, (UNION Range(seen[r].bills)))
  <2> HIDE DEF Dropped
  <2> QED
    BY <1>1, <1>2 DEF Fields, RowsDropped, NothingWritten
<1>4. DOMAIN RowsDropped(r) = DOMAIN NothingWritten
  BY <1>2 DEF RowsDropped
<1>5. Fields(EntryDropped(r), {None}, seen[r].rows, <<>>, {}, {}, seen[r].due, {},
             (UNION Range(seen[r].bills)) \cup seen[r].entry.bills)
  <2> DEFINE t == RowsDropped(r)
             old == (UNION Range(seen[r].bills))
             more == seen[r].entry.bills
  <2>1. /\ EntryDropped(r) = [t EXCEPT !.entry = {None}, !.queue = @ \cup more]
        /\ Fields(t, {}, seen[r].rows, <<>>, {}, {}, seen[r].due, {}, old)
        /\ DOMAIN t = DOMAIN NothingWritten
    BY <1>3, <1>4 DEF EntryDropped
  <2> HIDE DEF t, old, more
  <2>2. {"entry", "queue"} \subseteq DOMAIN t
    BY <2>1 DEF NothingWritten
  <2>3. Fields(EntryDropped(r), {None}, seen[r].rows, <<>>, {}, {}, seen[r].due, {}, old \cup more)
    <3> DEFINE u == [t EXCEPT !.entry = {None}]
    <3>1. /\ Fields(u, {None}, seen[r].rows, <<>>, {}, {}, seen[r].due, {}, old) /\ DOMAIN u = DOMAIN t
      BY <2>1, <2>2 DEF Fields
    <3>2. EntryDropped(r) = [u EXCEPT !.queue = u.queue \cup more]
      BY <2>1
    <3> HIDE DEF u
    <3>3. Fields([u EXCEPT !.queue = u.queue \cup more], {None}, seen[r].rows, <<>>, {}, {}, seen[r].due, {},
                 old \cup more)
      BY <2>2, <3>1 DEF Fields
    <3> QED
      BY <3>2, <3>3
  <2> QED
    BY <2>3 DEF old, more
<1>6. \A log : Fields([EntryDropped(r) EXCEPT !.log = log], {None}, seen[r].rows, <<>>, {}, {},
             seen[r].due, {}, (UNION Range(seen[r].bills)) \cup seen[r].entry.bills)
  BY <1>5 DEF Fields
<1>7. Fields(Posted(r), {NewEntry(r)}, seen[r].rows, Charges(r), {}, NewDues(r), seen[r].due, {}, SaveQueue(r))
  BY <1>1, <1>2 DEF Fields, Posted, NothingWritten
<1>8. /\ Fields(RowDropped(r), {}, {job[r].row}, <<>>, {}, {}, {}, {}, {seen[r]} \ {None})
      /\ Fields(CustomerDropped(r), {}, {}, <<>>, {}, {}, {}, {None}, seen[r].bills \cup seen[r].rows)
  BY DEF Fields, RowDropped, CustomerDropped, NothingWritten
<1> QED
  BY <1>1, <1>5, <1>6, <1>7, <1>8

\* The tables that a request has not written.
LEMMA Untouched ==
  ASSUME TypeInv, NEW r \in Req, Commit(r)
  PROVE  /\ txn[r].entry = {} /\ txn[r].cust = {} => entries' = entries
         /\ txn[r].cust = {} => custs' = custs
         /\ txn[r].entry = {} /\ txn[r].due = {} /\ txn[r].undue = {} => dues' = dues
         /\ txn[r].log = {} => checkpoints' = checkpoints
<1>1. ASSUME txn[r].entry = {}, txn[r].cust = {} PROVE entries' = entries
  <2>1. ~Deleted(r, "cust")
    BY <1>1 DEF Deleted
  <2>2. EntriesAfter(r) = [e \in EntryIds |-> entries[e]]
    BY <1>1, <2>1 DEF EntriesAfter
  <2> QED
    BY <2>2, CommitCloses DEF TypeInv, TypeOK
<1>2. ASSUME txn[r].cust = {} PROVE custs' = custs
  BY <1>2, CommitCloses DEF CustsAfter, TypeInv, TypeOK
<1>3. ASSUME txn[r].entry = {}, txn[r].due = {}, txn[r].undue = {} PROVE dues' = dues
  BY <1>3, CommitCloses DEF DuesAfter, Deleted, Undone
<1>4. ASSUME txn[r].log = {} PROVE checkpoints' = checkpoints
  BY <1>4, CommitCloses
<1> QED
  BY <1>1, <1>2, <1>3, <1>4

\* What is left of what employees owe once r has dropped what it had read.
DuesLeft(r) == {d \in dues : \A u \in seen[r].due : d \notin {u, [u EXCEPT !.src = None]}}

LEMMA LeftIs ==
  ASSUME NEW r, txn[r].undue = seen[r].due
  PROVE  {d \in dues : ~Undone(r, d)} = DuesLeft(r)
BY DEF Undone, DuesLeft

LEMMA CommitSave ==
  ASSUME TypeInv, NEW r \in Req, Commit(r), kind[r] = "save"
  PROVE  /\ Closes(r) /\ Running(r) /\ job[r].entry \in EntryIds /\ seen[r] \in EntryRead
         /\ entries' = [entries EXCEPT ![job[r].entry] = NewEntry(r)]
         /\ ledger' = [i \in RowIds |-> IF i \in DOMAIN Charges(r) THEN Charges(r)[i]
                                        ELSE IF i \in seen[r].rows THEN None ELSE ledger[i]]
         /\ custs' = custs /\ dues' = DuesLeft(r) \cup NewDues(r) /\ checkpoints' = checkpoints
         /\ txn[r].queue = SaveQueue(r)
<1>1. /\ txn[r] = Posted(r) /\ Running(r) /\ pc[r] = "commit" /\ Closes(r)
      /\ job[r].entry \in EntryIds /\ seen[r] \in EntryRead
  BY CommitCloses, JobIs DEF TypeInv, Fits, TxnFits, SeenFits, Commit
<1>2. /\ txn[r].entry = {NewEntry(r)} /\ txn[r].gone = seen[r].rows /\ txn[r].new = Charges(r)
      /\ txn[r].bill = {} /\ txn[r].due = NewDues(r) /\ txn[r].undue = seen[r].due
      /\ txn[r].cust = {} /\ txn[r].queue = SaveQueue(r)
  BY <1>1, FieldsOf DEF Fields
<1>3. txn[r].log = {}
  BY <1>1 DEF Posted, Dropped, NothingWritten
<1>4. NewEntry(r) \in Entry /\ NewEntry(r) # None
  BY <1>1, NewEntryIs, IdsAreDistinct
<1>5. ~Deleted(r, "entry") /\ ~Deleted(r, "cust")
  BY <1>2, <1>4 DEF Deleted
<1>6. (CHOOSE x \in txn[r].entry : TRUE) = NewEntry(r)
  BY <1>2
<1>7. entries' = [entries EXCEPT ![job[r].entry] = NewEntry(r)]
  <2>1. entries' = [e \in EntryIds |-> IF e = job[r].entry THEN NewEntry(r) ELSE entries[e]]
    <3>1. \A e \in EntryIds :
             EntriesAfter(r)[e] = IF e = job[r].entry THEN NewEntry(r) ELSE entries[e]
      BY <1>2, <1>5, <1>6 DEF EntriesAfter
    <3>2. EntriesAfter(r) = [e \in EntryIds |-> EntriesAfter(r)[e]]
      BY DEF EntriesAfter
    <3>3. entries' = EntriesAfter(r)
      BY CommitCloses
    <3> QED
      BY <3>1, <3>2, <3>3
  <2> QED
    BY <1>1, <2>1 DEF TypeInv, TypeOK
<1>8. ledger' = [i \in RowIds |-> IF i \in DOMAIN Charges(r) THEN Charges(r)[i]
                                  ELSE IF i \in seen[r].rows THEN None ELSE ledger[i]]
  BY <1>2, <1>5, CommitCloses DEF LedgerAfter
<1>9. custs' = custs
  BY <1>2, CommitCloses DEF CustsAfter, TypeInv, TypeOK
<1>10. dues' = DuesLeft(r) \cup NewDues(r) /\ checkpoints' = checkpoints
  BY <1>2, <1>3, <1>5, LeftIs, CommitCloses DEF DuesAfter
<1> QED
  BY <1>1, <1>2, <1>7, <1>8, <1>9, <1>10

LEMMA CommitDeleteEntry ==
  ASSUME TypeInv, NEW r \in Req, Commit(r), kind[r] = "deleteEntry"
  PROVE  /\ Closes(r) /\ Running(r) /\ job[r].entry \in EntryIds
         /\ seen[r] \in EntryRead /\ seen[r].entry # None
         /\ entries' = [entries EXCEPT ![job[r].entry] = None]
         /\ ledger' = [i \in RowIds |-> IF i \in seen[r].rows \/ ledger[i] = None THEN None
                                        ELSE IF ledger[i].src = job[r].entry THEN [ledger[i] EXCEPT !.src = None]
                                        ELSE ledger[i]]
         /\ custs' = custs
         /\ dues' = {IF d.src = job[r].entry THEN [d EXCEPT !.src = None] ELSE d : d \in DuesLeft(r)}
         /\ checkpoints' = checkpoints \ txn[r].log /\ txn[r].log \in SUBSET Scopes
         /\ txn[r].queue = (UNION Range(seen[r].bills)) \cup seen[r].entry.bills
<1>1. /\ Running(r) /\ pc[r] = "commit" /\ Closes(r)
      /\ job[r].entry \in EntryIds /\ seen[r] \in EntryRead /\ seen[r].entry # None
      /\ \E log \in SUBSET Scopes : txn[r] = [EntryDropped(r) EXCEPT !.log = log]
  BY CommitCloses, JobIs DEF TypeInv, Fits, TxnFits, SeenFits, Commit
<1>2. PICK log \in SUBSET Scopes : txn[r] = [EntryDropped(r) EXCEPT !.log = log]
  BY <1>1
<1>3. /\ txn[r].entry = {None} /\ txn[r].gone = seen[r].rows /\ txn[r].new = <<>>
      /\ txn[r].bill = {} /\ txn[r].due = {} /\ txn[r].undue = seen[r].due
      /\ txn[r].cust = {} /\ txn[r].queue = (UNION Range(seen[r].bills)) \cup seen[r].entry.bills
  BY <1>2, FieldsOf DEF Fields
<1>4. txn[r].log \in SUBSET Scopes
  BY <1>2 DEF EntryDropped, RowsDropped, Dropped, NothingWritten
<1>5. Deleted(r, "entry") /\ ~Deleted(r, "cust") /\ (CHOOSE x \in txn[r].entry : TRUE) = None
  BY <1>3 DEF Deleted
<1>6. entries' = [entries EXCEPT ![job[r].entry] = None]
  <2>1. entries' = [e \in EntryIds |-> IF txn[r].entry # {} /\ e = job[r].entry THEN None ELSE entries[e]]
    <3>1. EntriesAfter(r) = [e \in EntryIds |->
             IF txn[r].entry # {} /\ e = job[r].entry THEN CHOOSE x \in txn[r].entry : TRUE ELSE entries[e]]
      BY <1>5 DEF EntriesAfter
    <3> QED
      BY <1>5, <3>1, CommitCloses
  <2>2. entries' = [e \in EntryIds |-> IF e = job[r].entry THEN None ELSE entries[e]]
    BY <1>3, <2>1
  <2> QED
    BY <1>1, <2>2 DEF TypeInv, TypeOK
<1>7. ledger' = [i \in RowIds |-> IF i \in seen[r].rows \/ ledger[i] = None THEN None
                                  ELSE IF ledger[i].src = job[r].entry THEN [ledger[i] EXCEPT !.src = None]
                                  ELSE ledger[i]]
  <2>1. DOMAIN txn[r].new = {}
    BY <1>3
  <2> QED
    BY <1>3, <1>5, <2>1, CommitCloses DEF LedgerAfter
<1>8. custs' = custs
  BY <1>3, CommitCloses DEF CustsAfter, TypeInv, TypeOK
<1>9. /\ dues' = {IF d.src = job[r].entry THEN [d EXCEPT !.src = None] ELSE d : d \in DuesLeft(r)}
      /\ checkpoints' = checkpoints \ txn[r].log
  <2>1. {d \in dues : ~Undone(r, d)} \cup txn[r].due = DuesLeft(r)
    BY <1>3, LeftIs
  <2> QED
    BY <1>5, <2>1, CommitCloses DEF DuesAfter
<1> QED
  BY <1>1, <1>3, <1>4, <1>6, <1>7, <1>8, <1>9

LEMMA CommitAttach ==
  ASSUME TypeInv, NEW r \in Req, Commit(r), kind[r] = "attach"
  PROVE  /\ Closes(r) /\ Running(r) /\ job[r].row \in RowIds /\ seen[r] \in Keys \cup {None}
         /\ entries' = entries /\ custs' = custs /\ dues' = dues /\ checkpoints' = checkpoints
         /\ ledger' = [i \in RowIds |->
                         IF i = job[r].row /\ ledger[i] # None /\ NewBill(r) # seen[r]
                         THEN [ledger[i] EXCEPT !.bill = NewBill(r)] ELSE ledger[i]]
         /\ txn[r].queue = {seen[r]} \ {None, NewBill(r)}
<1>1. /\ txn[r] = BillWritten(r) /\ Running(r) /\ pc[r] = "commit" /\ Closes(r)
      /\ job[r].row \in RowIds /\ seen[r] \in Keys \cup {None}
  BY CommitCloses, JobIs DEF TypeInv, Fits, TxnFits, SeenFits, Commit
<1>2. /\ txn[r].entry = {} /\ txn[r].gone = {} /\ txn[r].new = <<>>
      /\ txn[r].bill = IF NewBill(r) = seen[r] THEN {} ELSE {[row |-> job[r].row, key |-> NewBill(r)]}
      /\ txn[r].due = {} /\ txn[r].undue = {} /\ txn[r].cust = {} /\ txn[r].log = {}
      /\ txn[r].queue = {seen[r]} \ {None, NewBill(r)}
  BY <1>1 DEF BillWritten, NothingWritten
<1>3. ~Deleted(r, "entry") /\ ~Deleted(r, "cust") /\ DOMAIN txn[r].new = {}
  BY <1>2 DEF Deleted
<1>4. ledger' = [i \in RowIds |->
                   IF ledger[i] = None THEN None
                   ELSE IF \E b \in txn[r].bill : b.row = i
                   THEN [ledger[i] EXCEPT !.bill = (CHOOSE b \in txn[r].bill : TRUE).key]
                   ELSE ledger[i]]
  BY <1>2, <1>3, CommitCloses DEF LedgerAfter
<1>5. ledger' = [i \in RowIds |->
                   IF i = job[r].row /\ ledger[i] # None /\ NewBill(r) # seen[r]
                   THEN [ledger[i] EXCEPT !.bill = NewBill(r)] ELSE ledger[i]]
  <2>1. CASE NewBill(r) = seen[r]
    <3>1. \A i \in RowIds : ~\E b \in txn[r].bill : b.row = i
      BY <1>2, <2>1
    <3> QED
      BY <1>4, <2>1, <3>1
  <2>2. CASE NewBill(r) # seen[r]
    <3>1. (CHOOSE b \in txn[r].bill : TRUE) = [row |-> job[r].row, key |-> NewBill(r)]
      BY <1>2, <2>2
    <3>2. \A i \in RowIds : (\E b \in txn[r].bill : b.row = i) <=> i = job[r].row
      <4> DEFINE b == [row |-> job[r].row, key |-> NewBill(r)]
      <4>1. txn[r].bill = {b} /\ b.row = job[r].row
        BY <1>2, <2>2
      <4> HIDE DEF b
      <4> QED
        BY <4>1
    <3> QED
      BY <1>4, <2>2, <3>1, <3>2
  <2> QED
    BY <2>1, <2>2
<1>6. entries' = entries /\ custs' = custs /\ dues' = dues /\ checkpoints' = checkpoints
  BY <1>2, Untouched
<1> QED
  BY <1>1, <1>2, <1>5, <1>6

LEMMA CommitDeleteRow ==
  ASSUME TypeInv, NEW r \in Req, Commit(r), kind[r] = "deleteRow"
  PROVE  /\ Closes(r) /\ Running(r) /\ job[r].row \in RowIds /\ seen[r] \in Keys \cup {None}
         /\ entries' = entries /\ custs' = custs /\ dues' = dues /\ checkpoints' = checkpoints
         /\ ledger' = [ledger EXCEPT ![job[r].row] = None]
         /\ txn[r].queue = {seen[r]} \ {None}
<1>1. /\ txn[r] = RowDropped(r) /\ Running(r) /\ pc[r] = "commit" /\ Closes(r)
      /\ job[r].row \in RowIds /\ seen[r] \in Keys \cup {None}
  BY CommitCloses, JobIs DEF TypeInv, Fits, TxnFits, SeenFits, Commit
<1>2. /\ txn[r].entry = {} /\ txn[r].gone = {job[r].row} /\ txn[r].new = <<>> /\ txn[r].bill = {}
      /\ txn[r].due = {} /\ txn[r].undue = {} /\ txn[r].cust = {} /\ txn[r].log = {}
      /\ txn[r].queue = {seen[r]} \ {None}
  BY <1>1 DEF RowDropped, NothingWritten
<1>3. ~Deleted(r, "entry") /\ ~Deleted(r, "cust") /\ DOMAIN txn[r].new = {}
  BY <1>2 DEF Deleted
<1>4. ledger' = [i \in RowIds |-> IF i = job[r].row THEN None ELSE ledger[i]]
  BY <1>2, <1>3, CommitCloses DEF LedgerAfter
<1>5. entries' = entries /\ custs' = custs /\ dues' = dues /\ checkpoints' = checkpoints
  BY <1>2, Untouched
<1> QED
  BY <1>1, <1>2, <1>4, <1>5 DEF TypeInv, TypeOK

\* The row that adding makes.
Added(r) ==
  [cust |-> job[r].cust, type |-> job[r].form.type, amount |-> job[r].form.amount,
   src |-> None, bill |-> NewBill(r)]

LEMMA CommitAdd ==
  ASSUME TypeInv, NEW r \in Req, Commit(r), kind[r] = "add"
  PROVE  /\ Closes(r) /\ Running(r) /\ job[r].cust \in Customers /\ Added(r) \in Charge
         /\ entries' = entries /\ custs' = custs /\ dues' = dues /\ checkpoints' = checkpoints
         /\ ledger' = [ledger EXCEPT ![<<r, 1>>] = Added(r)]
         /\ txn[r].queue = {}
<1>1. /\ txn[r] = RowAdded(r) /\ Running(r) /\ pc[r] = "commit" /\ Closes(r)
      /\ job[r].cust \in Customers /\ job[r].form \in Payment
  BY CommitCloses, JobIs DEF TypeInv, Fits, TxnFits, SeenFits, Commit
<1>2. /\ txn[r].entry = {} /\ txn[r].gone = {} /\ txn[r].bill = {}
      /\ txn[r].new = [row \in {<<r, 1>>} |-> Added(r)]
      /\ txn[r].due = {} /\ txn[r].undue = {} /\ txn[r].cust = {} /\ txn[r].log = {}
      /\ txn[r].queue = {}
  BY <1>1 DEF RowAdded, NothingWritten, Added
<1>3. ~Deleted(r, "entry") /\ ~Deleted(r, "cust")
  BY <1>2 DEF Deleted
<1>4. NewBill(r) \in Keys \cup {None}
  BY FreshIs DEF NewBill
<1>5. Added(r) \in Charge
  BY <1>1, <1>4 DEF Added, Charge, Payment
<1>6. ledger' = [i \in RowIds |-> IF i = <<r, 1>> THEN Added(r) ELSE ledger[i]]
  <2>1. \A i \in RowIds : (i \in DOMAIN txn[r].new <=> i = <<r, 1>>)
                          /\ (i = <<r, 1>> => txn[r].new[i] = Added(r))
    BY <1>2
  <2>2. \A i \in RowIds : i \notin txn[r].gone /\ ~\E b \in txn[r].bill : b.row = i
    BY <1>2
  <2>3. ledger' = [i \in RowIds |-> IF i \in DOMAIN txn[r].new THEN txn[r].new[i] ELSE ledger[i]]
    BY <1>3, <2>2, CommitCloses DEF LedgerAfter
  <2> QED
    BY <2>1, <2>3
<1>7. entries' = entries /\ custs' = custs /\ dues' = dues /\ checkpoints' = checkpoints
  BY <1>2, Untouched
<1> QED
  BY <1>1, <1>2, <1>5, <1>6, <1>7 DEF TypeInv, TypeOK

\* What a customer's own bills become.
BillsAfter(r) ==
  ((IF custs[job[r].cust] = None THEN {} ELSE custs[job[r].cust]) \ (OldBills(r) \ job[r].bills))
  \cup (job[r].bills \ OldBills(r))

LEMMA CommitCustomer ==
  ASSUME TypeInv, NEW r \in Req, Commit(r), kind[r] \in {"saveCustomer", "addCustomer"}
  PROVE  /\ Closes(r) /\ Running(r) /\ job[r].cust \in Customers /\ job[r].bills \in SUBSET Keys
         /\ OldBills(r) \in SUBSET Keys
         /\ entries' = entries /\ ledger' = ledger /\ dues' = dues /\ checkpoints' = checkpoints
         /\ custs' = [custs EXCEPT ![job[r].cust] = BillsAfter(r)]
         /\ txn[r].queue = OldBills(r) \ job[r].bills
<1>1. /\ txn[r] = CustomerWritten(r) /\ Running(r) /\ pc[r] = "commit" /\ Closes(r)
      /\ job[r].cust \in Customers /\ job[r].bills \in SUBSET Keys
      /\ kind[r] = "saveCustomer" => seen[r] \in CustomerRead
  BY CommitCloses, JobIs DEF TypeInv, Fits, TxnFits, SeenFits, Commit
<1> DEFINE change == [out |-> OldBills(r) \ job[r].bills, in |-> job[r].bills \ OldBills(r)]
<1>2. /\ txn[r].entry = {} /\ txn[r].gone = {} /\ txn[r].new = <<>> /\ txn[r].bill = {}
      /\ txn[r].due = {} /\ txn[r].undue = {} /\ txn[r].cust = {change} /\ txn[r].log = {}
      /\ txn[r].queue = OldBills(r) \ job[r].bills
  BY <1>1 DEF CustomerWritten, NothingWritten
<1>3. OldBills(r) \in SUBSET Keys
  BY <1>1 DEF OldBills, CustomerRead
<1>4. change # None
  BY <1>3, <1>1, IdsAreDistinct
<1>5. ~Deleted(r, "entry") /\ ~Deleted(r, "cust") /\ DOMAIN txn[r].new = {}
  BY <1>2, <1>4 DEF Deleted
<1>6. custs' = [c \in Customers |-> IF c = job[r].cust THEN BillsAfter(r) ELSE custs[c]]
  <2>1. (CHOOSE x \in txn[r].cust : TRUE) = change /\ txn[r].cust # {}
    BY <1>2
  <2>2. custs' = [c \in Customers |->
           IF c # job[r].cust THEN custs[c]
           ELSE ((IF custs[c] = None THEN {} ELSE custs[c]) \ change.out) \cup change.in]
    BY <1>5, <2>1, CommitCloses DEF CustsAfter
  <2> QED
    BY <2>2 DEF BillsAfter
<1>7. entries' = entries /\ ledger' = ledger /\ dues' = dues /\ checkpoints' = checkpoints
  <2>1. ledger' = ledger
    BY <1>2, <1>5, CommitCloses DEF LedgerAfter, TypeInv, TypeOK
  <2>2. entries' = entries
    <3>1. EntriesAfter(r) = [e \in EntryIds |-> entries[e]]
      BY <1>2, <1>5 DEF EntriesAfter
    <3> QED
      BY <3>1, CommitCloses DEF TypeInv, TypeOK
  <2> QED
    BY <1>2, <2>1, <2>2, Untouched
<1> QED
  BY <1>1, <1>2, <1>3, <1>6, <1>7 DEF TypeInv, TypeOK

\* The lines of an entry once a customer is gone.
LinesWithout(c, lines) ==
  [i \in DOMAIN lines |-> IF lines[i].who = c THEN [lines[i] EXCEPT !.who = None] ELSE lines[i]]
EntryWithout(c, x) == [x EXCEPT !.lines = LinesWithout(c, x.lines)]

LEMMA CommitDeleteCustomer ==
  ASSUME TypeInv, NEW r \in Req, Commit(r), kind[r] = "deleteCustomer"
  PROVE  /\ Closes(r) /\ Running(r) /\ job[r].cust \in Customers /\ seen[r] \in CustomerRead
         /\ entries' = [e \in EntryIds |-> IF entries[e] = None THEN None
                                           ELSE EntryWithout(job[r].cust, entries[e])]
         /\ ledger' = [i \in RowIds |-> IF ledger[i] # None /\ ledger[i].cust = job[r].cust
                                        THEN None ELSE ledger[i]]
         /\ custs' = [custs EXCEPT ![job[r].cust] = None]
         /\ dues' = dues /\ checkpoints' = checkpoints
         /\ txn[r].queue = seen[r].bills \cup seen[r].rows
<1>1. /\ txn[r] = CustomerDropped(r) /\ Running(r) /\ pc[r] = "commit" /\ Closes(r)
      /\ job[r].cust \in Customers /\ seen[r] \in CustomerRead
  BY CommitCloses, JobIs DEF TypeInv, Fits, TxnFits, SeenFits, Commit
<1>2. /\ txn[r].entry = {} /\ txn[r].gone = {} /\ txn[r].new = <<>> /\ txn[r].bill = {}
      /\ txn[r].due = {} /\ txn[r].undue = {} /\ txn[r].cust = {None} /\ txn[r].log = {}
      /\ txn[r].queue = seen[r].bills \cup seen[r].rows
  BY <1>1 DEF CustomerDropped, NothingWritten
<1>3. ~Deleted(r, "entry") /\ Deleted(r, "cust") /\ DOMAIN txn[r].new = {} /\ txn[r].cust # {}
  BY <1>2 DEF Deleted
<1>4. entries' = [e \in EntryIds |-> IF entries[e] = None THEN None
                                     ELSE EntryWithout(job[r].cust, entries[e])]
  BY <1>2, <1>3, CommitCloses DEF EntriesAfter, EntryWithout, LinesWithout
<1>5. ledger' = [i \in RowIds |-> IF ledger[i] # None /\ ledger[i].cust = job[r].cust
                                  THEN None ELSE ledger[i]]
  <2>1. \A i \in RowIds : i \notin txn[r].gone /\ ~\E b \in txn[r].bill : b.row = i
    BY <1>2
  <2>2. ledger' = [i \in RowIds |-> IF ledger[i] = None THEN None
                                    ELSE IF ledger[i].cust = job[r].cust THEN None ELSE ledger[i]]
    BY <1>3, <2>1, CommitCloses DEF LedgerAfter
  <2> QED
    BY <2>2
<1>6. custs' = [c \in Customers |-> IF c = job[r].cust THEN None ELSE custs[c]]
  BY <1>3, CommitCloses DEF CustsAfter
<1>7. dues' = dues /\ checkpoints' = checkpoints
  BY <1>2, Untouched
<1> QED
  BY <1>1, <1>2, <1>4, <1>5, <1>6, <1>7 DEF TypeInv, TypeOK

LEMMA WithoutFits ==
  ASSUME NEW x \in Entry, NEW c
  PROVE  EntryWithout(c, x) \in Entry
<1>1. LinesWithout(c, x.lines) = [i \in 1 .. Len(x.lines) |-> LinesWithout(c, x.lines)[i]]
  <2>1. x.lines \in Seq(Line)
    BY DEF Entry
  <2>2. DOMAIN x.lines = 1 .. Len(x.lines)
    BY <2>1
  <2> QED
    BY <2>2 DEF LinesWithout
<1>2. ASSUME NEW i \in 1 .. Len(x.lines) PROVE LinesWithout(c, x.lines)[i] \in Line
  <2>1. x.lines \in Seq(Line)
    BY DEF Entry
  <2>2. i \in DOMAIN x.lines /\ x.lines[i] \in Line
    BY <2>1
  <2>3. LinesWithout(c, x.lines)[i] = IF x.lines[i].who = c THEN [x.lines[i] EXCEPT !.who = None] ELSE x.lines[i]
    BY <2>2 DEF LinesWithout
  <2> QED
    BY <2>2, <2>3 DEF Line
<1>3. Len(x.lines) \in Nat
  <2>1. x.lines \in Seq(Line)
    BY DEF Entry
  <2> QED
    BY <2>1
<1>4. LinesWithout(c, x.lines) \in Seq(Line)
  BY <1>1, <1>2, <1>3
<1> QED
  BY <1>4 DEF EntryWithout, Entry

\* A commit leaves a table of rows of their types.
LEMMA ClosesKeeps ==
  ASSUME TypeInv, NEW r \in Req, Closes(r), txn[r].queue \in SUBSET Keys, TypeOK'
  PROVE  TypeInv'
<1>1. Fits(r)'
  <2>1. \E queue \in SUBSET Keys : txn'[r] = [NothingWritten EXCEPT !.queue = queue]
    BY DEF Closes
  <2>2. NothingWritten' = NothingWritten
    BY DEF NothingWritten
  <2> QED
    BY <2>1, <2>2 DEF Closes, Fits, Running, SeenFits, TxnFits, Resting, Unwritten
<1>2. pc' \in [Req -> Statement] /\ holds' \in [Req -> SUBSET Lock]
  <2>1. \A q \in Req : pc'[q] \in Statement /\ holds'[q] \in SUBSET Lock
    BY DEF TypeInv, Closes, Mine, Statement, Resting
  <2>2. pc' = [q \in Req |-> pc'[q]] /\ holds' = [q \in Req |-> holds'[q]]
    BY DEF Closes, Framed
  <2> QED
    BY <2>1, <2>2
<1> QED
  BY <1>1, <1>2, MoveKeeps DEF Closes, Framed, TypeInv

LEMMA UnionOfBills ==
  ASSUME NEW bills \in [Customers -> SUBSET Keys]
  PROVE  (UNION Range(bills)) \in SUBSET Keys
<1>1. \A k \in UNION Range(bills) : k \in Keys
  <2>1. ASSUME NEW S \in Range(bills) PROVE S \subseteq Keys
    BY DEF Range
  <2> QED
    BY <2>1
<1> QED
  BY <1>1

LEMMA CommitEntryKeeps ==
  ASSUME TypeInv, NEW r \in Req, Commit(r), kind[r] \in {"save", "deleteEntry"}
  PROVE  TypeInv'
<1>1. /\ entries \in [EntryIds -> Entry \cup {None}] /\ custs \in [Customers -> (SUBSET Keys) \cup {None}]
      /\ ledger \in [RowIds -> Charge \cup {None}] /\ dues \subseteq Due /\ checkpoints \subseteq Scopes
      /\ files \subseteq Keys
  BY DEF TypeInv, TypeOK
<1>2. CASE kind[r] = "save"
  <2>1. /\ Closes(r) /\ Running(r) /\ pc[r] = "commit" /\ seen[r] \in EntryRead
        /\ job[r].entry \in EntryIds /\ job[r].bills \in SUBSET Keys
    BY <1>2, CommitSave, JobIs DEF Commit
  <2>2. NewEntry(r) \in Entry
    BY <1>2, <2>1, NewEntryIs
  <2>3. \A i \in DOMAIN Charges(r) : Charges(r)[i] \in Charge
    BY <1>2, <2>1, ChargesAre
  <2>4. ledger' \in [RowIds -> Charge \cup {None}]
    BY <1>1, <1>2, <2>3, CommitSave
  <2>5. dues' \subseteq Due
    BY <1>1, <1>2, <2>1, NewDuesAre, CommitSave DEF DuesLeft
  <2>6. TypeOK'
    BY <1>1, <1>2, <2>1, <2>2, <2>4, <2>5, CommitSave DEF TypeOK, Closes
  <2>7. SaveQueue(r) \in SUBSET Keys
    <3>1. (UNION Range(seen[r].bills)) \in SUBSET Keys
      BY <2>1, UnionOfBills DEF EntryRead
    <3>2. RemovedKeys(seen[r].entry, job[r].bills) \in SUBSET Keys
      BY <2>1 DEF EntryRead, RemovedKeys, Entry
    <3> QED
      BY <3>1, <3>2 DEF SaveQueue
  <2> QED
    BY <1>2, <2>1, <2>6, <2>7, CommitSave, ClosesKeeps
<1>3. CASE kind[r] = "deleteEntry"
  <2>1. /\ Closes(r) /\ Running(r) /\ pc[r] = "commit" /\ seen[r] \in EntryRead /\ seen[r].entry # None
        /\ job[r].entry \in EntryIds
    BY <1>3, CommitDeleteEntry DEF Commit
  <2>2. ledger' \in [RowIds -> Charge \cup {None}]
    <3>1. \A i \in RowIds : ledger[i] # None => [ledger[i] EXCEPT !.src = None] \in Charge
      BY <1>1 DEF Charge
    <3> QED
      BY <1>1, <1>3, <3>1, CommitDeleteEntry
  <2>3. dues' \subseteq Due
    <3>1. \A d \in dues : [d EXCEPT !.src = None] \in Due
      BY <1>1 DEF Due
    <3> QED
      BY <1>1, <1>3, <3>1, CommitDeleteEntry DEF DuesLeft
  <2>4. entries' \in [EntryIds -> Entry \cup {None}] /\ custs' = custs /\ checkpoints' \subseteq Scopes
    BY <1>1, <1>3, CommitDeleteEntry
  <2>5. TypeOK'
    BY <1>1, <2>1, <2>2, <2>3, <2>4 DEF TypeOK, Closes
  <2>6. txn[r].queue \in SUBSET Keys
    <3>1. (UNION Range(seen[r].bills)) \in SUBSET Keys
      BY <2>1, UnionOfBills DEF EntryRead
    <3>2. seen[r].entry.bills \in SUBSET Keys
      BY <2>1 DEF EntryRead, Entry
    <3> QED
      BY <1>3, <3>1, <3>2, CommitDeleteEntry
  <2> QED
    BY <2>1, <2>5, <2>6, ClosesKeeps
<1> QED
  BY <1>2, <1>3

LEMMA CommitRowKeeps ==
  ASSUME TypeInv, NEW r \in Req, Commit(r), kind[r] \in {"attach", "deleteRow", "add"}
  PROVE  TypeInv'
<1>1. /\ entries \in [EntryIds -> Entry \cup {None}] /\ custs \in [Customers -> (SUBSET Keys) \cup {None}]
      /\ ledger \in [RowIds -> Charge \cup {None}] /\ dues \subseteq Due /\ checkpoints \subseteq Scopes
      /\ files \subseteq Keys
  BY DEF TypeInv, TypeOK
<1>2. /\ Closes(r) /\ entries' = entries /\ custs' = custs /\ dues' = dues /\ checkpoints' = checkpoints
      /\ txn[r].queue \in SUBSET Keys /\ files' = files
  <2>1. Closes(r)
    BY CommitCloses
  <2>2. CASE kind[r] = "attach"
    BY <2>1, <2>2, CommitAttach DEF Closes
  <2>3. CASE kind[r] = "deleteRow"
    BY <2>1, <2>3, CommitDeleteRow DEF Closes
  <2>4. CASE kind[r] = "add"
    BY <2>1, <2>4, CommitAdd DEF Closes
  <2> QED
    BY <2>2, <2>3, <2>4
<1>3. NewBill(r) \in Keys \cup {None}
  BY FreshIs DEF NewBill
<1>4. ledger' \in [RowIds -> Charge \cup {None}]
  <2>1. CASE kind[r] = "attach"
    <3>1. \A i \in RowIds : ledger[i] # None => [ledger[i] EXCEPT !.bill = NewBill(r)] \in Charge
      BY <1>1, <1>3 DEF Charge
    <3> QED
      BY <1>1, <2>1, <3>1, CommitAttach
  <2>2. CASE kind[r] = "deleteRow"
    BY <1>1, <2>2, CommitDeleteRow
  <2>3. CASE kind[r] = "add"
    BY <1>1, <2>3, CommitAdd
  <2> QED
    BY <2>1, <2>2, <2>3
<1>5. TypeOK'
  BY <1>1, <1>2, <1>4 DEF TypeOK
<1> QED
  BY <1>2, <1>5, ClosesKeeps

LEMMA CommitCustomerKeeps ==
  ASSUME TypeInv, NEW r \in Req, Commit(r), kind[r] \in {"saveCustomer", "addCustomer", "deleteCustomer"}
  PROVE  TypeInv'
<1>1. /\ entries \in [EntryIds -> Entry \cup {None}] /\ custs \in [Customers -> (SUBSET Keys) \cup {None}]
      /\ ledger \in [RowIds -> Charge \cup {None}] /\ dues \subseteq Due /\ checkpoints \subseteq Scopes
      /\ files \subseteq Keys
  BY DEF TypeInv, TypeOK
<1>2. CASE kind[r] \in {"saveCustomer", "addCustomer"}
  <2>1. BillsAfter(r) \in SUBSET Keys
    BY <1>1, <1>2, CommitCustomer DEF BillsAfter
  <2>2. TypeOK'
    BY <1>1, <1>2, <2>1, CommitCustomer DEF TypeOK, Closes
  <2> QED
    BY <1>2, <2>2, CommitCustomer, ClosesKeeps
<1>3. CASE kind[r] = "deleteCustomer"
  <2>1. entries' \in [EntryIds -> Entry \cup {None}]
    <3>1. \A e \in EntryIds : entries[e] # None => EntryWithout(job[r].cust, entries[e]) \in Entry
      BY <1>1, WithoutFits
    <3> QED
      BY <1>1, <1>3, <3>1, CommitDeleteCustomer
  <2>2. ledger' \in [RowIds -> Charge \cup {None}]
    BY <1>1, <1>3, CommitDeleteCustomer
  <2>3. TypeOK'
    BY <1>1, <1>3, <2>1, <2>2, CommitDeleteCustomer DEF TypeOK, Closes
  <2>4. txn[r].queue \in SUBSET Keys
    BY <1>3, CommitDeleteCustomer DEF CustomerRead
  <2> QED
    BY <1>3, <2>3, <2>4, CommitDeleteCustomer, ClosesKeeps
<1> QED
  BY <1>2, <1>3

LEMMA CommitKeeps ==
  ASSUME TypeInv, NEW r \in Req, Commit(r)
  PROVE  /\ TypeInv'
         /\ kind[r] \in {"save", "deleteEntry", "attach", "deleteRow", "add",
                         "saveCustomer", "addCustomer", "deleteCustomer"}
<1>1. kind[r] \in {"save", "deleteEntry", "attach", "deleteRow", "add",
                   "saveCustomer", "addCustomer", "deleteCustomer"}
  BY CommitCloses, KindAt DEF TypeInv, Kinds
<1> QED
  BY <1>1, CommitEntryKeeps, CommitRowKeeps, CommitCustomerKeeps

-----------------------------------------------------------------------------
(***************************************************************************)
(* Types                                                                   *)
(***************************************************************************)
LEMMA InitTyped == Init => TypeInv
<1> SUFFICES ASSUME Init PROVE TypeInv
  OBVIOUS
<1>1. PICK d \in Databases :
        /\ entries = d.entries /\ custs = d.custs /\ ledger = d.ledger
        /\ dues = d.dues /\ checkpoints = d.checkpoints
  BY DEF Init
<1>2. /\ entries \in [EntryIds -> Entry \cup {None}] /\ custs \in [Customers -> (SUBSET Keys) \cup {None}]
      /\ ledger \in [RowIds -> Charge \cup {None}] /\ dues \subseteq Due /\ checkpoints \subseteq Scopes
  BY <1>1, DatabasesTyped
<1>3. files \subseteq Keys
  <2>1. \A e \in EntryIds : entries[e] # None => entries[e].bills \subseteq Keys
    BY <1>2 DEF Entry
  <2>2. \A c \in Customers : custs[c] # None => custs[c] \subseteq Keys
    BY <1>2
  <2>3. BillsOf(Rows) \subseteq Keys
    BY <1>2 DEF BillsOf, Rows, Charge
  <2>4. (UNION {entries[e].bills : e \in {x \in EntryIds : entries[x] # None}}) \subseteq Keys
    BY <2>1
  <2>5. (UNION {custs[c] : c \in {x \in Customers : custs[x] # None}}) \subseteq Keys
    BY <2>2
  <2> QED
    BY <2>3, <2>4, <2>5 DEF Init, Named
<1>4. kind \in [Req -> Kinds]
  BY LoadsTyped DEF Init
<1>5. \A r \in Req : Fits(r)
  <2>1. ASSUME NEW r \in Req PROVE Fits(r)
    <3>1. pc[r] = "idle" /\ job[r] = None /\ seen[r] = None /\ txn[r] = NothingWritten /\ holds[r] = {}
      BY DEF Init
    <3> QED
      BY <3>1 DEF Fits, Running, Resting, SeenFits, TxnFits, Unwritten
  <2> QED
    BY <2>1
<1>6. /\ pc \in [Req -> Statement] /\ holds \in [Req -> SUBSET Lock]
      /\ DOMAIN job = Req /\ DOMAIN seen = Req /\ DOMAIN txn = Req /\ young \subseteq Req
  BY DEF Init, Statement, Resting
<1> QED
  BY <1>2, <1>3, <1>4, <1>5, <1>6 DEF TypeInv, TypeOK

\* A request that only leaves a resting place for another.
LEMMA RestKeeps ==
  ASSUME TypeInv, NEW r \in Req, ~Running(r), pc[r] # "cleanup", NEW at \in {"ready", "done"},
         Goto(r, at), UNCHANGED <<seen, txn, holds, young>>, TypeOK'
  PROVE  TypeInv' /\ pc'[r] = at /\ \A q \in Req \ {r} : UNCHANGED Mine(q)
<1>1. /\ kind' = kind /\ job' = job /\ pc' = [pc EXCEPT ![r] = at]
      /\ seen' = seen /\ txn' = txn /\ holds' = holds /\ young' = young
  BY DEF Goto
<1>2. job[r] = None /\ seen[r] = None /\ holds[r] = {} /\ txn[r] = NothingWritten
  BY DEF TypeInv, Fits, Running, TxnFits, Unwritten, Resting
<1>3. pc'[r] = at /\ pc' \in [Req -> Statement]
  BY <1>1 DEF TypeInv, Statement, Resting
<1>4. NothingWritten' = NothingWritten
  BY DEF NothingWritten
<1>5. Fits(r)'
  BY <1>1, <1>2, <1>3, <1>4 DEF Fits, Running, Resting, SeenFits, TxnFits, Unwritten
<1>6. \A q \in Req \ {r} : UNCHANGED Mine(q)
  BY <1>1 DEF Mine, TypeInv
<1> QED
  BY <1>1, <1>3, <1>5, <1>6, MoveKeeps DEF TypeInv

LEMMA ClientKeeps ==
  ASSUME TypeInv, NEW r \in Req, Upload(r) \/ DeleteUpload(r)
  PROVE  /\ TypeInv' /\ UNCHANGED <<committed, kind, young>> /\ pc[r] \in {"idle", "ready"}
         /\ \A q \in Req \ {r} : UNCHANGED Mine(q)
<1>1. CASE Upload(r)
  <2>1. r \in Keys /\ UNCHANGED committed
    BY <1>1, FreshIs DEF Upload
  <2>2. TypeOK'
    BY <1>1, <2>1 DEF TypeInv, TypeOK, committed, Upload
  <2> QED
    BY <1>1, <2>1, <2>2, RestKeeps DEF Upload, Running, Goto
<1>2. CASE DeleteUpload(r)
  <2>1. TypeOK' /\ UNCHANGED committed
    BY <1>2 DEF TypeInv, TypeOK, committed, DeleteUpload
  <2> QED
    BY <1>2, <2>1, RestKeeps DEF DeleteUpload, Running, Goto
<1> QED
  BY <1>1, <1>2

LEMMA ByHandKeeps ==
  ASSUME TypeInv, NEW r \in Req, NEW now \in SUBSET Scopes, ByHand(r, now)
  PROVE  /\ TypeInv' /\ \A q \in Req \ {r} : UNCHANGED Mine(q)
         /\ UNCHANGED <<entries, custs, ledger, dues, files, kind, young>>
<1>1. TypeOK'
  BY DEF TypeInv, TypeOK, ByHand
<1> QED
  BY <1>1, RestKeeps DEF ByHand, Running, Goto

LEMMA CleanUpKeeps ==
  ASSUME TypeInv, NEW r \in Req, CleanUp(r)
  PROVE  TypeInv' /\ QuietStep(r) /\ pc[r] = "cleanup" /\ pc'[r] = "done"
         /\ files' \subseteq files /\ files \ txn[r].queue \subseteq files' /\ young' = young
<1>1. PICK left \in SUBSET txn[r].queue : files' = files \ (txn[r].queue \ left)
  BY DEF CleanUp
<1>2. End(r, "done") /\ young' = young /\ files' \subseteq Keys /\ young' \subseteq Req
  BY <1>1 DEF CleanUp, TypeInv, TypeOK
<1> QED
  BY <1>1, <1>2, EndIs DEF CleanUp

LEMMA RestartKeeps ==
  ASSUME TypeInv, Restart
  PROVE  /\ TypeInv' /\ UNCHANGED <<committed, files, kind>> /\ young' \subseteq young
         /\ \A r \in Req : /\ pc'[r] = IF Running(r) \/ pc[r] = "cleanup" THEN "failed" ELSE pc[r]
                           /\ job'[r] = None /\ seen'[r] = None /\ txn'[r] = NothingWritten /\ holds'[r] = {}
<1>1. /\ UNCHANGED <<committed, files, kind>> /\ young' \subseteq young
      /\ \A r \in Req : /\ pc'[r] = IF Running(r) \/ pc[r] = "cleanup" THEN "failed" ELSE pc[r]
                        /\ job'[r] = None /\ seen'[r] = None /\ txn'[r] = NothingWritten /\ holds'[r] = {}
      /\ pc' = [r \in Req |-> pc'[r]] /\ holds' = [r \in Req |-> holds'[r]]
      /\ DOMAIN job' = Req /\ DOMAIN seen' = Req /\ DOMAIN txn' = Req
  BY DEF Restart
<1>2. ASSUME NEW r \in Req PROVE Fits(r)' /\ pc'[r] \in Statement
  <2>1. pc'[r] \in Resting \ {"cleanup"}
    BY <1>1 DEF Running, Resting
  <2>2. NothingWritten' = NothingWritten
    BY DEF NothingWritten
  <2> QED
    BY <1>1, <2>1, <2>2 DEF Fits, Running, Resting, SeenFits, TxnFits, Statement, Unwritten
<1>3. TypeOK'
  BY <1>1 DEF TypeInv, TypeOK, committed
<1>4. pc' \in [Req -> Statement] /\ holds' \in [Req -> SUBSET Lock]
  BY <1>1, <1>2
<1>5. kind' \in [Req -> Kinds] /\ young' \subseteq Req
  BY <1>1 DEF TypeInv
<1>6. TypeInv'
  BY <1>1, <1>2, <1>3, <1>4, <1>5 DEF TypeInv
<1> QED
  BY <1>1, <1>6

LEMMA IdleKeeps ==
  ASSUME TypeInv, UNCHANGED <<committed, files, kind, pc, job, seen, txn, holds>>, young' \subseteq young
  PROVE  TypeInv'
<1>1. TypeOK'
  BY DEF TypeInv, TypeOK, committed
<1>2. \A r \in Req : Fits(r)'
  <2>1. ASSUME NEW r \in Req PROVE Fits(r)'
    BY SameFits DEF TypeInv, Mine
  <2> QED
    BY <2>1
<1> QED
  BY <1>1, <1>2 DEF TypeInv

\* A request takes a statement of its handler, or is refused.
Statements(r) ==
  \/ LoadForSave(r) \/ LoadForDelete(r) \/ ReadRows(r) \/ DropRows(r)
  \/ CheckCustomers(r) \/ Post(r) \/ DropEntry(r) \/ CountScope(r)
  \/ LoadRow(r) \/ WriteBill(r) \/ DeleteRow(r)
  \/ LockCustomer(r) \/ CheckTwin(r) \/ InsertRow(r)
  \/ LoadCustomer(r) \/ WriteCustomer(r) \/ DeleteCustomer(r)

LEMMA NextIs ==
  ASSUME [Next]_vars
  PROVE  \/ \E r \in Req :
              \/ Upload(r) \/ DeleteUpload(r) \/ Send(r) \/ Statements(r)
              \/ Commit(r) \/ CleanUp(r) \/ Abort(r)
              \/ \E s \in Scopes : SaveCheckpoint(r, s) \/ DeleteCheckpoint(r, s)
         \/ Restart
         \/ UNCHANGED <<committed, files, kind, pc, job, seen, txn, holds>> /\ young' \subseteq young
BY DEF Next, vars, Statements, Age

LEMMA StatementsKeep ==
  ASSUME TypeInv, NEW r \in Req, Statements(r)
  PROVE  TypeInv'
BY LoadForSaveKeeps, LoadForDeleteKeeps, ReadRowsKeeps, DropRowsKeeps, CheckCustomersKeeps, PostKeeps,
   DropEntryKeeps, CountScopeKeeps, LoadRowKeeps, WriteBillKeeps, DeleteRowKeeps, AddingKeeps,
   LoadCustomerKeeps, WriteCustomerKeeps, DeleteCustomerKeeps DEF Statements

LEMMA NextTyped == TypeInv /\ [Next]_vars => TypeInv'
<1> SUFFICES ASSUME TypeInv, [Next]_vars PROVE TypeInv'
  OBVIOUS
<1>1. ASSUME NEW r \in Req, Upload(r) \/ DeleteUpload(r) PROVE TypeInv'
  BY <1>1, ClientKeeps
<1>2. ASSUME NEW r \in Req, Send(r) PROVE TypeInv'
  BY <1>2, SendKeeps
<1>3. ASSUME NEW r \in Req, Statements(r) PROVE TypeInv'
  BY <1>3, StatementsKeep
<1>4. ASSUME NEW r \in Req, Commit(r) \/ CleanUp(r) \/ Abort(r) PROVE TypeInv'
  BY <1>4, CommitKeeps, CleanUpKeeps, RefuseKeeps DEF Abort
<1>5. ASSUME NEW r \in Req, NEW s \in Scopes, SaveCheckpoint(r, s) \/ DeleteCheckpoint(r, s) PROVE TypeInv'
  <2>1. \E now \in SUBSET Scopes : ByHand(r, now)
    BY <1>5 DEF SaveCheckpoint, DeleteCheckpoint, TypeInv, TypeOK
  <2> QED
    BY <2>1, ByHandKeeps
<1>6. CASE Restart
  BY <1>6, RestartKeeps
<1>7. CASE UNCHANGED <<committed, files, kind, pc, job, seen, txn, holds>> /\ young' \subseteq young
  BY <1>7, IdleKeeps
<1> QED
  BY <1>1, <1>2, <1>3, <1>4, <1>5, <1>6, <1>7, NextIs

THEOREM TypeInvHolds == Spec => []TypeInv
BY InitTyped, NextTyped, PTL DEF Spec

\* Every table, and every request with what it was sent, has read and will write, keeps its
\* type: no charge is for nothing, and no row of an entry exceeds its lines.
THEOREM TypesHold == Spec => []TypeOK
<1>1. TypeInv => TypeOK
  BY DEF TypeInv
<1> QED
  BY <1>1, TypeInvHolds, PTL

-----------------------------------------------------------------------------
(***************************************************************************)
(* Row locks.  Who changes an entry or deletes it has its row locked: a    *)
(* save from when it loads it, a deletion from when it drops it.           *)
(***************************************************************************)
\* A new customer is locked by nobody but his own request.
Shares(k) == k # "addCustomer"

Exclusive ==
  \A q, r \in Req : q # r /\ Shares(kind[q]) /\ Shares(kind[r]) =>
    \A g \in holds[q], h \in holds[r] : g.on = h.on => g.mode = "share" /\ h.mode = "share"

HasRead(r) ==
  /\ kind[r] \in {"save", "deleteEntry"}
  /\ pc[r] \in {"dropRows", "checkCustomers", "post", "dropEntry", "countScope", "commit"}
HasLoaded(r) == HasRead(r) \/ (kind[r] \in {"save", "deleteEntry"} /\ pc[r] = "readRows")

EntryLocked(r) == [on |-> <<"entry", job[r].entry>>, mode |-> "update"] \in holds[r]

LockFits(r) ==
  /\ kind[r] = "save" /\ HasLoaded(r) /\ job[r].entry # r => EntryLocked(r)
  /\ kind[r] = "deleteEntry" /\ pc[r] \in {"countScope", "commit"} => EntryLocked(r)

LockInv == Exclusive /\ \A r \in Req : LockFits(r)

LEMMA ExclusiveStays ==
  ASSUME Exclusive, kind' = kind, NEW r \in Req, \A q \in Req \ {r} : holds'[q] = holds[q],
         \/ holds'[r] \subseteq holds[r]
         \/ ~Shares(kind[r])
         \/ \E on, now : \E mode \in {"share", "update"} :
              now \subseteq on /\ Free(r, on, mode) /\ holds'[r] = With(r, now, mode)
  PROVE  Exclusive'
<1>1. ASSUME NEW q \in Req, q # r, Shares(kind[q]), Shares(kind[r]), NEW g \in holds'[q], NEW h \in holds'[r], g.on = h.on
      PROVE  g.mode = "share" /\ h.mode = "share"
  <2>1. g \in holds[q]
    BY <1>1
  <2>2. CASE h \in holds[r]
    BY <1>1, <2>1, <2>2 DEF Exclusive
  <2>3. CASE h \notin holds[r]
    <3>1. PICK on, now : \E mode \in {"share", "update"} :
              now \subseteq on /\ Free(r, on, mode) /\ holds'[r] = With(r, now, mode)
      BY <1>1, <2>3
    <3>2. PICK mode \in {"share", "update"} :
              now \subseteq on /\ Free(r, on, mode) /\ holds'[r] = With(r, now, mode)
      BY <3>1
    <3>3. h.on \in on /\ h.mode = mode
      BY <1>1, <2>3, <3>2 DEF With
    <3> QED
      BY <1>1, <2>1, <3>2, <3>3 DEF Free
  <2> QED
    BY <2>2, <2>3
<1> QED
  BY <1>1 DEF Exclusive

\* A request that does not move has locked what it had.
LEMMA OthersLock ==
  ASSUME NEW q \in Req, LockFits(q), UNCHANGED Mine(q)
  PROVE  LockFits(q)'
BY DEF Mine, LockFits, HasLoaded, HasRead, EntryLocked

LEMMA RestsLock ==
  ASSUME LockInv, NEW r \in Req, kind' = kind, \A q \in Req \ {r} : UNCHANGED Mine(q),
         holds'[r] \subseteq holds[r], pc'[r] \in Resting \cup {"loadEntry", "loadRow", "lockCustomer",
                                                               "loadCustomer", "writeCustomer"}
  PROVE  LockInv'
<1>1. LockFits(r)'
  BY DEF LockFits, HasLoaded, HasRead, Resting
<1>2. Exclusive'
  BY ExclusiveStays DEF LockInv, Mine
<1> QED
  BY <1>1, <1>2, OthersLock DEF LockInv

\* A statement takes locks that are free, or none, and keeps those it has.
LEMMA GoesLock ==
  ASSUME LockInv, NEW r \in Req, NEW at, NEW read, NEW written, NEW locks,
         Goes(r, at, read, written, locks),
         \/ locks = holds[r]
         \/ ~Shares(kind[r])
         \/ \E on, now : \E mode \in {"share", "update"} :
              now \subseteq on /\ Free(r, on, mode) /\ locks = With(r, now, mode),
         LockFits(r)'
  PROVE  LockInv'
<1>1. /\ kind' = kind /\ (\A q \in Req \ {r} : UNCHANGED Mine(q)) /\ holds'[r] = locks
  BY DEF Goes, QuietStep
<1>2. Exclusive'
  <2>1. \A q \in Req \ {r} : holds'[q] = holds[q]
    BY <1>1 DEF Mine
  <2> QED
    BY <1>1, <2>1, ExclusiveStays DEF LockInv
<1> QED
  BY <1>1, <1>2, OthersLock DEF LockInv

LEMMA RefuseLock ==
  ASSUME TypeInv, LockInv, NEW r \in Req, Refuse(r)
  PROVE  LockInv'
<1>1. QuietStep(r) /\ pc'[r] = "failed" /\ holds'[r] = {}
  BY RefuseKeeps
<1> QED
  BY <1>1, RestsLock DEF QuietStep, Resting

\* What was locked stays so while the request goes on.
LEMMA OnwardLock ==
  ASSUME LockInv, NEW r \in Req, NEW at, NEW read, NEW written, NEW locks,
         Goes(r, at, read, written, locks), holds[r] \subseteq locks,
         kind[r] = "save" => HasLoaded(r),
         kind[r] = "deleteEntry" /\ at \in {"countScope", "commit"} => pc[r] \in {"countScope", "commit"}
  PROVE  LockFits(r)'
<1>1. kind'[r] = kind[r] /\ pc'[r] = at /\ job'[r] = job[r] /\ holds'[r] = locks /\ LockFits(r)
  BY DEF Goes, LockInv
<1>2. EntryLocked(r) => EntryLocked(r)'
  BY <1>1 DEF EntryLocked
<1> QED
  BY <1>1, <1>2 DEF LockFits

LEMMA EntryStatementsLock ==
  ASSUME TypeInv, LockInv, NEW r \in Req,
         \/ LoadForSave(r) \/ LoadForDelete(r) \/ ReadRows(r) \/ DropRows(r)
         \/ CheckCustomers(r) \/ Post(r) \/ DropEntry(r) \/ CountScope(r)
  PROVE  LockInv'
<1>1. CASE LoadForSave(r) /\ ~Refuse(r)
  <2>1. CASE /\ job[r].entry = r /\ kind[r] = "save"
             /\ Goes(r, "checkCustomers", Loaded(None), txn[r], holds[r])
    <3>1. LockFits(r)'
      BY <2>1 DEF Goes, LockFits
    <3> QED
      BY <2>1, <3>1, GoesLock
  <2>2. CASE /\ kind[r] = "save" /\ Free(r, {<<"entry", job[r].entry>>}, "update")
             /\ Goes(r, "readRows", Loaded(entries[job[r].entry]), txn[r],
                     With(r, {<<"entry", job[r].entry>>}, "update"))
    <3> DEFINE on == {<<"entry", job[r].entry>>}
    <3>1. [on |-> <<"entry", job[r].entry>>, mode |-> "update"] \in With(r, on, "update")
      BY DEF With
    <3>2. LockFits(r)'
      BY <2>2, <3>1 DEF Goes, LockFits, EntryLocked
    <3>3. on \subseteq on
      OBVIOUS
    <3> HIDE DEF on
    <3>4. Free(r, on, "update") /\ Goes(r, "readRows", Loaded(entries[job[r].entry]), txn[r], With(r, on, "update"))
      BY <2>2 DEF on
    <3> QED
      BY <3>2, <3>3, <3>4, GoesLock
  <2> QED
    BY <1>1, <2>1, <2>2, LoadForSaveIs
<1>2. CASE (LoadForDelete(r) \/ ReadRows(r) \/ CheckCustomers(r)) /\ ~Refuse(r)
  <2>1. /\ \E at \in {"readRows", "dropRows", "post"} : \E read, written : Goes(r, at, read, written, holds[r])
        /\ kind[r] \in {"save", "deleteEntry"} /\ (kind[r] = "save" => HasLoaded(r))
    BY <1>2, LoadForDeleteIs, ReadRowsIs, CheckCustomersIs DEF HasLoaded, HasRead, ReadRows, CheckCustomers
  <2> QED
    BY <2>1, OnwardLock, GoesLock
<1>3. CASE (DropRows(r) \/ Post(r)) /\ ~Refuse(r)
  <2>1. /\ \E read, written, on : \E at \in {"checkCustomers", "dropEntry", "commit"}, mode \in {"share", "update"} :
             /\ Free(r, on, mode) /\ Goes(r, at, read, written, With(r, on, mode))
             /\ at = "commit" => kind[r] = "save"
        /\ kind[r] \in {"save", "deleteEntry"} /\ (kind[r] = "save" => HasLoaded(r))
    BY <1>3, DropRowsIs, PostIs DEF HasLoaded, HasRead, DropRows, Post
  <2>2. PICK read, written, on : \E at \in {"checkCustomers", "dropEntry", "commit"}, mode \in {"share", "update"} :
             /\ Free(r, on, mode) /\ Goes(r, at, read, written, With(r, on, mode))
             /\ at = "commit" => kind[r] = "save"
    BY <2>1
  <2>3. PICK at \in {"checkCustomers", "dropEntry", "commit"}, mode \in {"share", "update"} :
             /\ Free(r, on, mode) /\ Goes(r, at, read, written, With(r, on, mode))
             /\ at = "commit" => kind[r] = "save"
    BY <2>2
  <2>4. holds[r] \subseteq With(r, on, mode) /\ on \subseteq on
    BY DEF With
  <2>5. LockFits(r)'
    BY <2>1, <2>3, <2>4, OnwardLock
  <2> QED
    BY <2>3, <2>4, <2>5, GoesLock
<1>4. CASE DropEntry(r)
  <2> DEFINE on == {<<"entry", job[r].entry>>} \cup {<<"row", i>> : i \in Sourced(job[r].entry)}
  <2>1. /\ kind[r] = "deleteEntry" /\ Free(r, on, "update")
        /\ Goes(r, "countScope", seen[r], EntryDropped(r), With(r, on, "update"))
    BY <1>4, DropEntryIs
  <2>2. [on |-> <<"entry", job[r].entry>>, mode |-> "update"] \in With(r, on, "update")
    BY DEF With
  <2>3. LockFits(r)'
    BY <2>1, <2>2 DEF Goes, LockFits, EntryLocked
  <2>4. on \subseteq on
    OBVIOUS
  <2> HIDE DEF on
  <2> QED
    BY <2>1, <2>3, <2>4, GoesLock
<1>5. CASE CountScope(r)
  <2>1. /\ \E written : Goes(r, "commit", seen[r], written, holds[r])
        /\ kind[r] = "deleteEntry" /\ pc[r] = "countScope"
    BY <1>5, CountScopeIs DEF CountScope
  <2> QED
    BY <2>1, OnwardLock, GoesLock
<1> QED
  BY <1>1, <1>2, <1>3, <1>4, <1>5, RefuseLock

LEMMA StatementsLock ==
  ASSUME TypeInv, LockInv, NEW r \in Req, Statements(r)
  PROVE  LockInv'
<1>1. ASSUME kind[r] \notin {"save", "deleteEntry"}, NEW at, NEW read, NEW written, NEW locks,
             Goes(r, at, read, written, locks)
      PROVE  LockFits(r)'
  BY <1>1 DEF Goes, LockFits
<1>2. CASE (LoadRow(r) \/ LoadCustomer(r) \/ CheckTwin(r) \/ InsertRow(r)) /\ ~Refuse(r)
  <2>1. /\ kind[r] \in {"attach", "deleteRow", "add", "saveCustomer", "deleteCustomer"}
        /\ \E at, read, written : Goes(r, at, read, written, holds[r])
    BY <1>2, LoadRowIs, LoadCustomerIs, CheckTwinIs, InsertRowIs
  <2> QED
    BY <1>1, <2>1, GoesLock
<1>3. CASE (WriteBill(r) \/ DeleteRow(r) \/ DeleteCustomer(r)) /\ ~Refuse(r)
  <2>1. /\ kind[r] \in {"attach", "deleteRow", "deleteCustomer"}
        /\ \E at, read, written, on : Free(r, on, "update") /\ Goes(r, at, read, written, With(r, on, "update"))
    BY <1>3, WriteBillIs, DeleteRowIs, DeleteCustomerIs
  <2>2. PICK at, read, written, on : Free(r, on, "update") /\ Goes(r, at, read, written, With(r, on, "update"))
    BY <2>1
  <2>3. on \subseteq on
    OBVIOUS
  <2> QED
    BY <1>1, <2>1, <2>2, <2>3, GoesLock
<1>4. CASE LockCustomer(r)
  <2> DEFINE on == IF job[r].cust \in Known THEN {<<"cust", job[r].cust>>} ELSE {}
  <2>1. /\ Free(r, {<<"cust", job[r].cust>>}, "update") /\ kind[r] = "add"
        /\ Goes(r, "checkTwin", seen[r], txn[r], With(r, on, "update"))
    BY <1>4, LockCustomerIs
  <2>2. on \subseteq {<<"cust", job[r].cust>>}
    OBVIOUS
  <2> HIDE DEF on
  <2> QED
    BY <1>1, <2>1, <2>2, GoesLock
<1>5. CASE WriteCustomer(r) /\ ~Refuse(r)
  <2> DEFINE on == {<<"cust", job[r].cust>>}
  <2>1. PICK mode \in {"share", "update"} :
             /\ mode = IF job[r].cust \in Known THEN "share" ELSE "update"
             /\ kind[r] \in {"saveCustomer", "addCustomer"}
             /\ job[r].cust \in Known <=> kind[r] = "saveCustomer"
             /\ Free(r, on, "share")
             /\ Goes(r, "commit", seen[r], CustomerWritten(r), With(r, on, mode))
    BY <1>5, WriteCustomerIs
  <2>2. Shares(kind[r]) => mode = "share"
    BY <2>1 DEF Shares
  <2>3. on \subseteq on /\ kind[r] \notin {"save", "deleteEntry"}
    BY <2>1
  <2> HIDE DEF on
  <2>4. LockFits(r)'
    BY <1>1, <2>1, <2>3
  <2>5. \/ ~Shares(kind[r])
        \/ \E free, now : \E m \in {"share", "update"} :
             now \subseteq free /\ Free(r, free, m) /\ With(r, on, mode) = With(r, now, m)
    BY <2>1, <2>2, <2>3
  <2> QED
    BY <2>1, <2>4, <2>5, GoesLock
<1> QED
  BY <1>2, <1>3, <1>4, <1>5, EntryStatementsLock, RefuseLock DEF Statements

LEMMA InitLock == Init => LockInv
BY DEF Init, LockInv, Exclusive, LockFits, HasLoaded, HasRead

LEMMA NextLock == TypeInv /\ LockInv /\ [Next]_vars => LockInv'
<1> SUFFICES ASSUME TypeInv, LockInv, [Next]_vars PROVE LockInv'
  OBVIOUS
<1>1. ASSUME NEW r \in Req, Upload(r) \/ DeleteUpload(r) PROVE LockInv'
  <2>1. /\ UNCHANGED <<committed, kind, young>> /\ \A q \in Req \ {r} : UNCHANGED Mine(q)
    BY <1>1, ClientKeeps
  <2>2. pc'[r] \in {"ready", "done"} /\ holds' = holds
    BY <1>1 DEF Upload, DeleteUpload, Goto, TypeInv
  <2> QED
    BY <2>1, <2>2, RestsLock DEF Resting
<1>2. ASSUME NEW r \in Req, Send(r) PROVE LockInv'
  <2>1. PICK j : Asks(r, j)
    BY <1>2, SendIs
  <2> QED
    BY <2>1, RestsLock DEF Asks, QuietStep
<1>3. ASSUME NEW r \in Req, CleanUp(r) PROVE LockInv'
  <2>1. QuietStep(r) /\ pc'[r] = "done" /\ holds'[r] = {}
    BY <1>3, CleanUpKeeps, EndIs DEF CleanUp
  <2> QED
    BY <2>1, RestsLock DEF QuietStep, Resting
<1>4. ASSUME NEW r \in Req, Commit(r) PROVE LockInv'
  <2>1. kind' = kind /\ pc'[r] = "cleanup" /\ holds'[r] = {} /\ \A q \in Req \ {r} : UNCHANGED Mine(q)
    BY <1>4, CommitCloses DEF Closes
  <2> QED
    BY <2>1, RestsLock DEF Resting
<1>5. ASSUME NEW r \in Req, NEW s \in Scopes, SaveCheckpoint(r, s) \/ DeleteCheckpoint(r, s) PROVE LockInv'
  <2>1. PICK now \in SUBSET Scopes : ByHand(r, now)
    BY <1>5 DEF SaveCheckpoint, DeleteCheckpoint, TypeInv, TypeOK
  <2>2. kind' = kind /\ \A q \in Req \ {r} : UNCHANGED Mine(q)
    BY <2>1, ByHandKeeps
  <2>3. pc'[r] = "done" /\ holds' = holds
    BY <2>1 DEF ByHand, Goto, TypeInv
  <2> QED
    BY <2>2, <2>3, RestsLock DEF Resting
<1>6. CASE Restart
  <2>1. /\ kind' = kind
        /\ \A r \in Req : holds'[r] = {} /\ pc'[r] = IF Running(r) \/ pc[r] = "cleanup" THEN "failed" ELSE pc[r]
    BY <1>6, RestartKeeps
  <2> QED
    BY <2>1 DEF LockInv, Exclusive, LockFits, HasLoaded, HasRead, Running
<1>7. CASE UNCHANGED <<committed, files, kind, pc, job, seen, txn, holds>> /\ young' \subseteq young
  BY <1>7 DEF LockInv, Exclusive, LockFits, HasLoaded, HasRead, EntryLocked
<1> QED
  BY <1>1, <1>2, <1>3, <1>4, <1>5, <1>6, <1>7, NextIs, StatementsLock, RefuseLock DEF Abort

\* No two requests change one entry, or one deletes it while the other saves it, at a time.
THEOREM LocksHold == Spec => []LockInv
BY InitTyped, NextTyped, InitLock, NextLock, PTL DEF Spec

-----------------------------------------------------------------------------
(***************************************************************************)
(* What each request goes by while it is under way, whoever is beside it,  *)
(* and what more it can count on when clients avoid an overlap.            *)
(***************************************************************************)
Over(r) == pc[r] \in {"cleanup", "done", "failed"}

\* What a request makes is not there before it is committed.
NothingYet ==
  \A r \in Req : ~Over(r) => entries[r] = None /\ custs[r] = None /\ \A i \in Rows : i[1] # r

SourcesOld ==
  /\ \A i \in Rows : ledger[i].src \in Req => Over(ledger[i].src)
  /\ \A d \in dues : d.src \in Req => Over(d.src)

NoClash == \A q, r \in Req : q # r /\ job[q] # None /\ job[r] # None => ~Clash(job[q], job[r])

DuesOf(e) == {d \in dues : d.src = e}
BillsByCustomer(e) == [c \in Customers |-> BillsOf(Sourced(e) \cap OfCustomer(c))]

\* What a request is about was there when it was sent.
JobOld(r) ==
  Running(r) =>
    /\ job[r].entry \in Req \ {r} => Over(job[r].entry)
    /\ kind[r] # "save" => job[r].entry # r
    /\ kind[r] = "saveCustomer" /\ job[r].cust \in Req \ {r} => Over(job[r].cust)
    /\ kind[r] = "addCustomer" => job[r].cust = r
    /\ kind[r] \in {"attach", "deleteRow"} /\ job[r].row[1] \in Req => Over(job[r].row[1])
    /\ HasRead(r) => \A i \in seen[r].rows : i[1] \in Req => Over(i[1])

\* The lines of the form, but for names that are not known.
LinesSent(r) ==
  \A i \in DOMAIN seen[r].lines :
    \/ seen[r].lines[i] = job[r].form.lines[i]
    \/ seen[r].lines[i] = [job[r].form.lines[i] EXCEPT !.who = None]

\* A deletion that does not know of an entry's newest rows leaves them without a source.
Lost == IF "delete" \in Avoid THEN {} ELSE {None}

SaveFits(r) ==
  kind[r] = "save" /\ Running(r) =>
    LET e == job[r].entry IN
    /\ e = r => job[r].bills \subseteq Stale \cup {r}
    /\ e # r /\ {"delete", "forms"} \subseteq Avoid =>
         entries[e] # None /\ job[r].bills \subseteq entries[e].bills \cup Stale \cup {r}
    /\ HasLoaded(r) =>
         /\ MayBeSaved(job[r].form)
         /\ e = r => seen[r].entry = None
         /\ e # r => /\ seen[r].entry # None /\ entries[e] # None
                     /\ seen[r].entry.bills = entries[e].bills
    /\ HasRead(r) =>
         /\ seen[r].due = DuesOf(e) /\ Sourced(e) = seen[r].rows \cap Rows
         /\ "customer" \in Avoid => seen[r].rows \subseteq Rows
         /\ "attach" \in Avoid =>
              \A c \in Customers : \/ Sourced(e) \cap OfCustomer(c) = {} /\ "customer" \notin Avoid
                                   \/ seen[r].bills[c] = BillsByCustomer(e)[c]
    /\ pc[r] \in {"post", "commit"} => LinesSent(r)

DeleteFits(r) ==
  kind[r] = "deleteEntry" /\ Running(r) =>
    LET e == job[r].entry
        s == job[r].scope
    IN
    /\ HasRead(r) =>
         /\ \A i \in seen[r].rows \cap Rows : ledger[i].src \in {e} \cup Lost
         /\ \A d \in seen[r].due : d.src = e
    /\ "delete" \in Avoid =>
         /\ entries[e] # None => entries[e].scope = s
         /\ HasLoaded(r) => seen[r].entry.scope = s
         /\ HasRead(r) => Sourced(e) \subseteq seen[r].rows /\ DuesOf(e) \subseteq seen[r].due
         /\ pc[r] = "commit" =>
              /\ txn[r].log \subseteq {s}
              /\ IF LeftInScope(e, s) = {} THEN s \notin checkpoints \ txn[r].log ELSE txn[r].log = {}

RowFits(r) ==
  kind[r] \in {"attach", "deleteRow"} /\ Running(r) =>
    /\ job[r].row \in Rows => ledger[job[r].row].src \in {job[r].entry} \cup Lost
    /\ kind[r] = "deleteRow" /\ pc[r] \in {"writeRow", "commit"} =>
         /\ job[r].row \in Rows => ledger[job[r].row].src = None
         /\ "delete" \in Avoid => job[r].entry = None

CustomerFits(r) ==
  "customer" \in Avoid /\ kind[r] = "deleteCustomer" /\ pc[r] \in {"writeCustomer", "commit"} =>
    MayGo(job[r].cust)

Right(r) == JobOld(r) /\ SaveFits(r) /\ DeleteFits(r) /\ RowFits(r) /\ CustomerFits(r)

Inv ==
  /\ TypeInv /\ NothingYet /\ SourcesOld /\ NoClash
  /\ \A r \in Req : Right(r)
-----------------------------------------------------------------------------
(***************************************************************************)
(* What a commit leaves as it was                                          *)
(***************************************************************************)
\* A customer that is deleted takes charges of entries along, if one was made meanwhile.
Takes(q, c) == kind[q] = "deleteCustomer" /\ c = job[q].cust /\ "customer" \notin Avoid

\* A row is still what it was but for its bill, or has lost its source with its entry, or is
\* new and made by q.
RowMoves(q, i) ==
  /\ i \in Rows' =>
       \/ /\ i \in Rows /\ ledger'[i].cust = ledger[i].cust
          /\ ledger'[i].type = ledger[i].type /\ ledger'[i].amount = ledger[i].amount
          /\ \/ ledger'[i].src = ledger[i].src
             \/ kind[q] = "deleteEntry" /\ ledger[i].src = job[q].entry /\ ledger'[i].src \in Lost
          /\ ledger'[i].bill # ledger[i].bill =>
               kind[q] = "attach" /\ i = job[q].row /\ ledger[i].src \in {job[q].entry} \cup Lost
       \/ /\ i \notin Rows /\ i[1] = q
          /\ \/ kind[q] = "save" /\ ledger'[i].src = job[q].entry
             \/ kind[q] = "add" /\ ledger'[i].src = None
  /\ i \in Rows /\ i \notin Rows' =>
       \/ ledger[i].src = None
       \/ kind[q] \in {"save", "deleteEntry"} /\ ledger[i].src = job[q].entry
       \/ Takes(q, ledger[i].cust)

LEMMA RowsMove ==
  ASSUME Inv, NEW q \in Req, Commit(q), NEW i \in RowIds
  PROVE  RowMoves(q, i)
<1>1. TypeInv /\ Right(q) /\ Running(q) /\ pc[q] = "commit" /\ ~Over(q)
  BY CommitCloses DEF Inv, Over, Commit
<1>2. ledger \in [RowIds -> Charge \cup {None}] /\ None \notin Charge
  BY <1>1, IdsAreDistinct DEF TypeInv, TypeOK
<1>3. \A j \in Rows : j[1] # q
  BY <1>1 DEF Inv, NothingYet
<1>4. CASE kind[q] = "save"
  <2>1. /\ Sourced(job[q].entry) = seen[q].rows \cap Rows /\ HasRead(q)
    BY <1>1, <1>4 DEF Right, SaveFits, HasRead
  <2>2. ledger'[i] = IF i \in DOMAIN Charges(q) THEN Charges(q)[i]
                     ELSE IF i \in seen[q].rows THEN None ELSE ledger[i]
    BY <1>1, <1>4, CommitSave
  <2>3. i \in DOMAIN Charges(q) => i[1] = q /\ Charges(q)[i] \in Charge /\ Charges(q)[i].src = job[q].entry
    <3> DEFINE x == NewEntry(q)
               bill(n) == CarriedBill(x, n, seen[q].bills)
    <3>1. ASSUME NEW row \in DOMAIN Charges(q)
          PROVE  /\ row = <<q, row[2]>> /\ Charges(q)[row] \in Charge
                 /\ Charges(q)[row] = [cust |-> x.lines[row[2]].who, type |-> "credit",
                                       amount |-> x.lines[row[2]].amount,
                                       src |-> job[q].entry, bill |-> bill(row[2])]
      BY <1>1, <1>4, ChargesAre
    <3> HIDE DEF bill, x
    <3> QED
      BY <3>1
  <2>4. i \in seen[q].rows /\ i \in Rows => ledger[i].src = job[q].entry
    BY <2>1 DEF Sourced
  <2> QED
    BY <1>2, <1>3, <1>4, <2>2, <2>3, <2>4 DEF RowMoves, Rows
<1>5. CASE kind[q] = "deleteEntry"
  <2>1. /\ HasRead(q) /\ Lost \subseteq {None}
        /\ \A j \in seen[q].rows \cap Rows : ledger[j].src \in {job[q].entry} \cup Lost
        /\ Lost = {} => Sourced(job[q].entry) \subseteq seen[q].rows
    BY <1>1, <1>5 DEF Right, DeleteFits, HasRead, Lost
  <2>2. ledger'[i] = IF i \in seen[q].rows \/ ledger[i] = None THEN None
                     ELSE IF ledger[i].src = job[q].entry THEN [ledger[i] EXCEPT !.src = None]
                     ELSE ledger[i]
    BY <1>1, <1>5, CommitDeleteEntry
  <2>3. i \in Rows => ledger[i] \in Charge
    BY <1>2 DEF Rows
  <2>4. CASE i \notin seen[q].rows /\ i \in Rows /\ ledger[i].src = job[q].entry
    <3>1. i \in Rows /\ ledger'[i] = [ledger[i] EXCEPT !.src = None]
      BY <2>2, <2>4 DEF Rows
    <3>2. ledger'[i] \in Charge
      BY <2>3, <3>1 DEF Charge
    <3>3. /\ ledger'[i].src = None /\ ledger'[i].cust = ledger[i].cust /\ ledger'[i].type = ledger[i].type
          /\ ledger'[i].amount = ledger[i].amount /\ ledger'[i].bill = ledger[i].bill
      BY <2>3, <3>1 DEF Charge
    <3>4. None \in Lost
      BY <2>1, <2>4 DEF Sourced, Lost
    <3> QED
      BY <1>2, <1>5, <2>4, <3>1, <3>2, <3>3, <3>4 DEF RowMoves, Rows
  <2>5. CASE ~(i \notin seen[q].rows /\ i \in Rows /\ ledger[i].src = job[q].entry)
    <3>1. ledger'[i] = IF i \in seen[q].rows \/ ledger[i] = None THEN None ELSE ledger[i]
      BY <2>2, <2>5 DEF Rows
    <3> QED
      BY <1>2, <1>5, <2>1, <3>1 DEF RowMoves, Rows
  <2> QED
    BY <2>4, <2>5
<1>6. CASE kind[q] = "attach"
  <2>1. ledger'[i] = IF i = job[q].row /\ ledger[i] # None /\ NewBill(q) # seen[q]
                     THEN [ledger[i] EXCEPT !.bill = NewBill(q)] ELSE ledger[i]
    BY <1>1, <1>6, CommitAttach
  <2>2. i = job[q].row /\ i \in Rows => ledger[i].src \in {job[q].entry} \cup Lost
    BY <1>1, <1>6 DEF Right, RowFits
  <2>3. i \in Rows => ledger[i] \in Charge
    BY <1>2 DEF Rows
  <2>4. i \in Rows => /\ [ledger[i] EXCEPT !.bill = NewBill(q)].src = ledger[i].src
                      /\ [ledger[i] EXCEPT !.bill = NewBill(q)].cust = ledger[i].cust
                      /\ [ledger[i] EXCEPT !.bill = NewBill(q)].type = ledger[i].type
                      /\ [ledger[i] EXCEPT !.bill = NewBill(q)].amount = ledger[i].amount
    BY <2>3 DEF Charge
  <2>5. [ledger[i] EXCEPT !.bill = NewBill(q)] = None => i \notin Rows
    <3>1. NewBill(q) \in Keys \cup {None}
      BY FreshIs DEF NewBill
    <3>2. i \in Rows => [ledger[i] EXCEPT !.bill = NewBill(q)] \in Charge
      BY <2>3, <3>1 DEF Charge
    <3> QED
      BY <1>2, <3>2
  <2> QED
    BY <1>6, <2>1, <2>2, <2>4, <2>5 DEF RowMoves, Rows
<1>7. CASE kind[q] = "deleteRow"
  <2>1. ledger'[i] = IF i = job[q].row THEN None ELSE ledger[i]
    BY <1>1, <1>2, <1>7, CommitDeleteRow
  <2>2. job[q].row \in Rows => ledger[job[q].row].src = None
    BY <1>1, <1>7 DEF Right, RowFits
  <2> QED
    BY <1>7, <2>1, <2>2 DEF RowMoves, Rows
<1>8. CASE kind[q] = "add"
  <2>1. ledger'[i] = IF i = <<q, 1>> THEN Added(q) ELSE ledger[i]
    BY <1>1, <1>2, <1>8, CommitAdd
  <2>2. Added(q).src = None /\ Added(q) \in Charge
    BY <1>1, <1>8, CommitAdd DEF Added
  <2> QED
    BY <1>2, <1>3, <1>8, <2>1, <2>2 DEF RowMoves, Rows
<1>9. CASE kind[q] \in {"saveCustomer", "addCustomer"}
  BY <1>1, <1>9, CommitCustomer DEF RowMoves, Rows
<1>10. CASE kind[q] = "deleteCustomer"
  <2>1. ledger'[i] = IF ledger[i] # None /\ ledger[i].cust = job[q].cust THEN None ELSE ledger[i]
    BY <1>1, <1>10, CommitDeleteCustomer
  <2>2. "customer" \in Avoid => MayGo(job[q].cust)
    BY <1>1, <1>10 DEF Right, CustomerFits
  <2>3. i \in Rows /\ ledger[i].cust = job[q].cust => ledger[i].src = None \/ Takes(q, ledger[i].cust)
    BY <1>10, <2>2 DEF MayGo, OfCustomer, Takes
  <2> QED
    BY <1>10, <2>1, <2>3 DEF RowMoves, Rows
<1> QED
  BY <1>1, <1>4, <1>5, <1>6, <1>7, <1>8, <1>9, <1>10, CommitKeeps

LEMMA EntriesMove ==
  ASSUME Inv, NEW q \in Req, Commit(q), NEW e \in EntryIds,
         kind[q] \in {"save", "deleteEntry"} => job[q].entry # e
  PROVE  \/ entries'[e] = entries[e]
         \/ /\ kind[q] = "deleteCustomer" /\ entries[e] # None
            /\ entries'[e] = EntryWithout(job[q].cust, entries[e])
<1>1. TypeInv
  BY DEF Inv
<1>2. entries \in [EntryIds -> Entry \cup {None}]
  BY <1>1 DEF TypeInv, TypeOK
<1>3. CASE kind[q] = "save"
  BY <1>1, <1>2, <1>3, CommitSave
<1>4. CASE kind[q] = "deleteEntry"
  BY <1>1, <1>2, <1>4, CommitDeleteEntry
<1>5. CASE kind[q] \in {"attach", "deleteRow", "add", "saveCustomer", "addCustomer"}
  BY <1>1, <1>5, CommitAttach, CommitDeleteRow, CommitAdd, CommitCustomer
<1>6. CASE kind[q] = "deleteCustomer"
  BY <1>1, <1>6, CommitDeleteCustomer
<1> QED
  BY <1>1, <1>3, <1>4, <1>5, <1>6, CommitKeeps

\* An entry that a commit does not write stays, in its scope and with its bills.
LEMMA EntryStays ==
  ASSUME Inv, NEW q \in Req, Commit(q), NEW e \in EntryIds,
         kind[q] \in {"save", "deleteEntry"} => job[q].entry # e
  PROVE  /\ entries'[e] # None <=> entries[e] # None
         /\ entries[e] # None => entries'[e].scope = entries[e].scope /\ entries'[e].bills = entries[e].bills
<1>1. entries[e] \in Entry \cup {None} /\ None \notin Entry
  BY IdsAreDistinct DEF Inv, TypeInv, TypeOK
<1>2. CASE entries'[e] = entries[e]
  BY <1>2
<1>3. CASE entries[e] # None /\ entries'[e] = EntryWithout(job[q].cust, entries[e])
  <2>1. EntryWithout(job[q].cust, entries[e]) \in Entry
    BY <1>1, <1>3, WithoutFits
  <2>2. /\ EntryWithout(job[q].cust, entries[e]).scope = entries[e].scope
        /\ EntryWithout(job[q].cust, entries[e]).bills = entries[e].bills
    BY <1>1, <1>3 DEF EntryWithout, Entry
  <2> QED
    BY <1>1, <1>3, <2>1, <2>2
<1> QED
  BY <1>2, <1>3, EntriesMove

\* Only a save moves an entry to another scope, or makes one.
LEMMA ScopesMove ==
  ASSUME Inv, NEW q \in Req, Commit(q), NEW e \in EntryIds, entries'[e] # None
  PROVE  \/ entries[e] # None /\ entries'[e].scope = entries[e].scope
         \/ kind[q] = "save" /\ job[q].entry = e /\ entries'[e].scope = job[q].scope
<1>1. TypeInv /\ DOMAIN entries = EntryIds
  BY DEF Inv, TypeInv, TypeOK
<1>2. CASE kind[q] = "save" /\ job[q].entry = e
  <2>1. seen[q] \in EntryRead /\ entries' = [entries EXCEPT ![e] = NewEntry(q)] /\ Running(q)
    BY <1>1, <1>2, CommitSave
  <2>2. entries'[e] = NewEntry(q) /\ NewEntry(q).scope = job[q].scope
    BY <1>1, <1>2, <2>1, NewEntryIs
  <2> QED
    BY <1>2, <2>2
<1>3. CASE kind[q] = "deleteEntry" /\ job[q].entry = e
  BY <1>1, <1>3, CommitDeleteEntry
<1> QED
  BY <1>2, <1>3, EntryStays

LEMMA DuesMove ==
  ASSUME Inv, NEW q \in Req, Commit(q)
  PROVE  /\ \A e \in EntryIds :
              (kind[q] \in {"save", "deleteEntry"} => job[q].entry # e) => DuesOf(e)' = DuesOf(e)
         /\ kind[q] = "save" => {d \in dues' : d.src = job[q].entry} = NewDues(q)
         /\ kind[q] = "deleteEntry" => {d \in dues' : d.src = job[q].entry} = {}
<1>1. TypeInv /\ Right(q) /\ Running(q) /\ pc[q] = "commit"
  BY CommitCloses DEF Inv, Commit
<1>2. None \notin EntryIds /\ \A u \in Due : [u EXCEPT !.src = None].src = None
  BY IdsAreDistinct DEF Due
<1>3. ASSUME kind[q] \in {"save", "deleteEntry"}
      PROVE  /\ seen[q].due \subseteq Due /\ (\A u \in seen[q].due : u.src = job[q].entry)
             /\ job[q].entry \in EntryIds
             /\ kind[q] = "save" => DuesOf(job[q].entry) \subseteq seen[q].due
  <2>1. job[q].entry \in EntryIds /\ seen[q] \in EntryRead
    BY <1>1, <1>3, CommitSave, CommitDeleteEntry
  <2>2. seen[q].due \subseteq Due
    BY <2>1 DEF EntryRead
  <2> QED
    BY <1>1, <1>3, <2>1, <2>2 DEF Right, SaveFits, DeleteFits, HasRead, DuesOf
<1>4. ASSUME kind[q] \in {"save", "deleteEntry"}, NEW d \in dues, d.src \in EntryIds \ {job[q].entry}
      PROVE  d \in DuesLeft(q)
  BY <1>2, <1>3, <1>4 DEF DuesLeft
<1>5. CASE kind[q] = "save"
  <2>1. dues' = DuesLeft(q) \cup NewDues(q) /\ \A d \in NewDues(q) : d.src = job[q].entry
    BY <1>1, <1>5, CommitSave, NewDuesAre
  <2>2. DuesLeft(q) \subseteq dues /\ \A d \in DuesLeft(q) : d.src # job[q].entry
    BY <1>3, <1>5 DEF DuesLeft, DuesOf
  <2>3. {d \in dues' : d.src = job[q].entry} = NewDues(q)
    BY <2>1, <2>2
  <2>4. ASSUME NEW e \in EntryIds, job[q].entry # e PROVE DuesOf(e)' = DuesOf(e)
    BY <1>4, <1>5, <2>1, <2>2, <2>4 DEF DuesOf
  <2> QED
    BY <1>5, <2>3, <2>4
<1>6. CASE kind[q] = "deleteEntry"
  <2> DEFINE bare(d) == IF d.src = job[q].entry THEN [d EXCEPT !.src = None] ELSE d
  <2>1. dues' = {bare(d) : d \in DuesLeft(q)}
    BY <1>1, <1>6, CommitDeleteEntry
  <2>2. DuesLeft(q) \subseteq dues /\ dues \subseteq Due
    BY <1>1 DEF DuesLeft, TypeInv, TypeOK
  <2>3. ASSUME NEW d \in DuesLeft(q) PROVE IF d.src = job[q].entry THEN bare(d).src = None ELSE bare(d) = d
    BY <1>2, <2>2
  <2>4. {d \in dues' : d.src = job[q].entry} = {}
    BY <1>2, <1>3, <1>6, <2>1, <2>3
  <2>5. ASSUME NEW e \in EntryIds, job[q].entry # e PROVE DuesOf(e)' = DuesOf(e)
    <3>1. ASSUME NEW d \in dues, d.src = e PROVE d \in dues'
      <4>1. d \in DuesLeft(q) /\ bare(d) = d
        BY <1>4, <1>6, <2>5, <3>1
      <4> HIDE DEF bare
      <4> QED
        BY <2>1, <4>1
    <3>2. ASSUME NEW d \in dues', d.src = e PROVE d \in dues
      <4>1. PICK x \in DuesLeft(q) : d = bare(x)
        BY <2>1
      <4>2. x.src # job[q].entry
        BY <1>2, <2>3, <2>5, <3>2, <4>1
      <4> QED
        BY <2>2, <4>1, <4>2
    <3> QED
      BY <3>1, <3>2 DEF DuesOf
  <2> QED
    BY <1>6, <2>4, <2>5
<1>7. CASE kind[q] \notin {"save", "deleteEntry"}
  <2>1. dues' = dues
    BY <1>1, <1>7, CommitAttach, CommitDeleteRow, CommitAdd, CommitCustomer, CommitDeleteCustomer, CommitKeeps
  <2> QED
    BY <1>7, <2>1 DEF DuesOf
<1> QED
  BY <1>5, <1>6, <1>7

\* What an entry has made stays with it when a commit does not write the entry, but for what
\* a customer takes along.
LEMMA SourcesStay ==
  ASSUME Inv, NEW q \in Req, Commit(q), NEW e \in EntryIds,
         kind[q] \in {"save", "deleteEntry"} => job[q].entry # e
  PROVE  /\ Sourced(e)' = Sourced(e) \cap Rows'
         /\ \A i \in Sourced(e)' : /\ ledger'[i].cust = ledger[i].cust /\ ledger'[i].type = ledger[i].type
                                   /\ ledger'[i].amount = ledger[i].amount
         /\ \A i \in Sourced(e) \ Rows' : Takes(q, ledger[i].cust)
         /\ \A c \in Customers : (Sourced(e) \cap OfCustomer(c))' \subseteq Sourced(e) \cap OfCustomer(c)
         /\ ~(kind[q] = "attach" /\ job[q].entry = e) =>
              /\ \A i \in Sourced(e)' : ledger'[i].bill = ledger[i].bill
              /\ \A c \in Customers : Takes(q, c) \/ BillsByCustomer(e)'[c] = BillsByCustomer(e)[c]
<1>1. e # None /\ Rows \subseteq RowIds /\ Rows' \subseteq RowIds /\ Lost \subseteq {None}
  BY IdsAreDistinct DEF Rows, Lost
<1>2. \A i \in RowIds : RowMoves(q, i)
  BY RowsMove
<1>3. Sourced(e)' = Sourced(e) \cap Rows'
  <2>1. ASSUME NEW i \in Sourced(e), i \in Rows' PROVE ledger'[i].src = e
    BY <1>1, <1>2, <2>1 DEF RowMoves, Sourced
  <2>2. ASSUME NEW i \in Rows', ledger'[i].src = e PROVE i \in Sourced(e)
    BY <1>1, <1>2, <2>2 DEF RowMoves, Sourced
  <2> QED
    BY <2>1, <2>2 DEF Sourced
<1>4. \A i \in Sourced(e)' : /\ ledger'[i].cust = ledger[i].cust /\ ledger'[i].type = ledger[i].type
                             /\ ledger'[i].amount = ledger[i].amount
  BY <1>1, <1>2, <1>3 DEF RowMoves, Sourced
<1>5. \A i \in Sourced(e) \ Rows' : Takes(q, ledger[i].cust)
  BY <1>1, <1>2 DEF RowMoves, Sourced
<1>6. ASSUME NEW c \in Customers
      PROVE  /\ (Sourced(e) \cap OfCustomer(c))' \subseteq Sourced(e) \cap OfCustomer(c)
             /\ Takes(q, c) \/ (Sourced(e) \cap OfCustomer(c))' = Sourced(e) \cap OfCustomer(c)
  BY <1>3, <1>4, <1>5 DEF Sourced, OfCustomer
<1>7. ASSUME ~(kind[q] = "attach" /\ job[q].entry = e) PROVE \A i \in Sourced(e)' : ledger'[i].bill = ledger[i].bill
  BY <1>1, <1>2, <1>3, <1>7 DEF RowMoves, Sourced
<1>8. ASSUME ~(kind[q] = "attach" /\ job[q].entry = e), NEW c \in Customers, ~Takes(q, c)
      PROVE  BillsByCustomer(e)'[c] = BillsByCustomer(e)[c]
  <2> DEFINE S == Sourced(e) \cap OfCustomer(c)
  <2>1. S' = S
    BY <1>6, <1>8
  <2>2. \A i \in S : ledger'[i].bill = ledger[i].bill
    BY <1>3, <1>7, <1>8, <2>1
  <2>3. BillsOf(S)' = {ledger'[i].bill : i \in S} \ {None}
    BY <2>1 DEF BillsOf
  <2>4. BillsOf(S) = {ledger[i].bill : i \in S} \ {None}
    BY DEF BillsOf
  <2>5. BillsOf(S)' = BillsOf(S)
    BY <2>2, <2>3, <2>4
  <2> QED
    BY <2>5 DEF BillsByCustomer
<1> QED
  BY <1>3, <1>4, <1>5, <1>6, <1>7, <1>8

LEMMA HasJob ==
  ASSUME TypeInv, NEW r \in Req, Running(r)
  PROVE  job[r] # None /\ job[r] \in Sent
<1>1. job[r] \in JobOf(kind[r]) /\ kind[r] \in Kinds
  BY AtStatement
<1>2. Req \subseteq Keys
  BY DEF Keys
<1>3. JobOf(kind[r]) \subseteq Sent
  <2>1. CASE kind[r] \in {"save", "deleteEntry"}
    BY <1>1, <1>2, <2>1 DEF JobOf, Sent
  <2>2. CASE kind[r] \in {"attach", "deleteRow"}
    BY <1>1, <1>2, <2>2 DEF JobOf, Sent
  <2>3. CASE kind[r] = "add"
    BY <1>1, <1>2, <2>3 DEF JobOf, Sent, Payment
  <2>4. CASE kind[r] \notin {"save", "deleteEntry", "attach", "deleteRow", "add"}
    BY <1>1, <1>2, <2>4 DEF JobOf, Sent
  <2> QED
    BY <2>1, <2>2, <2>3, <2>4
<1> QED
  BY <1>1, <1>3, IdsAreDistinct

LEMMA CommitIs ==
  ASSUME Inv, NEW q \in Req, Commit(q)
  PROVE  /\ TypeInv /\ Right(q) /\ TypeInv'
         /\ \A x \in Req : Over(x)' <=> Over(x) \/ x = q
         /\ ~Over(q) /\ Running(q) /\ pc[q] = "commit" /\ job[q] # None
         /\ \A x \in Req \ {q} : UNCHANGED Mine(x)
<1>1. TypeInv /\ Closes(q) /\ Running(q) /\ job[q] # None /\ TypeInv' /\ Right(q)
  BY CommitCloses, CommitKeeps, HasJob DEF Inv
<1> QED
  BY <1>1 DEF Closes, Mine, Over


\* What two requests that are under way are not both about, when clients avoid it.
LEMMA Apart ==
  ASSUME Inv, NEW q \in Req, NEW r \in Req, q # r, Running(q), Running(r)
  PROVE  /\ "attach" \in Avoid /\ kind[r] = "save" /\ kind[q] = "attach" => job[q].entry # job[r].entry
         /\ "delete" \in Avoid /\ kind[r] = "deleteEntry" /\ kind[q] = "save" =>
              /\ job[q].scope # job[r].scope
              /\ entries[job[q].entry] # None =>
                   job[q].entry # job[r].entry /\ entries[job[q].entry].scope # job[r].scope
         /\ "delete" \in Avoid /\ kind[r] = "deleteEntry" /\ kind[q] = "deleteEntry"
              /\ job[q].entry # job[r].entry => job[q].scope # job[r].scope
         /\ "forms" \in Avoid /\ kind[r] = "save" /\ kind[q] = "save" => job[q].entry # job[r].entry
         /\ "forms" \in Avoid /\ kind[r] = "saveCustomer" /\ kind[q] = "saveCustomer" =>
              job[q].cust # job[r].cust
         /\ "customer" \in Avoid /\ kind[r] = "deleteCustomer" /\ kind[q] = "save" =>
              \A i \in DOMAIN job[q].form.lines : job[q].form.lines[i].who # job[r].cust
<1>1. /\ TypeInv /\ job[q] # None /\ job[r] # None /\ job[q].op = kind[q] /\ job[r].op = kind[r]
      /\ ~Over(q) /\ ~Over(r)
  BY HasJob, JobIs DEF Inv, Running, Over
<1>2. ~Unsafe(job[q], job[r]) /\ ~Unsafe(job[r], job[q])
  BY <1>1 DEF Inv, NoClash, Clash
<1>3. ASSUME "delete" \in Avoid, kind[r] = "deleteEntry", kind[q] = "save"
      PROVE  /\ job[q].scope # job[r].scope
             /\ entries[job[q].entry] # None =>
                  job[q].entry # job[r].entry /\ entries[job[q].entry].scope # job[r].scope
  <2>1. job[r].scope \notin Touches(job[q])
    BY <1>1, <1>2, <1>3 DEF Unsafe, DeleteClash
  <2>2. job[q].entry \in EntryIds
    BY <1>1, <1>3, JobIs
  <2>3. entries[job[q].entry] # None => entries[job[q].entry].scope # job[r].scope
    BY <2>1, <2>2 DEF Touches, OnRecord
  <2>4. Right(r)
    BY DEF Inv
  <2>5. entries[job[r].entry] # None => entries[job[r].entry].scope = job[r].scope
    BY <1>3, <2>4 DEF Right, DeleteFits
  <2> QED
    BY <2>1, <2>3, <2>5 DEF Touches
<1>4. "attach" \in Avoid /\ kind[r] = "save" /\ kind[q] = "attach" => job[q].entry # job[r].entry
  BY <1>1, <1>2 DEF Unsafe, AttachClash
<1>5. "delete" \in Avoid /\ kind[r] = "deleteEntry" /\ kind[q] = "deleteEntry"
        /\ job[q].entry # job[r].entry => job[q].scope # job[r].scope
  BY <1>1, <1>2 DEF Unsafe, DeleteClash
<1>6. /\ "forms" \in Avoid /\ kind[r] = "save" /\ kind[q] = "save" => job[q].entry # job[r].entry
      /\ "forms" \in Avoid /\ kind[r] = "saveCustomer" /\ kind[q] = "saveCustomer" => job[q].cust # job[r].cust
  BY <1>1, <1>2 DEF Unsafe, FormsClash
<1>7. "customer" \in Avoid /\ kind[r] = "deleteCustomer" /\ kind[q] = "save" =>
        \A i \in DOMAIN job[q].form.lines : job[q].form.lines[i].who # job[r].cust
  BY <1>1, <1>2 DEF Unsafe, CustomerClash
<1> QED
  BY <1>3, <1>4, <1>5, <1>6, <1>7

\* A save that has loaded its entry has it to itself until its end.
LEMMA Alone ==
  ASSUME Inv, LockInv, NEW q \in Req, Commit(q), NEW r \in Req \ {q}, Running(r), kind[r] = "save",
         HasLoaded(r), kind[q] \in {"save", "deleteEntry"}
  PROVE  job[q].entry # job[r].entry
<1>1. TypeInv /\ Right(q) /\ Right(r) /\ Running(q) /\ pc[q] = "commit" /\ ~Over(q) /\ ~Over(r)
  BY CommitIs DEF Inv, Over, Running
<1>2. SUFFICES ASSUME job[q].entry = job[r].entry PROVE FALSE
  OBVIOUS
<1>3. job[q].entry # r /\ job[r].entry # q
  BY <1>1, <1>2 DEF Right, JobOld
<1>4. EntryLocked(q) /\ EntryLocked(r)
  BY <1>1, <1>2, <1>3 DEF LockInv, LockFits, HasLoaded, HasRead
<1> QED
  BY <1>2, <1>4 DEF LockInv, Exclusive, Shares, EntryLocked

\* The commit of q leaves to r all that r goes by.
LEMMA OldStays ==
  ASSUME Inv, NEW q \in Req, Commit(q), NEW r \in Req \ {q}, Running(r)
  PROVE  JobOld(r)' /\ RowFits(r)'
<1>1. /\ kind'[r] = kind[r] /\ pc'[r] = pc[r] /\ job'[r] = job[r] /\ seen'[r] = seen[r]
      /\ \A x \in Req : Over(x) => Over(x)'
      /\ ~Over(q) /\ Right(r) /\ TypeInv
  BY CommitIs DEF Mine, Inv
<1>2. JobOld(r)'
  BY <1>1 DEF Right, JobOld, Running, HasRead
<1>3. RowFits(r)'
  <2> SUFFICES ASSUME kind[r] \in {"attach", "deleteRow"}
               PROVE  job[r].row \in Rows' =>
                        /\ ledger'[job[r].row].src \in {job[r].entry} \cup Lost
                        /\ kind[r] = "deleteRow" /\ pc[r] \in {"writeRow", "commit"} =>
                             ledger'[job[r].row].src = None
    BY <1>1 DEF Right, RowFits, Running
  <2>0. Lost \subseteq {None}
    BY DEF Lost
  <2>1. job[r].row \in RowIds
    BY <1>1, JobIs
  <2>2. RowMoves(q, job[r].row)
    BY <2>1, RowsMove
  <2>3. job[r].row[1] # q
    BY <1>1 DEF Right, JobOld
  <2> QED
    BY <1>1, <2>0, <2>2, <2>3 DEF RowMoves, Right, RowFits
<1> QED
  BY <1>2, <1>3

LEMMA SaveStays ==
  ASSUME Inv, LockInv, NEW q \in Req, Commit(q), NEW r \in Req \ {q}, Running(r)
  PROVE  SaveFits(r)'
<1>1. /\ kind'[r] = kind[r] /\ pc'[r] = pc[r] /\ job'[r] = job[r] /\ seen'[r] = seen[r]
      /\ SaveFits(r) /\ TypeInv /\ Running(q)
  BY CommitIs DEF Mine, Inv, Right
<1> SUFFICES ASSUME kind[r] = "save" PROVE SaveFits(r)'
  BY <1>1 DEF SaveFits
<1>2. PICK e \in EntryIds : e = job[r].entry
  BY <1>1, JobIs
<1>3. /\ kind[q] = "save" /\ "forms" \in Avoid => job[q].entry # e
      /\ kind[q] = "deleteEntry" /\ "delete" \in Avoid /\ entries[e] # None => job[q].entry # e
      /\ "attach" \in Avoid => ~(kind[q] = "attach" /\ job[q].entry = e)
      /\ HasLoaded(r) => (kind[q] \in {"save", "deleteEntry"} => job[q].entry # e)
  BY <1>1, <1>2, Apart, Alone
<1>4. HasRead(r)' = HasRead(r) /\ HasLoaded(r)' = HasLoaded(r) /\ Running(r)' = Running(r) /\ LinesSent(r)' = LinesSent(r)
  BY <1>1 DEF HasRead, HasLoaded, Running, LinesSent
<1>5. ASSUME kind[q] \in {"save", "deleteEntry"} => job[q].entry # e
      PROVE  /\ entries'[e] # None <=> entries[e] # None
             /\ entries[e] # None => entries'[e].bills = entries[e].bills
  BY <1>5, EntryStays
<1>6. ASSUME e # r, {"delete", "forms"} \subseteq Avoid
      PROVE  entries'[e] # None /\ job[r].bills \subseteq entries'[e].bills \cup Stale \cup {r}
  <2>1. entries[e] # None /\ job[r].bills \subseteq entries[e].bills \cup Stale \cup {r}
    BY <1>1, <1>2, <1>6 DEF SaveFits
  <2> QED
    BY <1>3, <1>5, <1>6, <2>1
<1>7. ASSUME HasLoaded(r)
      PROVE  /\ MayBeSaved(job[r].form) /\ (e = r => seen[r].entry = None)
             /\ e # r => seen[r].entry # None /\ entries'[e] # None /\ seen[r].entry.bills = entries'[e].bills
  BY <1>1, <1>2, <1>3, <1>5, <1>7 DEF SaveFits
<1>8. ASSUME HasRead(r)
      PROVE  /\ seen[r].due = DuesOf(e)' /\ Sourced(e)' = seen[r].rows \cap Rows'
             /\ "customer" \in Avoid => seen[r].rows \subseteq Rows'
             /\ "attach" \in Avoid =>
                  \A c \in Customers : \/ (Sourced(e) \cap OfCustomer(c))' = {} /\ "customer" \notin Avoid
                                       \/ seen[r].bills[c] = BillsByCustomer(e)'[c]
  <2>1. kind[q] \in {"save", "deleteEntry"} => job[q].entry # e
    BY <1>3, <1>8 DEF HasLoaded
  <2>2. /\ seen[r].due = DuesOf(e) /\ Sourced(e) = seen[r].rows \cap Rows
        /\ "customer" \in Avoid => seen[r].rows \subseteq Rows
        /\ "attach" \in Avoid =>
             \A c \in Customers : \/ Sourced(e) \cap OfCustomer(c) = {} /\ "customer" \notin Avoid
                                  \/ seen[r].bills[c] = BillsByCustomer(e)[c]
    BY <1>1, <1>2, <1>8 DEF SaveFits
  <2>3. /\ Sourced(e)' = Sourced(e) \cap Rows'
        /\ \A i \in Sourced(e) \ Rows' : Takes(q, ledger[i].cust)
        /\ \A c \in Customers : (Sourced(e) \cap OfCustomer(c))' \subseteq Sourced(e) \cap OfCustomer(c)
        /\ "attach" \in Avoid =>
             \A c \in Customers : Takes(q, c) \/ BillsByCustomer(e)'[c] = BillsByCustomer(e)[c]
    BY <1>3, <2>1, SourcesStay
  <2>4. DuesOf(e)' = DuesOf(e)
    BY <2>1, DuesMove
  <2>5. Sourced(e)' = seen[r].rows \cap Rows'
    <3>1. ASSUME NEW i \in seen[r].rows, i \in Rows' PROVE i \in Rows
      <4>1. i \in RowIds /\ i[1] # q
        <5>1. JobOld(r) /\ ~Over(q)
          BY CommitIs DEF Inv, Right
        <5> QED
          BY <1>8, <3>1, <5>1 DEF JobOld, Rows
      <4> QED
        BY <3>1, <4>1, RowsMove DEF RowMoves
    <3> QED
      BY <2>2, <2>3, <3>1
  <2>6. "customer" \in Avoid => seen[r].rows \subseteq Rows'
    BY <2>2, <2>3 DEF Takes
  <2>7. ASSUME "attach" \in Avoid, NEW c \in Customers
        PROVE  \/ (Sourced(e) \cap OfCustomer(c))' = {} /\ "customer" \notin Avoid
               \/ seen[r].bills[c] = BillsByCustomer(e)'[c]
    <3>1. CASE Sourced(e) \cap OfCustomer(c) = {} /\ "customer" \notin Avoid
      BY <2>3, <3>1
    <3>2. CASE seen[r].bills[c] = BillsByCustomer(e)[c] /\ Takes(q, c)
      <4>1. (Sourced(e) \cap OfCustomer(c))' = {}
        <5> SUFFICES ASSUME NEW i \in (Sourced(e) \cap OfCustomer(c))' PROVE FALSE
          OBVIOUS
        <5>1. kind[q] = "deleteCustomer" /\ c = job[q].cust /\ i \in Rows' /\ ledger'[i].cust = c /\ i \in RowIds
          BY <3>2 DEF Takes, Sourced, OfCustomer, Rows
        <5>2. ledger' = [x \in RowIds |-> IF ledger[x] # None /\ ledger[x].cust = job[q].cust
                                          THEN None ELSE ledger[x]]
          BY <1>1, <5>1, CommitDeleteCustomer
        <5> QED
          BY <5>1, <5>2 DEF Rows
      <4> QED
        BY <3>2, <4>1 DEF Takes
    <3> QED
      BY <2>2, <2>3, <2>7, <3>1, <3>2
  <2> QED
    BY <2>2, <2>4, <2>5, <2>6, <2>7
<1>9. /\ job'[r].entry = e /\ Sourced(job[r].entry)' = Sourced(e)' /\ DuesOf(job[r].entry)' = DuesOf(e)'
      /\ BillsByCustomer(job[r].entry)' = BillsByCustomer(e)'
      /\ \A c : (Sourced(job[r].entry) \cap OfCustomer(c))' = (Sourced(e) \cap OfCustomer(c))'
  BY <1>1, <1>2 DEF Sourced, DuesOf, BillsByCustomer
<1> QED
  BY <1>1, <1>2, <1>4, <1>6, <1>7, <1>8, <1>9 DEF SaveFits

\* Nobody else empties or fills the scope of an entry that is being deleted.
LEMMA ScopeStays ==
  ASSUME Inv, NEW q \in Req, Commit(q), NEW r \in Req \ {q}, Running(r), kind[r] = "deleteEntry",
         "delete" \in Avoid
  PROVE  LeftInScope(job[r].entry, job[r].scope)' = LeftInScope(job[r].entry, job[r].scope)
<1>1. /\ job'[r] = job[r] /\ TypeInv /\ TypeInv' /\ Right(q) /\ Running(q) /\ ~Over(q) /\ pc[q] = "commit"
  BY CommitIs DEF Mine
<1>2. PICK e, s : e = job[r].entry /\ s = job[r].scope
  OBVIOUS
<1>3. ASSUME NEW x \in EntryIds \ {e}
      PROVE  entries'[x] # None /\ entries'[x].scope = s <=> entries[x] # None /\ entries[x].scope = s
  <2>1. CASE kind[q] = "save" /\ job[q].entry = x
    <3>1. job[q].scope # s /\ (entries[x] # None => entries[x].scope # s)
      BY <1>1, <1>2, <2>1, Apart
    <3>2. entries'[x] = NewEntry(q) /\ NewEntry(q).scope = job[q].scope
      <4>1. seen[q] \in EntryRead /\ entries' = [entries EXCEPT ![x] = NewEntry(q)] /\ DOMAIN entries = EntryIds
        BY <1>1, <2>1, CommitSave DEF TypeInv, TypeOK
      <4> QED
        BY <1>1, <2>1, <4>1, NewEntryIs
    <3> QED
      BY <3>1, <3>2
  <2>2. CASE kind[q] = "deleteEntry" /\ job[q].entry = x
    <3>1. job[q].scope # s
      BY <1>1, <1>2, <2>2, Apart
    <3>2. entries'[x] = None
      BY <1>1, <2>2, CommitDeleteEntry DEF TypeInv, TypeOK
    <3>3. entries[x] # None => entries[x].scope = job[q].scope
      BY <1>1, <2>2 DEF Right, DeleteFits
    <3> QED
      BY <3>1, <3>2, <3>3
  <2>3. CASE kind[q] \in {"save", "deleteEntry"} => job[q].entry # x
    BY <2>3, EntryStays
  <2> QED
    BY <2>1, <2>2, <2>3
<1>4. LeftInScope(e, s)' = LeftInScope(e, s)
  BY <1>3 DEF LeftInScope, OnRecord
<1> QED
  BY <1>1, <1>2, <1>4 DEF LeftInScope

LEMMA DeleteStays ==
  ASSUME Inv, NEW q \in Req, Commit(q), NEW r \in Req \ {q}, Running(r)
  PROVE  DeleteFits(r)'
<1>1. /\ kind'[r] = kind[r] /\ pc'[r] = pc[r] /\ job'[r] = job[r] /\ seen'[r] = seen[r] /\ txn'[r] = txn[r]
      /\ DeleteFits(r) /\ JobOld(r) /\ TypeInv /\ Running(q) /\ ~Over(q) /\ Right(q) /\ pc[q] = "commit"
  BY CommitIs DEF Mine, Inv, Right
<1> SUFFICES ASSUME kind[r] = "deleteEntry" PROVE DeleteFits(r)'
  BY <1>1 DEF DeleteFits
<1>2. PICK e \in EntryIds : e = job[r].entry
  BY <1>1, JobIs
<1>3. PICK s : s = job[r].scope
  OBVIOUS
<1>4. \A i \in RowIds : RowMoves(q, i)
  BY RowsMove
<1>5. Rows \subseteq RowIds /\ Rows' \subseteq RowIds /\ e # None /\ Lost \subseteq {None}
  BY IdsAreDistinct DEF Rows, Lost
<1>6. ASSUME HasRead(r) PROVE \A i \in seen[r].rows \cap Rows' : ledger'[i].src \in {e} \cup Lost
  <2> SUFFICES ASSUME NEW i \in seen[r].rows, i \in Rows' PROVE ledger'[i].src \in {e} \cup Lost
    OBVIOUS
  <2>1. i[1] # q
    BY <1>1, <1>6 DEF JobOld
  <2>2. i \in Rows /\ (ledger'[i].src = ledger[i].src \/ ledger'[i].src \in Lost)
    BY <1>4, <1>5, <2>1 DEF RowMoves
  <2> QED
    BY <1>1, <1>2, <1>6, <2>2 DEF DeleteFits
<1>7. ASSUME "delete" \in Avoid PROVE kind[q] = "save" => job[q].entry # e
  <2>1. ASSUME kind[q] = "save" PROVE entries[job[q].entry] # None \/ job[q].entry = q
    BY <1>1, <2>1 DEF Right, SaveFits, HasLoaded, HasRead
  <2>2. e # q
    BY <1>1, <1>2 DEF JobOld
  <2> QED
    BY <1>1, <1>2, <1>7, <2>1, <2>2, Apart
<1>8. ASSUME "delete" \in Avoid, entries'[e] # None PROVE entries'[e].scope = s
  BY <1>1, <1>2, <1>3, <1>7, <1>8, ScopesMove DEF DeleteFits
<1>9. ASSUME "delete" \in Avoid, HasRead(r)
      PROVE  Sourced(e)' \subseteq seen[r].rows /\ DuesOf(e)' \subseteq seen[r].due
  <2>1. Sourced(e) \subseteq seen[r].rows /\ DuesOf(e) \subseteq seen[r].due
    BY <1>1, <1>2, <1>9 DEF DeleteFits
  <2>2. Sourced(e)' \subseteq Sourced(e)
    BY <1>4, <1>5, <1>7, <1>9 DEF RowMoves, Sourced
  <2>3. CASE kind[q] = "deleteEntry" /\ job[q].entry = e
    <3>1. DuesOf(e)' = {}
      BY <2>3, DuesMove DEF DuesOf
    <3> QED
      BY <2>1, <2>2, <3>1
  <2>4. CASE ~(kind[q] = "deleteEntry" /\ job[q].entry = e)
    <3>1. DuesOf(e)' = DuesOf(e)
      BY <1>7, <1>9, <2>4, DuesMove
    <3> QED
      BY <2>1, <2>2, <3>1
  <2> QED
    BY <2>3, <2>4
<1>10. ASSUME "delete" \in Avoid
       PROVE  LeftInScope(job[r].entry, job[r].scope)' = LeftInScope(job[r].entry, job[r].scope)
  BY <1>1, <1>10, ScopeStays
<1>11. checkpoints' \subseteq checkpoints
  BY CommitCloses DEF Inv
<1>12. HasRead(r)' = HasRead(r) /\ HasLoaded(r)' = HasLoaded(r) /\ Running(r)' = Running(r)
  BY <1>1 DEF HasRead, HasLoaded, Running
<1>13. Sourced(job[r].entry)' = Sourced(e)' /\ DuesOf(job[r].entry)' = DuesOf(e)'
  BY <1>1, <1>2 DEF Sourced, DuesOf
<1>14. ASSUME "delete" \in Avoid, pc[r] = "commit"
       PROVE  /\ txn[r].log \subseteq {s}
              /\ IF LeftInScope(job[r].entry, job[r].scope)' = {} THEN s \notin checkpoints' \ txn[r].log
                 ELSE txn[r].log = {}
  BY <1>1, <1>2, <1>3, <1>10, <1>11, <1>14 DEF DeleteFits
<1> QED
  BY <1>1, <1>2, <1>3, <1>6, <1>8, <1>9, <1>12, <1>13, <1>14 DEF DeleteFits

LEMMA CustomerStays ==
  ASSUME Inv, NEW q \in Req, Commit(q), NEW r \in Req \ {q}, Running(r)
  PROVE  CustomerFits(r)'
<1>1. /\ kind'[r] = kind[r] /\ pc'[r] = pc[r] /\ job'[r] = job[r]
      /\ CustomerFits(r) /\ TypeInv /\ Running(q) /\ pc[q] = "commit" /\ Right(q)
  BY CommitIs DEF Mine, Inv, Right
<1> SUFFICES ASSUME "customer" \in Avoid, kind[r] = "deleteCustomer", pc[r] \in {"writeCustomer", "commit"}
             PROVE  MayGo(job[r].cust)'
  BY <1>1 DEF CustomerFits
<1>2. PICK c \in Customers : c = job[r].cust
  BY <1>1, JobIs
<1>3. MayGo(c)
  BY <1>1, <1>2 DEF CustomerFits
<1>4. Rows \subseteq RowIds /\ Rows' \subseteq RowIds /\ None \notin Customers
  BY IdsAreDistinct DEF Rows
<1>5. ASSUME NEW i \in Rows', ledger'[i].cust = c PROVE ledger'[i].src = None
  <2>1. CASE i \in Rows
    BY <1>3, <1>4, <1>5, <2>1, RowsMove DEF RowMoves, MayGo, OfCustomer, Lost
  <2>2. CASE i \notin Rows /\ kind[q] = "save"
    <3>1. /\ ledger'[i] = IF i \in DOMAIN Charges(q) THEN Charges(q)[i]
                          ELSE IF i \in seen[q].rows THEN None ELSE ledger[i]
          /\ seen[q] \in EntryRead
      BY <1>1, <1>4, <2>2, CommitSave
    <3>2. i \in DOMAIN Charges(q)
      BY <2>2, <3>1 DEF Rows
    <3>3. i[2] \in ChargeLines(NewEntry(q)) /\ Charges(q)[i].cust = NewEntry(q).lines[i[2]].who
      <4> DEFINE x == NewEntry(q)
                 bill(n) == CarriedBill(x, n, seen[q].bills)
      <4>1. /\ i[2] \in ChargeLines(x)
            /\ Charges(q)[i] = [cust |-> x.lines[i[2]].who, type |-> "credit",
                                amount |-> x.lines[i[2]].amount,
                                src |-> job[q].entry, bill |-> bill(i[2])]
        BY <1>1, <2>2, <3>2, ChargesAre
      <4> HIDE DEF bill, x
      <4> QED
        BY <4>1 DEF x
    <3>4. NewEntry(q).lines = seen[q].lines /\ seen[q].lines \in Seq(Line) /\ Len(seen[q].lines) = Len(job[q].form.lines)
      BY <1>1, <2>2, <3>1, NewEntryIs DEF TypeInv, Fits, SeenFits, EntryRead
    <3>5. job[q].form.lines \in Seq(Line)
      BY <1>1, <2>2, JobIs, FormFields
    <3>6. i[2] \in DOMAIN job[q].form.lines /\ seen[q].lines[i[2]].who = c /\ i[2] \in DOMAIN seen[q].lines
      <4>1. i[2] \in 1 .. Len(seen[q].lines)
        BY <3>3, <3>4, ChargeLinesAre
      <4>2. \A s \in Seq(Line) : DOMAIN s = 1 .. Len(s)
        OBVIOUS
      <4> QED
        BY <1>5, <3>1, <3>2, <3>3, <3>4, <3>5, <4>1, <4>2
    <3>7. job[q].form.lines[i[2]] \in Line
      BY <3>5, <3>6
    <3>8. job[q].form.lines[i[2]].who = c
      <4>1. \A l \in Line : [l EXCEPT !.who = None].who = None
        BY DEF Line
      <4>2. \/ seen[q].lines[i[2]] = job[q].form.lines[i[2]]
            \/ seen[q].lines[i[2]] = [job[q].form.lines[i[2]] EXCEPT !.who = None]
        BY <1>1, <2>2, <3>6 DEF Right, SaveFits, LinesSent
      <4>3. CASE seen[q].lines[i[2]] = [job[q].form.lines[i[2]] EXCEPT !.who = None]
        <5>1. PICK l \in Line : l = job[q].form.lines[i[2]]
          BY <3>7
        <5>2. seen[q].lines[i[2]] = [l EXCEPT !.who = None]
          BY <4>3, <5>1
        <5>3. seen[q].lines[i[2]].who = None
          BY <4>1, <5>2
        <5> QED
          BY <1>4, <3>6, <5>3
      <4> QED
        BY <3>6, <4>2, <4>3
    <3> QED
      BY <1>1, <1>2, <2>2, <3>6, <3>8, Apart
  <2>3. CASE i \notin Rows /\ kind[q] # "save"
    BY <1>4, <2>3, RowsMove DEF RowMoves
  <2> QED
    BY <2>1, <2>2, <2>3
<1>6. MayGo(c)'
  BY <1>5 DEF MayGo, OfCustomer
<1> QED
  BY <1>1, <1>2, <1>6 DEF MayGo, OfCustomer


\* No two requests come to clash by what another commits.
LEMMA ClashStays ==
  ASSUME Inv, NEW q \in Req, Commit(q)
  PROVE  NoClash'
<1>1. TypeInv /\ Running(q) /\ job[q] # None /\ job'[q] = None /\ \A x \in Req \ {q} : UNCHANGED Mine(x)
  BY CommitIs, CommitCloses DEF Closes
<1>2. ASSUME NEW a \in Req \ {q}, NEW b \in Req \ {q}, a # b, job[a] # None, job[b] # None
      PROVE  ~DeleteClash(job[a], job[b])' \/ "delete" \notin Avoid
  <2> SUFFICES ASSUME DeleteClash(job[a], job[b])', "delete" \in Avoid PROVE FALSE
    OBVIOUS
  <2>1. ~Clash(job[a], job[b]) /\ ~Clash(job[a], job[q])
    BY <1>1, <1>2 DEF Inv, NoClash
  <2>2. ~DeleteClash(job[a], job[b]) /\ ~DeleteClash(job[a], job[q])
    BY <2>1 DEF Clash, Unsafe
  <2>3. job'[a] = job[a] /\ job'[b] = job[b]
    BY <1>1, <1>2 DEF Mine
  <2>4. /\ job[a].op = "deleteEntry" /\ job[b].op = "save" /\ job[a].scope # job[b].scope
        /\ job[b].entry \in OnRecord' /\ entries'[job[b].entry].scope = job[a].scope
    BY <2>2, <2>3 DEF DeleteClash, Touches
  <2>5. PICK e \in EntryIds : e = job[b].entry /\ entries'[e] # None /\ entries'[e].scope = job[a].scope
    BY <2>4 DEF OnRecord
  <2>6. CASE entries[e] # None /\ entries'[e].scope = entries[e].scope
    BY <2>2, <2>4, <2>5, <2>6 DEF DeleteClash, Touches, OnRecord
  <2>7. CASE kind[q] = "save" /\ entries'[e].scope = job[q].scope
    <3>1. job[q].op = "save"
      BY <1>1, <2>7, JobIs
    <3> QED
      BY <2>2, <2>4, <2>5, <2>7, <3>1 DEF DeleteClash, Touches
  <2> QED
    BY <2>5, <2>6, <2>7, ScopesMove
<1>3. ASSUME NEW a \in Req \ {q}, NEW b \in Req \ {q}, a # b, job[a] # None, job[b] # None
      PROVE  ~Unsafe(job[a], job[b])'
  <2>1. ~Unsafe(job[a], job[b])
    BY <1>3 DEF Inv, NoClash, Clash
  <2>2. job'[a] = job[a] /\ job'[b] = job[b]
    BY <1>1, <1>3 DEF Mine
  <2>3. ~DeleteClash(job[a], job[b])' \/ "delete" \notin Avoid
    BY <1>2, <1>3
  <2> QED
    BY <2>1, <2>2, <2>3 DEF Unsafe, AttachClash, CustomerClash, FormsClash
<1> SUFFICES ASSUME NEW a \in Req, NEW b \in Req, a # b, job'[a] # None, job'[b] # None
             PROVE  ~Clash(job[a], job[b])'
  BY DEF NoClash
<1>4. a # q /\ b # q /\ job[a] # None /\ job[b] # None
  BY <1>1 DEF Mine
<1> QED
  BY <1>3, <1>4 DEF Clash

LEMMA RestingRight ==
  ASSUME NEW r \in Req, ~Running(r)
  PROVE  Right(r)
<1>1. pc[r] \notin {"writeCustomer", "commit", "post"}
  BY DEF Running
<1> QED
  BY <1>1 DEF Right, JobOld, SaveFits, DeleteFits, RowFits, CustomerFits

LEMMA RestedRight ==
  ASSUME NEW r \in Req, ~Running(r)'
  PROVE  Right(r)'
<1>1. pc'[r] \notin {"writeCustomer", "commit", "post"}
  BY DEF Running
<1> QED
  BY <1>1 DEF Right, JobOld, SaveFits, DeleteFits, RowFits, CustomerFits

LEMMA CommitKeepsInv ==
  ASSUME Inv, LockInv, NEW q \in Req, Commit(q)
  PROVE  Inv'
<1>1. /\ TypeInv /\ TypeInv' /\ Right(q) /\ Running(q) /\ ~Over(q) /\ pc[q] = "commit" /\ ~Running(q)'
      /\ \A x \in Req : Over(x)' <=> Over(x) \/ x = q
      /\ \A x \in Req \ {q} : UNCHANGED Mine(x)
      /\ \A x \in Req : x # q => job'[x] = job[x]
      /\ job'[q] = None
  BY CommitIs, CommitCloses DEF Mine, Closes, Running
<1>2. Rows \subseteq RowIds /\ Rows' \subseteq RowIds /\ None \notin EntryIds /\ Req \subseteq EntryIds
      /\ Req \subseteq Customers /\ None \notin Req
  BY IdsAreDistinct DEF Rows, EntryIds, Customers
<1>3. NothingYet'
  <2> SUFFICES ASSUME NEW r \in Req, ~Over(r)'
               PROVE  entries'[r] = None /\ custs'[r] = None /\ \A i \in Rows' : i[1] # r
    BY DEF NothingYet
  <2>1. r # q /\ ~Over(r) /\ entries[r] = None /\ custs[r] = None /\ \A i \in Rows : i[1] # r
    BY <1>1 DEF Inv, NothingYet
  <2>2. entries'[r] = None
    <3>1. kind[q] \in {"save", "deleteEntry"} => job[q].entry # r
      BY <1>1, <2>1 DEF Right, JobOld
    <3> QED
      BY <1>2, <2>1, <3>1, EntryStays
  <2>3. custs'[r] = None
    <3>0. custs \in [Customers -> (SUBSET Keys) \cup {None}]
      BY <1>1 DEF TypeInv, TypeOK
    <3>1. CASE kind[q] \in {"saveCustomer", "addCustomer"}
      <4>1. job[q].cust # r
        BY <1>1, <2>1, <3>1 DEF Right, JobOld
      <4> QED
        BY <1>1, <1>2, <2>1, <3>0, <3>1, <4>1, CommitCustomer
    <3>2. CASE kind[q] = "deleteCustomer"
      BY <1>1, <1>2, <2>1, <3>0, <3>2, CommitDeleteCustomer
    <3>3. CASE kind[q] \in {"save", "deleteEntry", "attach", "deleteRow", "add"}
      BY <1>1, <2>1, <3>3, CommitSave, CommitDeleteEntry, CommitAttach, CommitDeleteRow, CommitAdd
    <3> QED
      BY <3>1, <3>2, <3>3, CommitKeeps, <1>1
  <2>4. \A i \in Rows' : i[1] # r
    BY <1>2, <2>1, RowsMove DEF RowMoves
  <2> QED
    BY <2>2, <2>3, <2>4
<1>4. ASSUME NEW x \in Req, kind[q] = "save", job[q].entry = x PROVE Over(x)'
  BY <1>1, <1>4 DEF Right, JobOld
<1>5. SourcesOld'
  <2>1. ASSUME NEW i \in Rows', NEW x \in Req, ledger'[i].src = x PROVE Over(x)'
    <3>1. RowMoves(q, i)
      BY <1>2, RowsMove
    <3>2. CASE i \in Rows /\ (ledger'[i].src = ledger[i].src \/ ledger'[i].src \in Lost)
      BY <1>1, <1>2, <2>1, <3>2 DEF Inv, SourcesOld, Lost
    <3>3. CASE kind[q] = "save" /\ ledger'[i].src = job[q].entry
      BY <1>4, <2>1, <3>3
    <3> QED
      BY <1>2, <2>1, <3>1, <3>2, <3>3 DEF RowMoves
  <2>2. ASSUME NEW d \in dues', NEW x \in Req, d.src = x PROVE Over(x)'
    <3>1. CASE d \in dues
      BY <1>1, <2>2, <3>1 DEF Inv, SourcesOld
    <3>2. CASE d \notin dues
      <4>0. x \in EntryIds
        BY <1>2, <2>2
      <4>1. kind[q] = "save" /\ d \in NewDues(q)
        BY <2>2, <3>2, <4>0, DuesMove DEF DuesOf
      <4>2. d.src = job[q].entry
        BY <1>1, <4>1, NewDuesAre
      <4> QED
        BY <1>4, <2>2, <4>1, <4>2
    <3> QED
      BY <3>1, <3>2
  <2> QED
    BY <2>1, <2>2 DEF SourcesOld, Over
<1>6. NoClash'
  BY ClashStays
<1>7. ASSUME NEW r \in Req PROVE Right(r)'
  <2>1. CASE ~Running(r)'
    BY <2>1, RestedRight
  <2>2. CASE Running(r)'
    <3>1. r # q /\ Running(r)
      BY <1>1, <2>2 DEF Mine, Running
    <3> QED
      BY <3>1, OldStays, SaveStays, DeleteStays, CustomerStays DEF Right
  <2> QED
    BY <2>1, <2>2
<1> QED
  BY <1>1, <1>3, <1>5, <1>6, <1>7 DEF Inv

Tables == <<entries, custs, ledger, dues>>

\* No checkpoint appears while the last entry of its scope may be going.
NotPutBack(q) ==
  "delete" \in Avoid /\ kind[q] = "deleteEntry" /\ Running(q) /\ job[q].scope \in checkpoints' =>
    job[q].scope \in checkpoints

\* While no row changes, a request that does not move goes by what it went by.
LEMMA OthersRight ==
  ASSUME NEW r \in Req, Right(r), UNCHANGED Tables, UNCHANGED Mine(r), NotPutBack(r),
         \A x \in Req : Over(x) => Over(x)'
  PROVE  Right(r)'
<1>1. /\ kind'[r] = kind[r] /\ pc'[r] = pc[r] /\ job'[r] = job[r] /\ seen'[r] = seen[r] /\ txn'[r] = txn[r]
      /\ entries' = entries /\ custs' = custs /\ ledger' = ledger /\ dues' = dues
  BY DEF Mine, Tables
<1>2. /\ HasRead(r)' = HasRead(r) /\ HasLoaded(r)' = HasLoaded(r) /\ Running(r)' = Running(r)
      /\ LinesSent(r)' = LinesSent(r) /\ Rows' = Rows
  BY <1>1 DEF HasRead, HasLoaded, Running, LinesSent, Rows
<1>3. /\ Sourced(job[r].entry)' = Sourced(job[r].entry) /\ DuesOf(job[r].entry)' = DuesOf(job[r].entry)
      /\ BillsByCustomer(job[r].entry)' = BillsByCustomer(job[r].entry)
      /\ \A c : OfCustomer(c)' = OfCustomer(c)
      /\ LeftInScope(job[r].entry, job[r].scope)' = LeftInScope(job[r].entry, job[r].scope)
      /\ MayGo(job[r].cust)' = MayGo(job[r].cust)
  BY <1>1 DEF Sourced, DuesOf, BillsByCustomer, LeftInScope, MayGo, Rows, OfCustomer, BillsOf, OnRecord
<1>4. JobOld(r)'
  BY <1>1, <1>2 DEF Right, JobOld
<1>5. SaveFits(r)'
  BY <1>1, <1>2, <1>3 DEF Right, SaveFits
<1>6. DeleteFits(r)'
  BY <1>1, <1>2, <1>3 DEF Right, DeleteFits, NotPutBack
<1>7. RowFits(r)' /\ CustomerFits(r)'
  BY <1>1, <1>2, <1>3 DEF Right, RowFits, CustomerFits
<1> QED
  BY <1>4, <1>5, <1>6, <1>7 DEF Right

LEMMA QuietInv ==
  ASSUME Inv, NEW r \in Req, TypeInv', UNCHANGED Tables, \A q \in Req \ {r} : UNCHANGED Mine(q),
         \A q \in Req \ {r} : NotPutBack(q),
         Over(r) => Over(r)', Right(r)',
         \A q \in Req \ {r} : job'[r] # None /\ job[q] # None => ~Clash(job'[r], job[q])
  PROVE  Inv'
<1>1. \A x \in Req : Over(x) => Over(x)'
  BY DEF Mine, Over
<1>2. entries' = entries /\ custs' = custs /\ ledger' = ledger /\ dues' = dues /\ Rows' = Rows
  BY DEF Tables, Rows
<1>3. \A q \in Req : Right(q)'
  BY <1>1, OthersRight DEF Inv
<1>4. NothingYet'
  BY <1>1, <1>2 DEF Inv, NothingYet
<1>5. SourcesOld'
  BY <1>1, <1>2 DEF Inv, SourcesOld
<1>6. NoClash'
  <2>1. ASSUME NEW q \in Req, NEW x \in Req, q # x, job'[q] # None, job'[x] # None
        PROVE  ~Clash(job'[q], job'[x])
    <3>1. \A y \in Req \ {r} : job'[y] = job[y]
      BY DEF Mine
    <3>2. CASE q = r
      BY <2>1, <3>1, <3>2
    <3>3. CASE x = r
      <4>1. ~Clash(job'[x], job'[q])
        BY <2>1, <3>1, <3>3
      <4> QED
        BY <4>1 DEF Clash
    <3>4. CASE q # r /\ x # r
      BY <2>1, <3>1, <3>4 DEF Inv, NoClash
    <3> QED
      BY <3>2, <3>3, <3>4
  <2>2. ASSUME NEW q \in Req, NEW x \in Req, q # x, job'[q] # None, job'[x] # None
        PROVE  ~Clash(job[q], job[x])'
    <3>1. ~Clash(job'[q], job'[x])
      BY <2>1, <2>2
    <3>2. Unsafe(job[q], job[x])' <=> Unsafe(job'[q], job'[x])
      BY <1>2 DEF Unsafe, AttachClash, CustomerClash, DeleteClash, FormsClash, Touches, OnRecord
    <3>3. Unsafe(job[x], job[q])' <=> Unsafe(job'[x], job'[q])
      BY <1>2 DEF Unsafe, AttachClash, CustomerClash, DeleteClash, FormsClash, Touches, OnRecord
    <3> QED
      BY <3>1, <3>2, <3>3 DEF Clash
  <2> QED
    BY <2>2 DEF NoClash
<1> QED
  BY <1>3, <1>4, <1>5, <1>6 DEF Inv

\* It is enough to look at what the request goes by after its step.
LEMMA GoesInv ==
  ASSUME Inv, NEW r \in Req, NEW at, NEW read, NEW written, NEW locks,
         Goes(r, at, read, written, locks), Running(r), TypeInv', Right(r)'
  PROVE  Inv'
<1>1. /\ UNCHANGED Tables /\ \A q \in Req \ {r} : UNCHANGED Mine(q)
      /\ job'[r] = job[r] /\ ~Over(r) /\ checkpoints' = checkpoints
  BY DEF Goes, QuietStep, Tables, committed, Over, Running
<1>2. \A q \in Req \ {r} : job'[r] # None /\ job[q] # None => ~Clash(job'[r], job[q])
  BY <1>1 DEF Inv, NoClash
<1>3. \A q \in Req \ {r} : NotPutBack(q)
  BY <1>1 DEF NotPutBack
<1> QED
  BY <1>1, <1>2, <1>3, QuietInv

\* A request that is at rest after its step, whatever became of it.
LEMMA RestsInv ==
  ASSUME Inv, NEW r \in Req, TypeInv', UNCHANGED Tables, \A q \in Req \ {r} : UNCHANGED Mine(q),
         \A q \in Req \ {r} : NotPutBack(q),
         Over(r) => Over(r)', ~Running(r)'
  PROVE  Inv'
<1>1. job'[r] = None
  BY DEF TypeInv, Fits
<1> QED
  BY <1>1, RestedRight, QuietInv

LEMMA RefuseInv ==
  ASSUME Inv, NEW r \in Req, Refuse(r)
  PROVE  Inv'
<1>1. TypeInv' /\ QuietStep(r) /\ pc'[r] = "failed"
  BY RefuseKeeps DEF Inv
<1>2. /\ UNCHANGED Tables /\ (\A q \in Req \ {r} : UNCHANGED Mine(q)) /\ Over(r)' /\ ~Running(r)'
      /\ \A q \in Req \ {r} : NotPutBack(q)
  BY <1>1 DEF QuietStep, Tables, committed, Over, Running, NotPutBack
<1> QED
  BY <1>1, <1>2, RestsInv

\* What stays of what a request goes by when it is sent nothing new.
LEMMA GoesOld ==
  ASSUME Inv, NEW r \in Req, NEW at, NEW read, NEW written, NEW locks,
         Goes(r, at, read, written, locks), Running(r)
  PROVE  /\ kind'[r] = kind[r] /\ pc'[r] = at /\ job'[r] = job[r] /\ seen'[r] = read /\ txn'[r] = written
         /\ entries' = entries /\ custs' = custs /\ ledger' = ledger /\ dues' = dues /\ Rows' = Rows
         /\ checkpoints' = checkpoints
         /\ (\A x \in Req : Over(x) => Over(x)') /\ ~Over(r)
         /\ TypeInv /\ Right(r)
         /\ \A e : /\ Sourced(e)' = Sourced(e) /\ DuesOf(e)' = DuesOf(e)
                   /\ BillsByCustomer(e)' = BillsByCustomer(e)
         /\ \A c : OfCustomer(c)' = OfCustomer(c)
         /\ \A e, s : LeftInScope(e, s)' = LeftInScope(e, s)
<1>1. /\ kind'[r] = kind[r] /\ pc'[r] = at /\ job'[r] = job[r] /\ seen'[r] = read /\ txn'[r] = written
      /\ entries' = entries /\ custs' = custs /\ ledger' = ledger /\ dues' = dues /\ Rows' = Rows
      /\ checkpoints' = checkpoints
  BY DEF Goes, QuietStep, committed, Rows
<1>2. (\A x \in Req : Over(x) => Over(x)') /\ ~Over(r)
  BY DEF Goes, QuietStep, Mine, Over, Running
<1>3. /\ \A e : /\ Sourced(e)' = Sourced(e) /\ DuesOf(e)' = DuesOf(e)
                /\ BillsByCustomer(e)' = BillsByCustomer(e)
      /\ \A c : OfCustomer(c)' = OfCustomer(c)
      /\ \A e, s : LeftInScope(e, s)' = LeftInScope(e, s)
  BY <1>1 DEF Sourced, DuesOf, BillsByCustomer, LeftInScope, Rows, OfCustomer, BillsOf, OnRecord
<1> QED
  BY <1>1, <1>2, <1>3 DEF Inv

LEMMA LoadForSaveInv ==
  ASSUME Inv, NEW r \in Req, LoadForSave(r)
  PROVE  Inv'
<1>1. TypeInv /\ TypeInv' /\ kind[r] = "save" /\ Running(r) /\ job[r].entry \in EntryIds /\ Right(r)
  BY LoadForSaveIs, LoadForSaveKeeps, JobIs DEF Inv
<1>2. CASE Refuse(r)
  BY <1>2, RefuseInv
<1>3. CASE /\ MayBeSaved(job[r].form) /\ job[r].entry = r
           /\ Goes(r, "checkCustomers", Loaded(None), txn[r], holds[r])
  <2>1. /\ kind'[r] = kind[r] /\ pc'[r] = "checkCustomers" /\ job'[r] = job[r] /\ seen'[r] = Loaded(None)
        /\ Sourced(r)' = Sourced(r) /\ DuesOf(r)' = DuesOf(r) /\ BillsByCustomer(r)' = BillsByCustomer(r)
        /\ ~Over(r) /\ entries' = entries
    BY <1>1, <1>3, GoesOld
  <2>2. Sourced(r) = {} /\ DuesOf(r) = {}
    BY <2>1 DEF Inv, SourcesOld, Sourced, DuesOf
  <2>3. BillsByCustomer(r) = [c \in Customers |-> {}]
    BY <2>2 DEF BillsByCustomer, BillsOf
  <2>4. /\ seen'[r].rows = {} /\ seen'[r].due = {} /\ seen'[r].entry = None
        /\ seen'[r].bills = [c \in Customers |-> {}]
    BY <2>1 DEF Loaded
  <2>5. /\ Sourced(job[r].entry)' = {} /\ DuesOf(job[r].entry)' = {}
        /\ BillsByCustomer(job[r].entry)' = [c \in Customers |-> {}]
    <3>1. job'[r].entry = r
      BY <1>3, <2>1
    <3>2. Sourced(job[r].entry)' = Sourced(r)' /\ DuesOf(job[r].entry)' = DuesOf(r)'
      BY <3>1 DEF Sourced, DuesOf
    <3>3. BillsByCustomer(job[r].entry)' = BillsByCustomer(r)'
      BY <3>1 DEF BillsByCustomer, Sourced
    <3> QED
      BY <2>1, <2>2, <2>3, <3>2, <3>3
  <2>6. JobOld(r)'
    BY <1>1, <1>3, <2>1, <2>4 DEF Right, JobOld
  <2>7. SaveFits(r)'
    BY <1>1, <1>3, <2>1, <2>4, <2>5 DEF Right, SaveFits
  <2>8. DeleteFits(r)' /\ RowFits(r)' /\ CustomerFits(r)'
    BY <1>1, <2>1 DEF DeleteFits, RowFits, CustomerFits
  <2> QED
    BY <1>1, <1>3, <2>6, <2>7, <2>8, GoesInv DEF Right
<1>4. CASE /\ MayBeSaved(job[r].form) /\ job[r].entry # r
           /\ entries[job[r].entry] # None
           /\ Goes(r, "readRows", Loaded(entries[job[r].entry]), txn[r],
                   With(r, {<<"entry", job[r].entry>>}, "update"))
  <2>1. /\ kind'[r] = kind[r] /\ pc'[r] = "readRows" /\ job'[r] = job[r]
        /\ seen'[r] = Loaded(entries[job[r].entry]) /\ entries' = entries
        /\ \A x \in Req : Over(x) => Over(x)'
    BY <1>1, <1>4, GoesOld
  <2>2. seen'[r].entry = entries[job[r].entry]
    BY <2>1 DEF Loaded
  <2>3. JobOld(r)'
    BY <1>1, <2>1 DEF Right, JobOld, HasRead
  <2>4. SaveFits(r)'
    BY <1>1, <1>4, <2>1, <2>2 DEF Right, SaveFits, HasRead
  <2>5. DeleteFits(r)' /\ RowFits(r)' /\ CustomerFits(r)'
    BY <1>1, <2>1 DEF DeleteFits, RowFits, CustomerFits
  <2> QED
    BY <1>1, <1>4, <2>3, <2>4, <2>5, GoesInv DEF Right
<1> QED
  BY <1>1, <1>2, <1>3, <1>4, LoadForSaveIs

LEMMA LoadForDeleteInv ==
  ASSUME Inv, NEW r \in Req, LoadForDelete(r)
  PROVE  Inv'
<1>1. TypeInv /\ TypeInv' /\ kind[r] = "deleteEntry" /\ Running(r) /\ Right(r)
  BY LoadForDeleteIs, LoadForDeleteKeeps DEF Inv
<1>2. CASE Refuse(r)
  BY <1>2, RefuseInv
<1>3. CASE /\ entries[job[r].entry] # None
           /\ Goes(r, "readRows", Loaded(entries[job[r].entry]), txn[r], holds[r])
  <2>1. /\ kind'[r] = kind[r] /\ pc'[r] = "readRows" /\ job'[r] = job[r]
        /\ seen'[r] = Loaded(entries[job[r].entry]) /\ entries' = entries
        /\ \A x \in Req : Over(x) => Over(x)'
    BY <1>1, <1>3, GoesOld
  <2>2. seen'[r].entry = entries[job[r].entry]
    BY <2>1 DEF Loaded
  <2>3. JobOld(r)'
    BY <1>1, <2>1 DEF Right, JobOld, HasRead
  <2>4. DeleteFits(r)'
    BY <1>1, <1>3, <2>1, <2>2 DEF Right, DeleteFits, HasRead
  <2>5. SaveFits(r)' /\ RowFits(r)' /\ CustomerFits(r)'
    BY <1>1, <2>1 DEF SaveFits, RowFits, CustomerFits
  <2> QED
    BY <1>1, <1>3, <2>3, <2>4, <2>5, GoesInv DEF Right
<1> QED
  BY <1>1, <1>2, <1>3, LoadForDeleteIs

LEMMA ReadRowsInv ==
  ASSUME Inv, NEW r \in Req, ReadRows(r)
  PROVE  Inv'
<1>1. /\ TypeInv /\ TypeInv' /\ kind[r] \in {"save", "deleteEntry"} /\ Running(r) /\ Right(r) /\ pc[r] = "readRows"
      /\ Goes(r, "dropRows", RowsRead(r), txn[r], holds[r])
  BY ReadRowsIs, ReadRowsKeeps DEF Inv, ReadRows
<1>2. seen[r] \in EntryRead
  BY <1>1 DEF TypeInv, Fits, SeenFits
<1>3. /\ kind'[r] = kind[r] /\ pc'[r] = "dropRows" /\ job'[r] = job[r] /\ seen'[r] = RowsRead(r)
      /\ entries' = entries /\ ledger' = ledger /\ Rows' = Rows /\ (\A x \in Req : Over(x) => Over(x)')
      /\ \A e : /\ Sourced(e)' = Sourced(e) /\ DuesOf(e)' = DuesOf(e) /\ BillsByCustomer(e)' = BillsByCustomer(e)
  BY <1>1, GoesOld
<1>4. /\ seen'[r].entry = seen[r].entry /\ seen'[r].rows = Sourced(job[r].entry)
      /\ seen'[r].due = DuesOf(job[r].entry) /\ seen'[r].bills = BillsByCustomer(job[r].entry)
  <2>1. seen'[r] = RowsRead(r)
    BY <1>3
  <2>2. /\ RowsRead(r).entry = seen[r].entry /\ RowsRead(r).rows = Sourced(job[r].entry)
        /\ RowsRead(r).due = DuesOf(job[r].entry) /\ RowsRead(r).bills = BillsByCustomer(job[r].entry)
    BY <1>1, <1>2, RowsReadFits DEF DuesOf, BillsByCustomer
  <2> QED
    BY <2>1, <2>2
<1>5. /\ Sourced(job[r].entry)' = Sourced(job[r].entry) /\ DuesOf(job[r].entry)' = DuesOf(job[r].entry)
      /\ BillsByCustomer(job[r].entry)' = BillsByCustomer(job[r].entry)
      /\ Sourced(job[r].entry) \subseteq Rows
  <2>1. PICK e : e = job[r].entry
    OBVIOUS
  <2>2. Sourced(e)' = Sourced(e) /\ DuesOf(e)' = DuesOf(e) /\ BillsByCustomer(e)' = BillsByCustomer(e)
    BY <1>3
  <2> QED
    BY <1>3, <2>1, <2>2 DEF Sourced, DuesOf, BillsByCustomer
<1>6. JobOld(r)'
  <2>1. \A i \in Sourced(job[r].entry) : i[1] \in Req => Over(i[1])
    BY DEF Inv, NothingYet, Sourced
  <2> QED
    BY <1>1, <1>3, <1>4, <2>1 DEF Right, JobOld
<1>7. SaveFits(r)'
  <2>1. SaveFits(r) /\ HasLoaded(r)
    BY <1>1 DEF Right, HasLoaded
  <2>2. kind[r] = "save" => Sourced(job[r].entry) = Sourced(job[r].entry) \cap Rows
    BY <1>5
  <2> QED
    BY <1>1, <1>3, <1>4, <1>5, <2>1, <2>2 DEF SaveFits
<1>8. DeleteFits(r)'
  <2>1. \A i \in Sourced(job[r].entry) : ledger[i].src = job[r].entry
    BY DEF Sourced
  <2>2. \A d \in DuesOf(job[r].entry) : d.src = job[r].entry
    BY DEF DuesOf
  <2> QED
    BY <1>1, <1>3, <1>4, <1>5, <2>1, <2>2 DEF Right, DeleteFits, HasLoaded
<1>9. RowFits(r)' /\ CustomerFits(r)'
  BY <1>1, <1>3 DEF RowFits, CustomerFits
<1> QED
  BY <1>1, <1>6, <1>7, <1>8, <1>9, GoesInv DEF Right

\* A statement that reads nothing.
LEMMA OnwardInv ==
  ASSUME Inv, NEW r \in Req, NEW at, NEW written, NEW locks,
         Goes(r, at, seen[r], written, locks), Running(r), TypeInv',
         at \in {"checkCustomers", "dropEntry", "countScope", "commit", "checkTwin", "insertRow"},
         kind[r] \in {"save", "deleteEntry"} => HasRead(r),
         at = "commit" =>
           /\ kind[r] = "save" => pc[r] = "post"
           /\ kind[r] = "deleteRow" => pc[r] = "writeRow"
           /\ kind[r] = "deleteCustomer" => pc[r] = "writeCustomer"
           /\ kind[r] = "deleteEntry" /\ "delete" \in Avoid =>
                /\ written.log \subseteq {job[r].scope}
                /\ IF LeftInScope(job[r].entry, job[r].scope) = {}
                   THEN job[r].scope \notin checkpoints \ written.log ELSE written.log = {}
  PROVE  Inv'
<1>1. /\ kind'[r] = kind[r] /\ pc'[r] = at /\ job'[r] = job[r] /\ seen'[r] = seen[r] /\ txn'[r] = written
      /\ entries' = entries /\ ledger' = ledger /\ Rows' = Rows /\ dues' = dues /\ checkpoints' = checkpoints
      /\ (\A x \in Req : Over(x) => Over(x)') /\ Right(r)
      /\ \A c : OfCustomer(c)' = OfCustomer(c)
  BY GoesOld
<1>2. PICK e, s : e = job[r].entry /\ s = job[r].scope
  OBVIOUS
<1>3. /\ Sourced(e)' = Sourced(e) /\ DuesOf(e)' = DuesOf(e) /\ BillsByCustomer(e)' = BillsByCustomer(e)
      /\ LeftInScope(e, s)' = LeftInScope(e, s)
  BY GoesOld
<1>4. /\ Sourced(job[r].entry)' = Sourced(e) /\ DuesOf(job[r].entry)' = DuesOf(e)
      /\ BillsByCustomer(job[r].entry)' = BillsByCustomer(e)
      /\ LeftInScope(job[r].entry, job[r].scope)' = LeftInScope(e, s)
  BY <1>1, <1>2, <1>3 DEF Sourced, DuesOf, BillsByCustomer, LeftInScope
<1>5. JobOld(r)'
  BY <1>1 DEF Right, JobOld, HasRead
<1>6. SaveFits(r)'
  <2>1. LinesSent(r)' = LinesSent(r)
    BY <1>1 DEF LinesSent
  <2> QED
    BY <1>1, <1>2, <1>4, <2>1 DEF Right, SaveFits, HasLoaded
<1>7. DeleteFits(r)'
  BY <1>1, <1>2, <1>4 DEF Right, DeleteFits, HasLoaded
<1>8. RowFits(r)'
  BY <1>1 DEF Right, RowFits
<1>9. CustomerFits(r)'
  BY <1>1 DEF Right, CustomerFits, MayGo, OfCustomer
<1> QED
  BY <1>5, <1>6, <1>7, <1>8, <1>9, GoesInv DEF Right

LEMMA EntryStatementsInv ==
  ASSUME Inv, NEW r \in Req, DropRows(r) \/ Post(r) \/ DropEntry(r) \/ CountScope(r)
  PROVE  Inv'
<1>1. TypeInv /\ TypeInv' /\ Right(r)
  BY DropRowsKeeps, PostKeeps, DropEntryKeeps, CountScopeKeeps DEF Inv
<1>2. CASE DropRows(r)
  <2>1. pc[r] = "dropRows" /\ Running(r) /\ kind[r] \in {"save", "deleteEntry"}
    BY <1>1, <1>2, KindAt DEF DropRows, Running
  <2>2. \E at \in {"checkCustomers", "dropEntry"} : \E written, locks : Goes(r, at, seen[r], written, locks)
    BY <1>1, <1>2, DropRowsIs
  <2> QED
    BY <1>1, <2>1, <2>2, OnwardInv DEF HasRead
<1>3. CASE Post(r)
  <2>1. pc[r] = "post" /\ Running(r) /\ kind[r] = "save"
    BY <1>1, <1>3, KindAt DEF Post, Running
  <2>2. Refuse(r) \/ \E written, locks : Goes(r, "commit", seen[r], written, locks)
    BY <1>1, <1>3, PostIs
  <2> QED
    BY <1>1, <2>1, <2>2, OnwardInv, RefuseInv DEF HasRead
<1>4. CASE DropEntry(r)
  <2>1. pc[r] = "dropEntry" /\ Running(r) /\ kind[r] = "deleteEntry"
    BY <1>1, <1>4, KindAt DEF DropEntry, Running
  <2>2. \E written, locks : Goes(r, "countScope", seen[r], written, locks)
    BY <1>1, <1>4, DropEntryIs
  <2> QED
    BY <1>1, <2>1, <2>2, OnwardInv DEF HasRead
<1>5. CASE CountScope(r)
  <2> DEFINE log == IF LeftInScope(job[r].entry, seen[r].entry.scope) = {}
                    THEN {seen[r].entry.scope} \cap checkpoints ELSE {}
  <2>1. pc[r] = "countScope" /\ Running(r) /\ kind[r] = "deleteEntry"
    BY <1>1, <1>5, KindAt DEF CountScope, Running
  <2>2. Goes(r, "commit", seen[r], [EntryDropped(r) EXCEPT !.log = log], holds[r])
    BY <1>1, <1>5, CountScopeIs
  <2>3. "delete" \in Avoid => seen[r].entry.scope = job[r].scope
    BY <1>1, <2>1 DEF Right, DeleteFits, HasLoaded, HasRead
  <2>4. [EntryDropped(r) EXCEPT !.log = log].log = log
    BY DEF EntryDropped, RowsDropped, Dropped, NothingWritten
  <2>5. "delete" \in Avoid =>
           /\ log \subseteq {job[r].scope}
           /\ IF LeftInScope(job[r].entry, job[r].scope) = {}
              THEN job[r].scope \notin checkpoints \ log ELSE log = {}
    BY <2>3
  <2> HIDE DEF log
  <2> QED
    BY <1>1, <2>1, <2>2, <2>4, <2>5, OnwardInv DEF HasRead
<1> QED
  BY <1>2, <1>3, <1>4, <1>5

LEMMA CheckCustomersInv ==
  ASSUME Inv, NEW r \in Req, CheckCustomers(r)
  PROVE  Inv'
<1> DEFINE lines == BuildPayments(job[r].form.lines)
<1>1. TypeInv /\ TypeInv' /\ Right(r) /\ pc[r] = "checkCustomers" /\ Running(r) /\ kind[r] = "save"
  BY CheckCustomersKeeps, KindAt DEF Inv, CheckCustomers, Running
<1>2. CASE Refuse(r)
  BY <1>2, RefuseInv
<1>3. CASE Goes(r, "post", [seen[r] EXCEPT !.lines = lines], txn[r], holds[r])
  <2>1. /\ kind'[r] = kind[r] /\ pc'[r] = "post" /\ job'[r] = job[r] /\ seen'[r] = [seen[r] EXCEPT !.lines = lines]
        /\ entries' = entries /\ Rows' = Rows /\ (\A x \in Req : Over(x) => Over(x)')
        /\ \A c : OfCustomer(c)' = OfCustomer(c)
    BY <1>1, <1>3, GoesOld
  <2>2. PICK e : e = job[r].entry
    OBVIOUS
  <2>3. Sourced(e)' = Sourced(e) /\ DuesOf(e)' = DuesOf(e) /\ BillsByCustomer(e)' = BillsByCustomer(e)
    BY <1>1, <1>3, GoesOld
  <2>4. /\ Sourced(job[r].entry)' = Sourced(e) /\ DuesOf(job[r].entry)' = DuesOf(e)
        /\ BillsByCustomer(job[r].entry)' = BillsByCustomer(e)
    BY <2>1, <2>2, <2>3 DEF Sourced, DuesOf, BillsByCustomer
  <2>5. /\ seen'[r].entry = seen[r].entry /\ seen'[r].rows = seen[r].rows /\ seen'[r].bills = seen[r].bills
        /\ seen'[r].due = seen[r].due /\ seen'[r].lines = lines
    <3>1. seen[r] \in EntryRead
      BY <1>1 DEF TypeInv, Fits, SeenFits
    <3> HIDE DEF lines
    <3> QED
      BY <2>1, <3>1 DEF EntryRead
  <2>6. LinesSent(r)'
    <3>1. PICK s : s = job[r].form.lines
      OBVIOUS
    <3>2. \A i \in DOMAIN BuildPayments(s) : BuildPayments(s)[i] = s[i] \/ BuildPayments(s)[i] = [s[i] EXCEPT !.who = None]
      BY DEF BuildPayments
    <3> QED
      BY <2>1, <2>5, <3>1, <3>2 DEF LinesSent
  <2>7. JobOld(r)'
    BY <1>1, <2>1, <2>5 DEF Right, JobOld, HasRead
  <2>8. SaveFits(r)'
    BY <1>1, <2>1, <2>2, <2>4, <2>5, <2>6 DEF Right, SaveFits, HasLoaded, HasRead
  <2>9. DeleteFits(r)' /\ RowFits(r)' /\ CustomerFits(r)'
    BY <1>1, <2>1 DEF DeleteFits, RowFits, CustomerFits
  <2> QED
    BY <1>1, <1>3, <2>7, <2>8, <2>9, GoesInv DEF Right
<1> QED
  BY <1>1, <1>2, <1>3, CheckCustomersIs

LEMMA RowStatementsInv ==
  ASSUME Inv, NEW r \in Req, LoadRow(r) \/ WriteBill(r) \/ DeleteRow(r)
  PROVE  Inv'
<1>1. TypeInv /\ TypeInv' /\ Right(r)
  BY LoadRowKeeps, WriteBillKeeps, DeleteRowKeeps DEF Inv
<1>2. CASE LoadRow(r)
  <2>1. kind[r] \in {"attach", "deleteRow"} /\ Running(r)
    BY <1>1, <1>2, LoadRowIs
  <2>2. CASE Refuse(r)
    BY <2>2, RefuseInv
  <2>3. CASE /\ ledger[job[r].row] # None
             /\ kind[r] = "deleteRow" => ledger[job[r].row].src = None
             /\ Goes(r, "writeRow", ledger[job[r].row].bill, txn[r], holds[r])
    <3>1. /\ kind'[r] = kind[r] /\ pc'[r] = "writeRow" /\ job'[r] = job[r]
          /\ ledger' = ledger /\ Rows' = Rows /\ (\A x \in Req : Over(x) => Over(x)')
      BY <2>1, <2>3, GoesOld
    <3>2. JobOld(r)'
      BY <1>1, <2>1, <3>1 DEF Right, JobOld, HasRead
    <3>3. RowFits(r)'
      <4>1. job[r].row \in Rows
        BY <1>1, <2>1, <2>3, JobIs DEF Rows
      <4>2. ledger[job[r].row].src \in {job[r].entry} \cup Lost
        BY <1>1, <2>1, <4>1 DEF Right, RowFits
      <4>3. kind[r] = "deleteRow" /\ "delete" \in Avoid => job[r].entry = None
        BY <2>3, <4>2 DEF Lost
      <4> QED
        BY <1>1, <2>1, <2>3, <3>1, <4>1, <4>2, <4>3 DEF RowFits
    <3>4. SaveFits(r)' /\ DeleteFits(r)' /\ CustomerFits(r)'
      BY <2>1, <3>1 DEF SaveFits, DeleteFits, CustomerFits
    <3> QED
      BY <1>1, <2>1, <2>3, <3>2, <3>3, <3>4, GoesInv DEF Right
  <2> QED
    BY <1>1, <1>2, <2>2, <2>3, LoadRowIs
<1>3. CASE WriteBill(r)
  <2>1. kind[r] = "attach" /\ Running(r)
    BY <1>1, <1>3, WriteBillIs
  <2>2. Refuse(r) \/ \E written, locks : Goes(r, "commit", seen[r], written, locks)
    BY <1>1, <1>3, WriteBillIs
  <2> QED
    BY <1>1, <2>1, <2>2, OnwardInv, RefuseInv
<1>4. CASE DeleteRow(r)
  <2>1. kind[r] = "deleteRow" /\ Running(r) /\ pc[r] = "writeRow"
    BY <1>1, <1>4, DeleteRowIs DEF DeleteRow
  <2>2. \E written, locks : Goes(r, "commit", seen[r], written, locks)
    BY <1>1, <1>4, DeleteRowIs
  <2> QED
    BY <1>1, <2>1, <2>2, OnwardInv
<1> QED
  BY <1>2, <1>3, <1>4

LEMMA AddingInv ==
  ASSUME Inv, NEW r \in Req, LockCustomer(r) \/ CheckTwin(r) \/ InsertRow(r)
  PROVE  Inv'
<1>1. TypeInv /\ TypeInv'
  BY AddingKeeps DEF Inv
<1>2. /\ kind[r] = "add" /\ Running(r)
      /\ \/ Refuse(r)
         \/ \E at \in {"checkTwin", "insertRow", "commit"} : \E written, locks : Goes(r, at, seen[r], written, locks)
  BY <1>1, LockCustomerIs, CheckTwinIs, InsertRowIs
<1> QED
  BY <1>1, <1>2, OnwardInv, RefuseInv

LEMMA CustomerStatementsInv ==
  ASSUME Inv, NEW r \in Req, LoadCustomer(r) \/ WriteCustomer(r) \/ DeleteCustomer(r)
  PROVE  Inv'
<1>1. TypeInv /\ TypeInv' /\ Right(r)
  BY LoadCustomerKeeps, WriteCustomerKeeps, DeleteCustomerKeeps DEF Inv
<1>2. CASE LoadCustomer(r)
  <2>1. kind[r] \in {"saveCustomer", "deleteCustomer"} /\ Running(r)
    BY <1>1, <1>2, LoadCustomerIs
  <2>2. CASE Refuse(r)
    BY <2>2, RefuseInv
  <2>3. CASE /\ job[r].cust \in Known /\ (kind[r] = "deleteCustomer" => MayGo(job[r].cust))
             /\ Goes(r, "writeCustomer",
                     [bills |-> custs[job[r].cust], rows |-> BillsOf(OfCustomer(job[r].cust))],
                     txn[r], holds[r])
    <3>1. /\ kind'[r] = kind[r] /\ pc'[r] = "writeCustomer" /\ job'[r] = job[r]
          /\ ledger' = ledger /\ Rows' = Rows /\ (\A x \in Req : Over(x) => Over(x)')
      BY <2>1, <2>3, GoesOld
    <3>2. JobOld(r)'
      BY <1>1, <2>1, <3>1 DEF Right, JobOld, HasRead
    <3>3. CustomerFits(r)'
      BY <2>1, <2>3, <3>1 DEF CustomerFits, MayGo, OfCustomer
    <3>4. SaveFits(r)' /\ DeleteFits(r)' /\ RowFits(r)'
      BY <2>1, <3>1 DEF SaveFits, DeleteFits, RowFits
    <3> QED
      BY <1>1, <2>1, <2>3, <3>2, <3>3, <3>4, GoesInv DEF Right
  <2> QED
    BY <1>1, <1>2, <2>2, <2>3, LoadCustomerIs
<1>3. CASE WriteCustomer(r)
  <2>1. kind[r] \in {"saveCustomer", "addCustomer"} /\ Running(r)
    BY <1>1, <1>3, WriteCustomerIs
  <2>2. Refuse(r) \/ \E written, locks : Goes(r, "commit", seen[r], written, locks)
    BY <1>1, <1>3, WriteCustomerIs
  <2> QED
    BY <1>1, <2>1, <2>2, OnwardInv, RefuseInv
<1>4. CASE DeleteCustomer(r)
  <2>1. kind[r] = "deleteCustomer" /\ Running(r) /\ pc[r] = "writeCustomer"
    BY <1>1, <1>4, DeleteCustomerIs DEF DeleteCustomer
  <2>2. \E written, locks : Goes(r, "commit", seen[r], written, locks)
    BY <1>1, <1>4, DeleteCustomerIs
  <2> QED
    BY <1>1, <2>1, <2>2, OnwardInv
<1> QED
  BY <1>2, <1>3, <1>4

LEMMA StatementsInv ==
  ASSUME Inv, NEW r \in Req, Statements(r)
  PROVE  Inv'
BY LoadForSaveInv, LoadForDeleteInv, ReadRowsInv, EntryStatementsInv, CheckCustomersInv,
   RowStatementsInv, AddingInv, CustomerStatementsInv DEF Statements

\* A request is about what was there, and clashes with none that is under way.
LEMMA SendInv ==
  ASSUME Inv, NEW r \in Req, Send(r)
  PROVE  Inv'
<1>1. TypeInv /\ TypeInv'
  BY SendKeeps DEF Inv
<1>2. PICK j : Asks(r, j)
  BY <1>1, SendIs
<1>3. /\ ~Over(r) /\ AsksFor(r, j) /\ kind'[r] = kind[r] /\ job'[r] = j
      /\ UNCHANGED Tables /\ checkpoints' = checkpoints /\ \A q \in Req \ {r} : UNCHANGED Mine(q)
      /\ pc'[r] \in {"loadEntry", "loadRow", "lockCustomer", "loadCustomer", "writeCustomer"}
      /\ pc'[r] = "writeCustomer" => kind[r] = "addCustomer"
      /\ \A q \in Req : job[q] # None => ~Clash(j, job[q])
  BY <1>2 DEF Asks, Over, QuietStep, Tables, committed
<1>4. /\ entries' = entries /\ custs' = custs /\ ledger' = ledger /\ Rows' = Rows
      /\ \A x \in Req : Over(x)' <=> Over(x)
  BY <1>3 DEF Tables, Rows, Mine, Over
<1>5. /\ entries[r] = None /\ \A x \in Req : ~Over(x) => entries[x] = None /\ custs[x] = None /\ \A i \in Rows : i[1] # x
  BY <1>3 DEF Inv, NothingYet
<1>6. /\ \A x \in OnRecord \cap Req : Over(x)
      /\ \A x \in Known \cap Req : Over(x)
      /\ \A i \in Rows : (i[1] \in Req => Over(i[1])) /\ (ledger[i].src \in Req => Over(ledger[i].src))
  BY <1>5 DEF OnRecord, Known, Inv, SourcesOld
<1>7. JobOld(r)'
  <2>1. ~HasRead(r)'
    BY <1>3 DEF HasRead
  <2>2. j.entry \in Req => Over(j.entry) \/ (kind[r] = "save" /\ j.entry = r)
    <3>1. CASE kind[r] \in {"save", "deleteEntry"}
      BY <1>3, <1>6, <3>1 DEF AsksFor
    <3>2. CASE kind[r] \in {"attach", "deleteRow"}
      BY <1>3, <1>6, <3>2 DEF AsksFor
    <3>3. CASE kind[r] \notin {"save", "deleteEntry", "attach", "deleteRow"}
      <4>1. j.entry = None
        BY <1>3, <3>3 DEF AsksFor, JobOf
      <4> QED
        BY <4>1, IdsAreDistinct DEF EntryIds
    <3> QED
      BY <3>1, <3>2, <3>3
  <2>3. kind[r] \in {"attach", "deleteRow"} => (j.row[1] \in Req => Over(j.row[1]))
    BY <1>3, <1>6 DEF AsksFor
  <2>4. /\ kind[r] = "saveCustomer" /\ j.cust \in Req \ {r} => Over(j.cust)
        /\ kind[r] = "addCustomer" => j.cust = r
    BY <1>3, <1>6 DEF AsksFor
  <2> QED
    BY <1>3, <1>4, <2>1, <2>2, <2>3, <2>4 DEF JobOld
<1>8. SaveFits(r)'
  BY <1>3, <1>4, <1>5, FreshIs DEF SaveFits, HasLoaded, HasRead, AsksFor, OnRecord
<1>9. DeleteFits(r)'
  BY <1>3, <1>4 DEF DeleteFits, HasLoaded, HasRead, AsksFor
<1>10. RowFits(r)' /\ CustomerFits(r)'
  BY <1>3, <1>4 DEF RowFits, CustomerFits, AsksFor
<1>11. \A q \in Req \ {r} : NotPutBack(q)
  BY <1>3 DEF NotPutBack
<1> QED
  BY <1>1, <1>3, <1>7, <1>8, <1>9, <1>10, <1>11, QuietInv DEF Right

LEMMA InitInv == Init => Inv
<1> SUFFICES ASSUME Init PROVE Inv
  OBVIOUS
<1>1. TypeInv
  BY InitTyped
<1>2. PICK d \in Databases : entries = d.entries /\ custs = d.custs /\ ledger = d.ledger /\ dues = d.dues
  BY DEF Init
<1>3. \A r \in Req : pc[r] = "idle" /\ job[r] = None
  BY DEF Init
<1>4. Before \notin Req /\ Rows \subseteq RowIds
  BY IdsAreDistinct DEF Rows
<1>5. \A r \in Req : entries[r] = None /\ custs[r] = None
  BY <1>2, DatabasesSound
<1>6. /\ \A i \in Rows : i[1] = Before /\ (ledger[i].src # None => entries[ledger[i].src] # None)
      /\ \A u \in dues : u.src # None => entries[u.src] # None
  BY <1>2, <1>4, DatabasesSound DEF Rows
<1>7. NothingYet
  BY <1>4, <1>5, <1>6 DEF NothingYet
<1>8. SourcesOld
  <2>1. None \notin Req
    BY IdsAreDistinct DEF EntryIds
  <2> QED
    BY <1>5, <1>6, <2>1 DEF SourcesOld
<1>9. NoClash
  BY <1>3 DEF NoClash
<1>10. \A r \in Req : Right(r)
  BY <1>3, RestingRight DEF Running
<1> QED
  BY <1>1, <1>7, <1>8, <1>9, <1>10 DEF Inv

LEMMA NextInv == Inv /\ LockInv /\ [Next]_vars => Inv'
<1> SUFFICES ASSUME Inv, LockInv, [Next]_vars PROVE Inv'
  OBVIOUS
<1>0. TypeInv /\ TypeInv'
  BY NextTyped DEF Inv
<1>1. ASSUME NEW r \in Req, Upload(r) \/ DeleteUpload(r) PROVE Inv'
  <2>1. /\ UNCHANGED <<committed, kind, young>> /\ pc[r] \in {"idle", "ready"}
        /\ \A q \in Req \ {r} : UNCHANGED Mine(q)
    BY <1>0, <1>1, ClientKeeps
  <2>2. pc'[r] \in {"ready", "done"}
    BY <1>0, <1>1 DEF Upload, DeleteUpload, Goto, TypeInv
  <2>3. UNCHANGED Tables /\ ~Over(r) /\ ~Running(r)' /\ \A q \in Req \ {r} : NotPutBack(q)
    BY <2>1, <2>2 DEF Tables, committed, Over, Running, NotPutBack
  <2> QED
    BY <1>0, <2>1, <2>3, RestsInv
<1>2. ASSUME NEW r \in Req, Send(r) PROVE Inv'
  BY <1>2, SendInv
<1>3. ASSUME NEW r \in Req, Statements(r) PROVE Inv'
  BY <1>3, StatementsInv
<1>4. ASSUME NEW r \in Req, Commit(r) \/ CleanUp(r) \/ Abort(r) PROVE Inv'
  <2>1. CASE CleanUp(r)
    <3>1. QuietStep(r) /\ pc'[r] = "done"
      BY <1>0, <2>1, CleanUpKeeps
    <3>2. /\ UNCHANGED Tables /\ (\A q \in Req \ {r} : UNCHANGED Mine(q)) /\ Over(r)' /\ ~Running(r)'
          /\ \A q \in Req \ {r} : NotPutBack(q)
      BY <3>1 DEF QuietStep, Tables, committed, Over, Running, NotPutBack
    <3> QED
      BY <1>0, <3>2, RestsInv
  <2> QED
    BY <1>4, <2>1, CommitKeepsInv, RefuseInv DEF Abort
<1>5. ASSUME NEW r \in Req, NEW s \in Scopes, SaveCheckpoint(r, s) \/ DeleteCheckpoint(r, s) PROVE Inv'
  <2>1. PICK now \in SUBSET Scopes : ByHand(r, now)
    BY <1>0, <1>5 DEF SaveCheckpoint, DeleteCheckpoint, TypeInv, TypeOK
  <2>2. /\ \A q \in Req \ {r} : UNCHANGED Mine(q)
        /\ UNCHANGED <<entries, custs, ledger, dues, files, kind, young>>
    BY <1>0, <2>1, ByHandKeeps
  <2>3. pc[r] = "idle" /\ pc'[r] = "done"
    BY <1>0, <2>1 DEF ByHand, Goto, TypeInv
  <2>4. UNCHANGED Tables /\ ~Over(r) /\ ~Running(r)'
    BY <2>2, <2>3 DEF Tables, Over, Running
  <2>5. \A q \in Req \ {r} : NotPutBack(q)
    <3>1. ASSUME NEW q \in Req, "delete" \in Avoid, kind[q] = "deleteEntry", Running(q),
                 job[q].scope \in checkpoints'
          PROVE  job[q].scope \in checkpoints
      <4>1. job[q] # None /\ job[q].op = "deleteEntry"
        BY <1>0, <3>1, HasJob, JobIs
      <4>2. CASE SaveCheckpoint(r, s)
        BY <3>1, <4>1, <4>2 DEF SaveCheckpoint, ByHand
      <4>3. CASE DeleteCheckpoint(r, s)
        BY <3>1, <4>3 DEF DeleteCheckpoint, ByHand
      <4> QED
        BY <1>5, <4>2, <4>3
    <3> QED
      BY <3>1 DEF NotPutBack
  <2> QED
    BY <1>0, <2>2, <2>4, <2>5, RestsInv
<1>6. CASE Restart
  <2>1. /\ UNCHANGED <<committed, files, kind>>
        /\ \A r \in Req : /\ pc'[r] = IF Running(r) \/ pc[r] = "cleanup" THEN "failed" ELSE pc[r]
                          /\ job'[r] = None
    BY <1>0, <1>6, RestartKeeps
  <2>2. /\ entries' = entries /\ custs' = custs /\ ledger' = ledger /\ dues' = dues /\ Rows' = Rows
        /\ \A r \in Req : ~Running(r)' /\ (Over(r) => Over(r)')
    BY <2>1 DEF committed, Rows, Running, Over
  <2>3. \A r \in Req : Right(r)'
    BY <2>2, RestedRight
  <2>4. NothingYet' /\ SourcesOld' /\ NoClash'
    BY <2>1, <2>2 DEF Inv, NothingYet, SourcesOld, NoClash
  <2> QED
    BY <1>0, <2>3, <2>4 DEF Inv
<1>7. CASE UNCHANGED <<committed, files, kind, pc, job, seen, txn, holds>> /\ young' \subseteq young
  <2>1. /\ UNCHANGED Tables /\ job' = job /\ pc' = pc /\ entries' = entries /\ custs' = custs /\ Rows' = Rows
        /\ ledger' = ledger /\ dues' = dues /\ checkpoints' = checkpoints /\ \A r \in Req : UNCHANGED Mine(r)
    BY <1>7 DEF committed, Tables, Mine, Rows
  <2>2. \A r \in Req : (Over(r)' <=> Over(r)) /\ NotPutBack(r)
    BY <2>1 DEF Over, NotPutBack
  <2>3. \A r \in Req : Right(r)'
    BY <2>1, <2>2, OthersRight DEF Inv
  <2>4. NothingYet' /\ SourcesOld'
    BY <2>1, <2>2 DEF Inv, NothingYet, SourcesOld
  <2>5. NoClash'
    BY <2>1 DEF Inv, NoClash, Clash, Unsafe, AttachClash, CustomerClash, DeleteClash, FormsClash, Touches, OnRecord
  <2> QED
    BY <1>0, <2>3, <2>4, <2>5 DEF Inv
<1> QED
  BY <1>1, <1>2, <1>3, <1>4, <1>5, <1>6, <1>7, NextIs

\* What each request goes by, for whatever overlaps clients avoid.
THEOREM InvHolds == Spec => []Inv
BY InitInv, NextInv, LocksHold, PTL DEF Spec

-----------------------------------------------------------------------------
(***************************************************************************)
(* What clients that avoid an overlap can count on                         *)
(***************************************************************************)

LEMMA StatementsGo ==
  ASSUME TypeInv, NEW r \in Req, Statements(r)
  PROVE  /\ Running(r)
         /\ Refuse(r) \/ \E at, read, written, locks : Goes(r, at, read, written, locks)
<1>1. CASE LoadForSave(r) \/ LoadForDelete(r) \/ ReadRows(r)
  BY <1>1, LoadForSaveIs, LoadForDeleteIs, ReadRowsIs
<1>2. CASE DropRows(r) \/ CheckCustomers(r)
  BY <1>2, DropRowsIs, CheckCustomersIs
<1>3. CASE Post(r) \/ DropEntry(r) \/ CountScope(r)
  BY <1>3, PostIs, DropEntryIs, CountScopeIs
<1>4. CASE LoadRow(r) \/ WriteBill(r) \/ DeleteRow(r)
  BY <1>4, LoadRowIs, WriteBillIs, DeleteRowIs
<1>5. CASE LockCustomer(r) \/ CheckTwin(r) \/ InsertRow(r)
  BY <1>5, LockCustomerIs, CheckTwinIs, InsertRowIs
<1>6. CASE LoadCustomer(r) \/ WriteCustomer(r) \/ DeleteCustomer(r)
  BY <1>6, LoadCustomerIs, WriteCustomerIs, DeleteCustomerIs
<1> QED
  BY <1>1, <1>2, <1>3, <1>4, <1>5, <1>6 DEF Statements

\* A step that changes a row is a commit.
LEMMA OnlyCommits ==
  ASSUME Inv, [Next]_vars
  PROVE  (\E q \in Req : Commit(q)) \/ UNCHANGED Tables
<1>0. TypeInv
  BY DEF Inv
<1>1. ASSUME NEW r \in Req, Upload(r) \/ DeleteUpload(r) PROVE UNCHANGED Tables
  BY <1>0, <1>1, ClientKeeps DEF Tables, committed
<1>2. ASSUME NEW r \in Req, Send(r) PROVE UNCHANGED Tables
  BY <1>2 DEF Send, Tables, committed
<1>3. ASSUME NEW r \in Req, Statements(r) PROVE UNCHANGED Tables
  BY <1>0, <1>3, StatementsGo, RefuseKeeps DEF Goes, QuietStep, Tables, committed
<1>4. ASSUME NEW r \in Req, CleanUp(r) \/ Abort(r) PROVE UNCHANGED Tables
  BY <1>0, <1>4, CleanUpKeeps, RefuseKeeps DEF Abort, QuietStep, Tables, committed
<1>5. ASSUME NEW r \in Req, NEW s \in Scopes, SaveCheckpoint(r, s) \/ DeleteCheckpoint(r, s) PROVE UNCHANGED Tables
  BY <1>5 DEF SaveCheckpoint, DeleteCheckpoint, ByHand, Tables
<1>6. CASE Restart
  BY <1>6 DEF Restart, Tables, committed
<1>7. CASE UNCHANGED <<committed, files, kind, pc, job, seen, txn, holds>> /\ young' \subseteq young
  BY <1>7 DEF Tables, committed
<1> QED
  BY <1>1, <1>2, <1>3, <1>4, <1>5, <1>6, <1>7, NextIs

\* A charge that an entry has made leaves the ledger with a save or the deletion of that
\* entry and in no other way, if no customer is deleted while a save that names him is
\* under way; without that he takes it along (MCCreditLedger_customers).
THEOREM SourcedChargesStayHolds ==
  ASSUME "customer" \in Avoid
  PROVE  Spec => SourcedChargesStay
<1>1. Inv /\ [Next]_vars =>
        [\A i \in Rows :
           ledger[i].src # None /\ ledger'[i] = None =>
             \E r \in Req : /\ pc[r] = "commit"
                            /\ job[r].op \in {"save", "deleteEntry"}
                            /\ job[r].entry = ledger[i].src]_vars
  <2> SUFFICES ASSUME Inv, [Next]_vars, NEW i \in Rows, ledger[i].src # None, ledger'[i] = None
               PROVE  \E r \in Req : /\ pc[r] = "commit"
                                     /\ job[r].op \in {"save", "deleteEntry"}
                                     /\ job[r].entry = ledger[i].src
    OBVIOUS
  <2>1. i \in RowIds /\ ledger[i] # None /\ i \notin Rows'
    BY DEF Rows
  <2>2. PICK q \in Req : Commit(q)
    BY <2>1, OnlyCommits DEF Tables
  <2>3. RowMoves(q, i)
    BY <2>1, <2>2, RowsMove
  <2>4. kind[q] \in {"save", "deleteEntry"} /\ ledger[i].src = job[q].entry
    BY <2>1, <2>3 DEF RowMoves, Takes
  <2>5. pc[q] = "commit" /\ job[q].op = kind[q]
    BY <2>2, CommitIs, JobIs
  <2> QED
    BY <2>4, <2>5
<1> QED
  BY <1>1, InvHolds, PTL DEF Spec, SourcedChargesStay

\* The last entry of a scope that is deleted takes the fuel stock checkpoint of its day with
\* it, and no deletion of another one does, if nobody changes the entries of a scope or puts
\* in its checkpoint while one of them is being deleted.
THEOREM CheckpointsFollow ==
  ASSUME "delete" \in Avoid
  PROVE  Spec => CheckpointsFollowEntries
<1>1. ASSUME Inv, [Next]_vars, NEW s \in Scopes
      PROVE  /\ (\E e \in InScope(entries, s) : entries'[e] = None) /\ InScope(entries', s) = {} =>
                  s \notin checkpoints'
             /\ entries' # entries /\ s \in checkpoints \ checkpoints' => InScope(entries', s) = {}
  <2>1. CASE UNCHANGED Tables
    BY <2>1 DEF Tables, InScope
  <2>2. ASSUME NEW q \in Req, Commit(q)
        PROVE  /\ (\E e \in InScope(entries, s) : entries'[e] = None) /\ InScope(entries', s) = {} =>
                    s \notin checkpoints'
               /\ entries' # entries /\ s \in checkpoints \ checkpoints' => InScope(entries', s) = {}
    <3>1. /\ TypeInv /\ Right(q) /\ Running(q) /\ pc[q] = "commit"
          /\ entries \in [EntryIds -> Entry \cup {None}]
      BY <1>1, <2>2, CommitIs DEF TypeInv, TypeOK
    <3>2. CASE kind[q] = "deleteEntry"
      <4>1. /\ entries' = [entries EXCEPT ![job[q].entry] = None] /\ job[q].entry \in EntryIds
            /\ checkpoints' = checkpoints \ txn[q].log
        BY <2>2, <3>1, <3>2, CommitDeleteEntry
      <4>2. /\ entries[job[q].entry] # None => entries[job[q].entry].scope = job[q].scope
            /\ txn[q].log \subseteq {job[q].scope}
            /\ IF LeftInScope(job[q].entry, job[q].scope) = {} THEN job[q].scope \notin checkpoints \ txn[q].log
               ELSE txn[q].log = {}
        BY <3>1, <3>2 DEF Right, DeleteFits
      <4>3. LeftInScope(job[q].entry, s) = InScope(entries', s)
        BY <3>1, <4>1 DEF LeftInScope, OnRecord, InScope
      <4>4. (\E e \in InScope(entries, s) : entries'[e] = None) => job[q].scope = s
        BY <3>1, <4>1, <4>2 DEF InScope
      <4> QED
        BY <4>1, <4>2, <4>3, <4>4
    <3>3. CASE kind[q] # "deleteEntry"
      <4>1. checkpoints' = checkpoints
        BY <2>2, <3>1, <3>3, CommitSave, CommitAttach, CommitDeleteRow, CommitAdd, CommitCustomer,
           CommitDeleteCustomer, CommitKeeps
      <4>2. ASSUME NEW x \in InScope(entries, s), entries'[x] = None PROVE FALSE
        <5>0. x \in EntryIds /\ entries[x] # None
          BY <4>2 DEF InScope
        <5>1. CASE kind[q] = "save" /\ job[q].entry = x
          <6>1. /\ entries' = [entries EXCEPT ![x] = NewEntry(q)] /\ seen[q] \in EntryRead
            BY <2>2, <3>1, <5>1, CommitSave
          <6>2. NewEntry(q) \in Entry
            BY <3>1, <5>1, <6>1, NewEntryIs
          <6> QED
            BY <3>1, <4>2, <5>0, <6>1, <6>2, IdsAreDistinct
        <5>2. CASE ~(kind[q] = "save" /\ job[q].entry = x)
          BY <1>1, <2>2, <3>3, <4>2, <5>0, <5>2, EntryStays
        <5> QED
          BY <5>1, <5>2
      <4> QED
        BY <4>1, <4>2
    <3> QED
      BY <3>2, <3>3
  <2> QED
    BY <1>1, <2>1, <2>2, OnlyCommits
<1>2. Inv /\ [Next]_vars =>
        [\A s \in Scopes :
           /\ (\E e \in InScope(entries, s) : entries'[e] = None) /\ InScope(entries', s) = {} =>
                s \notin checkpoints'
           /\ entries' # entries /\ s \in checkpoints \ checkpoints' => InScope(entries', s) = {}]_vars
  BY <1>1
<1> QED
  BY <1>2, InvHolds, PTL DEF Spec, CheckpointsFollowEntries

-----------------------------------------------------------------------------
(***************************************************************************)
(* What customers owe for an entry is in their ledgers                     *)
(***************************************************************************)
\* Of what is the amount of no row and of no line there are as many rows as lines: none.
LEMMA MatchOfAny ==
  ASSUME NEW es, NEW rows, ChargesMatch(es, rows), NEW e \in EntryIds, es[e] # None,
         NEW c \in Customers, NEW n
  PROVE  Cardinality(Charging(rows, e, c, n)) = Cardinality(Owing(es[e], c, n))
<1> DEFINE amounts == {rows[i].amount : i \in MadeBy(rows, e)}
                      \cup {es[e].lines[i].amount : i \in DOMAIN es[e].lines}
<1>1. CASE n \in amounts
  BY <1>1 DEF ChargesMatch
<1>2. CASE n \notin amounts
  <2>1. Charging(rows, e, c, n) = {} /\ Owing(es[e], c, n) = {}
    BY <1>2 DEF Charging, Owing, ChargeLines
  <2> QED
    BY <2>1
<1> QED
  BY <1>1, <1>2

\* A save charges each customer once for each line that says so.
LEMMA SaveCharges ==
  ASSUME Inv, NEW q \in Req, Commit(q), kind[q] = "save", NEW c \in Customers, NEW n
  PROVE  Cardinality(Charging(ledger', job[q].entry, c, n)) = Cardinality(Owing(NewEntry(q), c, n))
<1> DEFINE x == NewEntry(q)
           e == job[q].entry
           bill(i) == CarriedBill(x, i, seen[q].bills)
<1>1. /\ TypeInv /\ pc[q] = "commit" /\ Running(q) /\ Sourced(e) = seen[q].rows \cap Rows
      /\ e \in EntryIds /\ e # None /\ seen[q] \in EntryRead
      /\ ledger' = [i \in RowIds |-> IF i \in DOMAIN Charges(q) THEN Charges(q)[i]
                                     ELSE IF i \in seen[q].rows THEN None ELSE ledger[i]]
  BY CommitIs, CommitSave, IdsAreDistinct DEF Right, SaveFits, HasRead
<1>2. /\ DOMAIN Charges(q) = IF job[q].form.final THEN {<<q, i>> : i \in ChargeLines(x)} ELSE {}
      /\ DOMAIN Charges(q) \in SUBSET RowIds
  BY <1>1, ChargesAre
<1>21. ASSUME NEW row \in DOMAIN Charges(q)
       PROVE  /\ row = <<q, row[2]>> /\ row[2] \in ChargeLines(x) /\ Charges(q)[row] \in Charge
              /\ Charges(q)[row] = [cust |-> x.lines[row[2]].who, type |-> "credit",
                                    amount |-> x.lines[row[2]].amount, src |-> e, bill |-> bill(row[2])]
  BY <1>1, ChargesAre
<1>3. x.final = job[q].form.final /\ x.lines \in Seq(Line)
  BY <1>1, NewEntryIs DEF EntryRead
<1> HIDE DEF x, e, bill
<1>20. ASSUME NEW row \in DOMAIN Charges(q)
       PROVE  /\ row = <<q, row[2]>> /\ row[2] \in ChargeLines(x) /\ Charges(q)[row] \in Charge
              /\ Charges(q)[row].cust = x.lines[row[2]].who /\ Charges(q)[row].amount = x.lines[row[2]].amount
              /\ Charges(q)[row].src = e
  BY <1>21
<1>4. None \notin Charge
  BY IdsAreDistinct
<1>5. \A i \in RowIds : i \in MadeBy(ledger', e) <=> i \in DOMAIN Charges(q)
  <2>1. ASSUME NEW i \in DOMAIN Charges(q) PROVE i \in MadeBy(ledger', e)
    <3>0. i \in RowIds /\ Charges(q)[i] \in Charge
      BY <1>2, <1>20
    <3>2. Charges(q)[i].src = e
      BY <1>20
    <3>1. ledger'[i] = Charges(q)[i] /\ Charges(q)[i] # None
      BY <1>1, <1>4, <3>0
    <3> QED
      BY <3>0, <3>1, <3>2 DEF MadeBy
  <2>2. ASSUME NEW i \in MadeBy(ledger', e) PROVE i \in DOMAIN Charges(q)
    BY <1>1 DEF MadeBy, Sourced, Rows
  <2> QED
    BY <2>1, <2>2
<1> DEFINE S == Owing(x, c, n)
           T == Charging(ledger', e, c, n)
           f == [i \in S |-> <<q, i>>]
<1>6. T = {i \in DOMAIN Charges(q) : Charges(q)[i].cust = c /\ Charges(q)[i].amount = n}
  BY <1>1, <1>2, <1>5 DEF Charging, MadeBy
<1>7. IsFiniteSet(S)
  <2>1. S \in SUBSET (1 .. Len(x.lines))
    BY <1>3, ChargeLinesAre DEF Owing
  <2>2. IsFiniteSet(1 .. Len(x.lines))
    <3>1. Len(x.lines) \in Int
      BY <1>3
    <3> QED
      BY <3>1, FS_Interval
  <2> QED
    BY <2>1, <2>2, FS_Subset
<1>8. \A i \in S : /\ <<q, i>> \in DOMAIN Charges(q) /\ i \in ChargeLines(x)
                   /\ x.lines[i].who = c /\ x.lines[i].amount = n
  BY <1>2, <1>3 DEF Owing
<1>9. ASSUME NEW i \in S PROVE <<q, i>> \in T
  <2> DEFINE row == <<q, i>>
  <2>1. row[2] = i /\ row \in DOMAIN Charges(q) /\ x.lines[i].who = c /\ x.lines[i].amount = n
    BY <1>8
  <2> HIDE DEF row, S
  <2>2. Charges(q)[row].cust = c /\ Charges(q)[row].amount = n
    BY <1>20, <2>1
  <2>3. row \in T
    BY <1>6, <2>1, <2>2
  <2> QED
    BY <2>3 DEF row
<1>10. ASSUME NEW row \in T PROVE row[2] \in S /\ row = <<q, row[2]>>
  <2>1. /\ row \in DOMAIN Charges(q) /\ Charges(q)[row].cust = c /\ Charges(q)[row].amount = n
        /\ row[2] \in ChargeLines(x) /\ job[q].form.final
    BY <1>2, <1>6, <1>10, <1>20
  <2>2. x.lines[row[2]].who = c /\ x.lines[row[2]].amount = n /\ row[2] \in ChargeLines(x)
    BY <1>2, <1>20, <2>1
  <2> QED
    BY <1>2, <1>3, <1>20, <2>1, <2>2 DEF Owing
<1> HIDE DEF S, T
<1>11. f \in Bijection(S, T)
  <2>1. f \in [S -> T] /\ \A i, j \in S : f[i] = f[j] => i = j
    BY <1>9
  <2>2. \A row \in T : \E i \in S : f[i] = row
    BY <1>10
  <2> QED
    BY <2>1, <2>2 DEF Bijection, Injection, Surjection, IsInjective
<1>12. Cardinality(T) = Cardinality(S)
  BY <1>7, <1>11, FS_Bijection DEF ExistsBijection
<1> QED
  BY <1>12 DEF S, T, x, e

\* Without a customer nobody owes for the lines that named him; the others are as before.
LEMMA OwingWithout ==
  ASSUME NEW x \in Entry, NEW c \in Customers, NEW gone \in Customers, NEW n
  PROVE  Owing(EntryWithout(gone, x), c, n) = IF c = gone THEN {} ELSE Owing(x, c, n)
<1> DEFINE y == EntryWithout(gone, x)
<1>1. x.lines \in Seq(Line) /\ y \in Entry
  BY WithoutFits DEF Entry
<1>2. y.final = x.final /\ y.lines = LinesWithout(gone, x.lines)
  BY DEF EntryWithout, Entry
<1> HIDE DEF y
<1>3. DOMAIN y.lines = DOMAIN x.lines
  BY <1>2 DEF LinesWithout
<1>4. ASSUME NEW i \in DOMAIN x.lines
      PROVE  /\ x.lines[i] \in Line
             /\ y.lines[i] = IF x.lines[i].who = gone THEN [x.lines[i] EXCEPT !.who = None] ELSE x.lines[i]
  BY <1>1, <1>2 DEF LinesWithout
<1>5. ASSUME NEW i \in DOMAIN x.lines
      PROVE  /\ x.lines[i].who = gone => y.lines[i].who = None
             /\ x.lines[i].who # gone => y.lines[i] = x.lines[i]
  BY <1>4 DEF Line
<1>6. c # None
  BY IdsAreDistinct
<1>7. \A i \in DOMAIN x.lines : i \in Owing(y, c, n) <=> c # gone /\ i \in Owing(x, c, n)
  BY <1>2, <1>3, <1>5, <1>6 DEF Owing, ChargeLines, IsCharge
<1>8. Owing(y, c, n) \subseteq DOMAIN x.lines /\ Owing(x, c, n) \subseteq DOMAIN x.lines
  BY <1>3 DEF Owing, ChargeLines
<1> QED
  BY <1>7, <1>8 DEF y

LEMMA CommitCharges ==
  ASSUME Inv, ChargesMatchEntries, NEW q \in Req, Commit(q)
  PROVE  ChargesMatchEntries'
<1>1. /\ TypeInv /\ pc[q] = "commit" /\ Right(q) /\ Running(q)
      /\ entries \in [EntryIds -> Entry \cup {None}] /\ None \notin Entry
  BY CommitIs, IdsAreDistinct DEF TypeInv, TypeOK
<1>2. ASSUME NEW e \in EntryIds, entries'[e] # None, NEW c \in Customers, NEW n
      PROVE  Cardinality(Charging(ledger', e, c, n)) = Cardinality(Owing(entries'[e], c, n))
  <2>1. CASE kind[q] = "save" /\ job[q].entry = e
    <3>1. entries'[e] = NewEntry(q)
      BY <1>1, <2>1, CommitSave
    <3> QED
      BY <2>1, <3>1, SaveCharges
  <2>2. CASE kind[q] = "deleteEntry" /\ job[q].entry = e
    BY <1>1, <1>2, <2>2, CommitDeleteEntry
  <2>3. CASE ~(kind[q] \in {"save", "deleteEntry"} /\ job[q].entry = e)
    <3>1. entries[e] # None /\ entries[e] \in Entry
      BY <1>1, <1>2, <2>3, EntryStays
    <3>2. Cardinality(Charging(ledger, e, c, n)) = Cardinality(Owing(entries[e], c, n))
      BY <3>1, MatchOfAny DEF ChargesMatchEntries
    <3>3. CASE kind[q] # "deleteCustomer"
      <4>1. /\ Sourced(e)' = Sourced(e)
            /\ \A i \in Sourced(e) : ledger'[i].cust = ledger[i].cust /\ ledger'[i].amount = ledger[i].amount
        BY <2>3, <3>3, SourcesStay DEF Takes
      <4>2. Sourced(e)' = MadeBy(ledger', e) /\ Sourced(e) = MadeBy(ledger, e)
        BY DEF Sourced, Rows, MadeBy
      <4>3. Charging(ledger', e, c, n) = Charging(ledger, e, c, n)
        BY <4>1, <4>2 DEF Charging
      <4>4. entries'[e] = entries[e]
        BY <2>3, <3>3, EntriesMove
      <4> QED
        BY <3>2, <4>3, <4>4
    <3>4. CASE kind[q] = "deleteCustomer"
      <4>1. PICK gone \in Customers : gone = job[q].cust
        BY <1>1, <3>4, JobIs
      <4>2. /\ entries'[e] = EntryWithout(gone, entries[e])
            /\ ledger' = [i \in RowIds |-> IF ledger[i] # None /\ ledger[i].cust = gone THEN None ELSE ledger[i]]
        BY <1>1, <3>1, <3>4, <4>1, CommitDeleteCustomer
      <4>3. Owing(entries'[e], c, n) = IF c = gone THEN {} ELSE Owing(entries[e], c, n)
        <5>1. PICK x \in Entry : x = entries[e]
          BY <3>1
        <5>2. Owing(EntryWithout(gone, x), c, n) = IF c = gone THEN {} ELSE Owing(x, c, n)
          BY <4>1, OwingWithout
        <5> QED
          BY <4>2, <5>1, <5>2
      <4>4. Charging(ledger', e, c, n) = IF c = gone THEN {} ELSE Charging(ledger, e, c, n)
        BY <4>2 DEF Charging, MadeBy
      <4> QED
        BY <3>2, <4>3, <4>4
    <3> QED
      BY <3>3, <3>4
  <2> QED
    BY <2>1, <2>2, <2>3
<1>3. ChargesMatch(entries', ledger')
  BY <1>2 DEF ChargesMatch
<1> QED
  BY <1>3 DEF ChargesMatchEntries

\* What a customer is charged for a final entry is in the ledger once for each of its credit
\* lines, and nothing is for a draft, whatever saves, deletions, bills, customers and payments
\* overlap: a save keeps the entry's row locked, and a customer takes his lines along.
THEOREM ChargesMatchHolds == Spec => []ChargesMatchEntries
<1>1. Init => ChargesMatchEntries
  BY DatabasesMatch DEF Init, ChargesMatchEntries
<1>2. Inv /\ ChargesMatchEntries /\ [Next]_vars => ChargesMatchEntries'
  <2> SUFFICES ASSUME Inv, ChargesMatchEntries, [Next]_vars
               PROVE  ChargesMatchEntries'
    OBVIOUS
  <2>1. CASE UNCHANGED Tables
    BY <2>1 DEF Tables, ChargesMatchEntries
  <2> QED
    BY <2>1, OnlyCommits, CommitCharges
<1> QED
  BY <1>1, <1>2, InvHolds, PTL DEF Spec

-----------------------------------------------------------------------------
(***************************************************************************)
(* What a worker owes is what the screen shows                             *)
(***************************************************************************)
RowFor(x, g, n) == {row \in x.readings : row.fuel = g /\ row.nozzle = n}

\* The rows a form makes, by fuel and nozzle.
LEMMA BuiltRow ==
  ASSUME NEW form \in Forms, NEW x, x.readings = BuildReadings(form), NEW g \in Fuels, NEW n \in Nozzles
  PROVE  RowFor(x, g, n) = IF g \in Metered(form) THEN {RowOf(form, g, n)} ELSE {}
<1>1. x.readings = {RowOf(form, h, m) : h \in Metered(form), m \in Nozzles}
  BY RowsBuilt
<1>2. \A h, m : RowOf(form, h, m).fuel = h /\ RowOf(form, h, m).nozzle = m
  BY DEF RowOf
<1> QED
  BY <1>1, <1>2 DEF RowFor

\* What the screen shows of a fuel, given the rows of its nozzles.
LEMMA NozzlesOutIs ==
  ASSUME NEW form \in Forms, NEW x, x.readings = BuildReadings(form), NEW g \in Fuels
  PROVE  /\ g \in Metered(form) =>
              /\ NozzlesOut(x, g) # None
              /\ \A n \in Nozzles : /\ RowOf(form, g, n) \in Reading
                                    /\ ReadingAmount(RowOf(form, g, n)) \in Nat
                                    /\ NozzlesOut(x, g)[n] = ReadingAmount(RowOf(form, g, n))
         /\ g \notin Metered(form) => NozzlesOut(x, g) = None
<1> DEFINE out == [n \in Nozzles |-> LET r == IF RowFor(x, g, n) = {} THEN Zero
                                             ELSE CHOOSE y \in RowFor(x, g, n) : TRUE
                                     IN  ReadingLiters(r) * r.rate]
<1>1. NozzlesOut(x, g) = IF \A n \in Nozzles : RowFor(x, g, n) = {} THEN None ELSE out
  BY DEF NozzlesOut, RowFor
<1>2. \A n \in Nozzles : RowFor(x, g, n) = IF g \in Metered(form) THEN {RowOf(form, g, n)} ELSE {}
  BY BuiltRow
<1>3. CASE g \notin Metered(form)
  BY <1>1, <1>2, <1>3
<1>4. CASE g \in Metered(form)
  <2>1. ASSUME NEW n \in Nozzles
        PROVE  /\ RowOf(form, g, n) \in Reading /\ ReadingAmount(RowOf(form, g, n)) \in Nat
               /\ out[n] = ReadingAmount(RowOf(form, g, n))
    <3>1. RowOf(form, g, n) \in Reading
      BY <1>4, RowOfFits
    <3> DEFINE row == RowOf(form, g, n)
    <3>2. RowFor(x, g, n) = {row}
      BY <1>2, <1>4
    <3> HIDE DEF row
    <3>3. (CHOOSE y \in RowFor(x, g, n) : TRUE) = row /\ RowFor(x, g, n) # {}
      BY <3>2
    <3>4. out[n] = ReadingLiters(row) * row.rate
      BY <3>3
    <3>5. ReadingAmount(row) \in Nat
      BY <3>1, TimesNat DEF row, ReadingAmount, ReadingLiters, Largest, Reading
    <3> QED
      BY <3>1, <3>4, <3>5 DEF ReadingAmount, row
  <2>2. out \in [Nozzles -> Nat]
    BY <2>1
  <2>3. NozzlesOut(x, g) = out
    BY <1>1, <1>2, <1>4 DEF Nozzles
  <2> HIDE DEF out
  <2> QED
    BY <1>4, <2>1, <2>2, <2>3, NoneIsNoFigure
<1> QED
  BY <1>3, <1>4

\* The fuel of a shift, summed row by row and summed fuel by fuel.
LEMMA FuelAgrees ==
  ASSUME NEW form \in Forms, NEW x, x.readings = BuildReadings(form)
  PROVE  Total(ReadingAmount, x.readings) = SumOver([f \in Shown(x) |-> FuelOut(x, f)], Shown(x))
<1> DEFINE M == Metered(form)
           Of(n) == {RowOf(form, g, n) : g \in M}
           ra == [row \in x.readings |-> ReadingAmount(row)]
           at(n) == [g \in M |-> ReadingAmount(RowOf(form, g, n))]
           out == [g \in M |-> FuelOut(x, g)]
<1>1. /\ x.readings = {RowOf(form, g, n) : g \in M, n \in Nozzles} /\ IsFiniteSet(x.readings)
      /\ M \subseteq Fuels
  BY RowsBuilt DEF Metered
<1>2. Shown(x) = M
  BY <1>1, NozzlesOutIs DEF Shown
<1>3. \A g, n : RowOf(form, g, n).fuel = g /\ RowOf(form, g, n).nozzle = n
  BY DEF RowOf
<1>4. \A g \in M, n \in Nozzles : ReadingAmount(RowOf(form, g, n)) \in Nat
  BY <1>1, NozzlesOutIs
<1>5. \A row \in x.readings : ra[row] \in Nat
  BY <1>1, <1>4
<1>6. ASSUME NEW n \in Nozzles
      PROVE  /\ IsFiniteSet(M) /\ IsFiniteSet(Of(n)) /\ at(n) \in [M -> Nat]
             /\ SumOver(ra, Of(n)) = SumOver(at(n), M)
  <2> DEFINE S == Of(n)
             b == [g \in M |-> RowOf(form, g, n)]
             rs == [row \in S |-> ReadingAmount(row)]
             a == at(n)
  <2>1. S \in SUBSET x.readings /\ IsFiniteSet(S)
    <3>1. S \in SUBSET x.readings
      BY <1>1
    <3> HIDE DEF S
    <3> QED
      BY <1>1, <3>1, FS_Subset
  <2>2. \A g \in M : b[g] \in S /\ b[g].fuel = g /\ rs[b[g]] = a[g]
    BY <1>3
  <2>3. \A row \in S : \E g \in M : b[g] = row
    OBVIOUS
  <2>4. rs \in [S -> Nat] /\ a \in [M -> Nat]
    BY <1>4
  <2>5. b \in [M -> S]
    OBVIOUS
  <2>6. \A row \in S : ra[row] = rs[row]
    BY <2>1
  <2> HIDE DEF S, b, rs, a, M, ra
  <2>7. b \in Bijection(M, S)
    BY <2>2, <2>3, <2>5 DEF Bijection, Injection, Surjection, IsInjective
  <2>8. IsFiniteSet(M)
    BY <2>1, <2>7, FS_Injection DEF Bijection
  <2>9. SumOver(a, M) = SumOver(rs, S)
    BY <2>1, <2>2, <2>4, <2>7, <2>8, SumBijection
  <2>10. SumOver(ra, S) = SumOver(rs, S)
    BY <2>6, SumEqual
  <2>11. /\ IsFiniteSet(M) /\ IsFiniteSet(S) /\ a \in [M -> Nat] /\ SumOver(ra, S) = SumOver(a, M)
    BY <2>1, <2>4, <2>8, <2>9, <2>10
  <2> QED
    BY <2>11 DEF S, a, ra, M
<1>7. /\ x.readings = Of("nozzle1") \cup Of("nozzle2") /\ Of("nozzle1") \cap Of("nozzle2") = {}
      /\ "nozzle1" \in Nozzles /\ "nozzle2" \in Nozzles
  BY <1>1, <1>3 DEF Nozzles
<1>8. SumOver(ra, x.readings) = SumOver(ra, Of("nozzle1")) + SumOver(ra, Of("nozzle2"))
  <2> DEFINE S == Of("nozzle1")
             T == Of("nozzle2")
  <2>1. x.readings = S \cup T /\ S \cap T = {} /\ IsFiniteSet(S) /\ IsFiniteSet(T)
    BY <1>6, <1>7
  <2> HIDE DEF S, T, ra
  <2>2. SumOver(ra, S \cup T) = SumOver(ra, S) + SumOver(ra, T)
    BY <1>5, <2>1, SumUnion
  <2>3. SumOver(ra, x.readings) = SumOver(ra, S) + SumOver(ra, T)
    BY <2>1, <2>2
  <2> QED
    BY <2>3 DEF S, T
<1>9. SumOver(out, M) = SumOver(at("nozzle1"), M) + SumOver(at("nozzle2"), M)
  <2> DEFINE a == at("nozzle1")
             b == at("nozzle2")
  <2>1. \A g \in M : out[g] = a[g] + b[g]
    BY <1>1, NozzlesOutIs DEF FuelOut, Nozzles
  <2>2. IsFiniteSet(M) /\ \A g \in M : a[g] \in Nat /\ b[g] \in Nat
    BY <1>4, <1>6, <1>7
  <2> HIDE DEF a, b, out, M
  <2>3. SumOver(out, M) = SumOver(a, M) + SumOver(b, M)
    BY <2>1, <2>2, SumAdd
  <2> QED
    BY <2>3 DEF a, b, M
<1>10. Total(ReadingAmount, x.readings) = SumOver(ra, x.readings)
  BY ReadingsSum
<1>11. SumOver(ra, x.readings) = SumOver(out, M)
  <2> HIDE DEF ra, out, at, M, Of
  <2> QED
    BY <1>6, <1>7, <1>8, <1>9
<1> QED
  BY <1>2, <1>10, <1>11

\* The difference a save puts on record is the one the screen will show.
LEMMA VarianceAgrees ==
  ASSUME NEW form \in Forms, NEW x, x.readings = BuildReadings(form),
         x.oil \in Seq(OilRow), x.lines \in Seq(Line), x.offer \in Nat
  PROVE  /\ ShiftTotals(x).paid - ShiftTotals(x).sale = ExcessShortage(x)
         /\ ExcessShortage(x) \in Int
<1> DEFINE fuel == SumOver([f \in Shown(x) |-> FuelOut(x, f)], Shown(x))
           pocket == OilTotal(x, "pocket")
           cane == CaneTotal(x)
           paid == PaymentsTotal(x)
<1>1. x.readings \subseteq Reading /\ IsFiniteSet(x.readings)
  BY RowsBuilt
<1>2. /\ Total(ReadingAmount, x.readings) = fuel /\ Total(ReadingAmount, x.readings) \in Nat
      /\ pocket \in Nat /\ cane \in Nat /\ paid \in Nat
  BY <1>1, FuelAgrees, FiguresAreNat
<1>3. ShiftTotals(x).paid = paid
  BY DEF ShiftTotals
<1>4. ShiftTotals(x).sale = Total(ReadingAmount, x.readings) + pocket + cane
  BY DEF ShiftTotals
<1>5. ExcessShortage(x) = paid - (fuel + pocket + cane)
  BY FuelSum
<1> HIDE DEF fuel, pocket, cane, paid
<1> QED
  BY <1>2, <1>3, <1>4, <1>5

\* The figures of an entry do not depend on whom its lines name.
LEMMA FiguresWithout ==
  ASSUME NEW x \in Entry, NEW gone \in Customers
  PROVE  /\ ExcessShortage(EntryWithout(gone, x)) = ExcessShortage(x)
         /\ AdvancesShown(EntryWithout(gone, x)) = AdvancesShown(x)
         /\ EntryWithout(gone, x).final = x.final /\ EntryWithout(gone, x).worker = x.worker
<1> DEFINE y == EntryWithout(gone, x)
<1>1. x.lines \in Seq(Line)
  BY DEF Entry
<1>2. /\ y.final = x.final /\ y.worker = x.worker /\ y.readings = x.readings /\ y.oil = x.oil
      /\ y.offer = x.offer /\ y.lines = LinesWithout(gone, x.lines)
  BY DEF EntryWithout, Entry
<1> HIDE DEF y
<1>3. DOMAIN y.lines = DOMAIN x.lines
  BY <1>2 DEF LinesWithout
<1>4. ASSUME NEW i \in DOMAIN x.lines
      PROVE  /\ x.lines[i] \in Line
             /\ y.lines[i] = IF x.lines[i].who = gone THEN [x.lines[i] EXCEPT !.who = None] ELSE x.lines[i]
  BY <1>1, <1>2 DEF LinesWithout
<1>5. ASSUME NEW i \in DOMAIN x.lines
      PROVE  /\ y.lines[i].amount = x.lines[i].amount /\ y.lines[i].type = x.lines[i].type
             /\ x.lines[i].type = "employee_credit" => y.lines[i].who = x.lines[i].who
  <2>1. x.lines[i].type = "employee_credit" => x.lines[i].who # gone
    BY <1>4, IdsAreDistinct DEF Line
  <2>2. [x.lines[i] EXCEPT !.who = None].amount = x.lines[i].amount /\ [x.lines[i] EXCEPT !.who = None].type = x.lines[i].type
    BY <1>4 DEF Line
  <2> QED
    BY <1>4, <2>1, <2>2
<1>6. AdvanceLines(y) = AdvanceLines(x)
  BY <1>3, <1>5 DEF AdvanceLines
<1>7. AdvancesShown(y) = AdvancesShown(x)
  <2>1. \A i \in AdvanceLines(x) : y.lines[i].who = x.lines[i].who /\ y.lines[i].amount = x.lines[i].amount
    BY <1>5 DEF AdvanceLines
  <2> QED
    BY <1>6, <2>1 DEF AdvancesShown
<1>8. PaymentsTotal(y) = PaymentsTotal(x)
  <2> DEFINE f == [i \in DOMAIN x.lines |-> x.lines[i].amount]
             g == [i \in DOMAIN y.lines |-> y.lines[i].amount]
  <2>1. f = g
    BY <1>3, <1>5
  <2> HIDE DEF f, g
  <2>2. PaymentsTotal(x) = SumOver(f, DOMAIN x.lines) * Unit
    BY PaymentsSum DEF f
  <2>3. PaymentsTotal(y) = SumOver(g, DOMAIN y.lines) * Unit
    BY PaymentsSum DEF g
  <2> QED
    BY <1>3, <2>1, <2>2, <2>3
<1>9. ASSUME NEW type PROVE OilTotal(y, type) = OilTotal(x, type)
  BY <1>2, OilSum DEF OilOf
<1>10. \A f : NozzlesOut(y, f) = NozzlesOut(x, f)
  BY <1>2 DEF NozzlesOut
<1>11. Shown(y) = Shown(x) /\ [f \in Shown(y) |-> FuelOut(y, f)] = [f \in Shown(x) |-> FuelOut(x, f)]
  BY <1>10 DEF Shown, FuelOut
<1>12. CaneTotal(y) = CaneTotal(x)
  BY <1>2, <1>9 DEF CaneTotal
<1>13. ExcessShortage(y) = ExcessShortage(x)
  BY <1>8, <1>9, <1>11, <1>12, FuelSum
<1> QED
  BY <1>2, <1>7, <1>13 DEF y

\* A save settles with the people of its entry.
LEMMA SaveSettles ==
  ASSUME Inv, NEW q \in Req, Commit(q), kind[q] = "save"
  PROVE  Settles(NewDues(q), NewEntry(q))
<1> DEFINE x == NewEntry(q)
           id == job[q].entry
           v == ExcessShortage(x)
           advances == NewAdvances(q, id, x)
           variance == NewVariance(q, id, x)
<1>1. /\ TypeInv /\ Right(q) /\ Running(q) /\ pc[q] = "commit" /\ seen[q] \in EntryRead
      /\ job[q].form \in Forms
  BY CommitIs, CommitSave, JobIs
<1>2. /\ x.final = job[q].form.final /\ x.worker = job[q].form.worker /\ x.lines \in Seq(Line)
      /\ x.readings = BuildReadings(job[q].form) /\ x.oil \in Seq(OilRow) /\ x.offer \in Nat
      /\ NewDues(q) = IF x.final THEN advances \cup variance ELSE {}
  <2>1. x.oil = BuildOilRows(job[q].form) /\ x.offer = job[q].form.offer /\ x.lines = seen[q].lines
    BY <1>1, NewEntryIs
  <2>2. x.oil \in Seq(OilRow) /\ x.offer \in Nat /\ x.lines \in Seq(Line)
    BY <1>1, <2>1, OilBuilt, FormFields DEF EntryRead
  <2>3. NewDues(q) = IF job[q].form.final THEN advances \cup variance ELSE {}
    BY DEF NewDues
  <2> QED
    BY <1>1, <2>2, <2>3, NewEntryIs
<1>3. x.final => x.worker # None
  BY <1>1, <1>2 DEF Right, SaveFits, HasLoaded, HasRead, MayBeSaved
<1> HIDE DEF x, id
<1>4. v \in Int /\ v = ShiftTotals(x).paid - ShiftTotals(x).sale
  BY <1>1, <1>2, VarianceAgrees
<1>5. CASE ~x.final
  BY <1>2, <1>5 DEF Settles, x
<1>6. CASE x.final
  <2> DEFINE size == IF v < 0 THEN -v ELSE v
             due == [by |-> q, n |-> 0, src |-> id, worker |-> x.worker, amount |-> Hundredths(size),
                     type |-> IF v < 0 THEN "credit" ELSE "excess"]
  <2>1. variance = IF v = 0 THEN {} ELSE {due}
    BY <1>3, <1>4, <1>6 DEF NewVariance
  <2>2. \A d \in advances : d.n # 0
    <3>1. ASSUME NEW i \in AdvanceLines(x) PROVE i # 0
      BY <1>2, AdvanceLinesAre
    <3> QED
      BY <3>1 DEF NewAdvances
  <2>3. due.n = 0
    OBVIOUS
  <2>4. Records(due, x)
    <3>1. PICK n : n = size
      OBVIOUS
    <3>2. n \in Nat /\ (v < 0 => n = -v) /\ (~(v < 0) => n = v)
      BY <1>4, <3>1
    <3>3. PICK h \in Nat : h = Hundredths(n) /\ 2 * (h * Unit - n) \in -Unit .. Unit
      BY <3>2, HundredthsIs
    <3>4. due = [by |-> q, n |-> 0, src |-> id, worker |-> x.worker, amount |-> h,
                 type |-> IF v < 0 THEN "credit" ELSE "excess"]
      BY <3>1, <3>3
    <3>5. /\ due.worker = x.worker /\ due.type = IF v < 0 THEN "credit" ELSE "excess"
          /\ Given(due) = IF v < 0 THEN -h ELSE h
      BY <3>4 DEF Given
    <3> HIDE DEF due, v, size
    <3>6. 2 * (Given(due) * Unit - v) \in -Unit .. Unit
      <4>1. PICK p \in Nat : p = h * Unit
        BY UnitIsPositive, TimesNat
      <4>2. (-h) * Unit = -p
        BY <4>1, UnitIsPositive
      <4>3. 2 * (p - n) \in -Unit .. Unit
        BY <3>3, <4>1
      <4>4. CASE v < 0
        BY <1>4, <3>2, <3>5, <4>2, <4>3, <4>4, UnitIsPositive
      <4>5. CASE ~(v < 0)
        BY <1>4, <3>2, <3>5, <4>1, <4>3, <4>5, UnitIsPositive
      <4> QED
        BY <4>4, <4>5
    <3> QED
      BY <3>5, <3>6 DEF Records, v
  <2>5. {d \in NewDues(q) : d.n = 0} = variance /\ NewDues(q) \ variance = advances
    <3> HIDE DEF due, advances, variance
    <3> QED
      BY <1>2, <1>6, <2>1, <2>2, <2>3
  <2>6. IF v = 0 THEN variance = {} ELSE \E d \in variance : variance = {d} /\ Records(d, x)
    <3> HIDE DEF due, variance, v
    <3> QED
      BY <2>1, <2>4
  <2>7. {<<d.n, d.worker, d.amount>> : d \in advances} = AdvancesShown(x)
    <3> DEFINE row(i) == [by |-> q, n |-> i, src |-> id, worker |-> x.lines[i].who,
                          amount |-> x.lines[i].amount, type |-> "credit"]
    <3>1. advances = {row(i) : i \in AdvanceLines(x)}
      BY DEF NewAdvances
    <3>2. \A i : row(i).n = i /\ row(i).worker = x.lines[i].who /\ row(i).amount = x.lines[i].amount
      OBVIOUS
    <3> HIDE DEF row, advances
    <3> QED
      BY <3>1, <3>2 DEF AdvancesShown
  <2> HIDE DEF advances, variance, due
  <2>8. Settles(NewDues(q), x)
    BY <1>6, <2>5, <2>6, <2>7 DEF Settles
  <2> QED
    BY <2>8 DEF x
<1> QED
  BY <1>5, <1>6

LEMMA CommitSettles ==
  ASSUME Inv, DuesMatchShown, NEW q \in Req, Commit(q)
  PROVE  DuesMatchShown'
<1>1. /\ TypeInv /\ pc[q] = "commit" /\ Running(q)
      /\ entries \in [EntryIds -> Entry \cup {None}]
  BY CommitIs DEF TypeInv, TypeOK
<1>2. ASSUME NEW e \in EntryIds, entries'[e] # None
      PROVE  Settles({d \in dues' : d.src = e}, entries'[e])
  <2>1. CASE kind[q] = "save" /\ job[q].entry = e
    <3>1. entries'[e] = NewEntry(q) /\ {d \in dues' : d.src = e} = NewDues(q)
      BY <1>1, <2>1, CommitSave, DuesMove
    <3> QED
      BY <2>1, <3>1, SaveSettles
  <2>2. CASE kind[q] = "deleteEntry" /\ job[q].entry = e
    BY <1>1, <1>2, <2>2, CommitDeleteEntry
  <2>3. CASE ~(kind[q] \in {"save", "deleteEntry"} /\ job[q].entry = e)
    <3>1. entries[e] # None /\ entries[e] \in Entry
      BY <1>1, <1>2, <2>3, EntryStays
    <3> DEFINE of == {d \in dues : d.src = e}
    <3>2. {d \in dues' : d.src = e} = of
      BY <2>3, DuesMove DEF DuesOf
    <3>3. Settles(of, entries[e])
      BY <3>1 DEF DuesMatchShown, DuesMatch
    <3> HIDE DEF of
    <3>4. CASE entries'[e] = entries[e]
      BY <3>2, <3>3, <3>4
    <3>5. CASE kind[q] = "deleteCustomer" /\ entries'[e] = EntryWithout(job[q].cust, entries[e])
      <4>1. job[q].cust \in Customers
        BY <1>1, <3>5, JobIs
      <4> DEFINE y == EntryWithout(job[q].cust, entries[e])
      <4>2. /\ ExcessShortage(y) = ExcessShortage(entries[e]) /\ AdvancesShown(y) = AdvancesShown(entries[e])
            /\ y.final = entries[e].final /\ y.worker = entries[e].worker
        BY <3>1, <4>1, FiguresWithout
      <4> HIDE DEF y
      <4>3. Settles(of, y)
        BY <3>3, <4>2 DEF Settles, Records
      <4> QED
        BY <3>2, <3>5, <4>3 DEF y
    <3> QED
      BY <2>3, <3>1, <3>4, <3>5, EntriesMove
  <2> QED
    BY <2>1, <2>2, <2>3
<1> QED
  BY <1>2 DEF DuesMatchShown, DuesMatch

\* The shortage or excess the screen shows of a final entry, summed fuel by fuel from what is
\* on record, is to the nearest hundredth what a save, summing row by row, has put on record
\* for its worker, in one row; and the advances its lines name are there: whatever requests
\* overlap.
THEOREM DuesMatchHolds == Spec => []DuesMatchShown
<1>1. Init => DuesMatchShown
  BY DatabasesMatch DEF Init, DuesMatchShown
<1>2. Inv /\ DuesMatchShown /\ [Next]_vars => DuesMatchShown'
  <2> SUFFICES ASSUME Inv, DuesMatchShown, [Next]_vars
               PROVE  DuesMatchShown'
    OBVIOUS
  <2>1. CASE UNCHANGED Tables
    BY <2>1 DEF Tables, DuesMatchShown
  <2> QED
    BY <2>1, OnlyCommits, CommitSettles
<1> QED
  BY <1>1, <1>2, InvHolds, PTL DEF Spec

-----------------------------------------------------------------------------
(***************************************************************************)
(* The bills of an entry's charges                                         *)
(***************************************************************************)
UpTo(L, i) == {j \in L : j <= i}

\* Counted from the smallest on, the elements of a finite set of numbers have every rank.
LEMMA EveryRank ==
  ASSUME NEW n \in Nat, NEW L \in SUBSET (1 .. n)
  PROVE  /\ IsFiniteSet(L) /\ Cardinality(L) \in Nat
         /\ \A k \in 1 .. Cardinality(L) : \E i \in L : Cardinality(UpTo(L, i)) = k
         /\ \A i, j \in L : Cardinality(UpTo(L, i)) = Cardinality(UpTo(L, j)) => i = j
         /\ \A i \in L : Cardinality(UpTo(L, i)) \in Nat \ {0}
<1> DEFINE m == Cardinality(L)
           rank == [i \in L |-> Cardinality(UpTo(L, i))]
<1>1. IsFiniteSet(L) /\ m \in Nat
  <2>1. IsFiniteSet(1 .. n)
    BY FS_Interval
  <2> QED
    BY <2>1, FS_Subset, FS_CardinalityType
<1>2. ASSUME NEW i \in L
      PROVE  IsFiniteSet(UpTo(L, i)) /\ i \in UpTo(L, i) /\ Cardinality(UpTo(L, i)) \in 1 .. m
  <2>1. i \in UpTo(L, i) /\ UpTo(L, i) \in SUBSET L
    BY DEF UpTo
  <2>2. IsFiniteSet(UpTo(L, i)) /\ Cardinality(UpTo(L, i)) <= m /\ Cardinality(UpTo(L, i)) \in Nat
    BY <1>1, <2>1, FS_Subset, FS_CardinalityType
  <2>3. Cardinality(UpTo(L, i)) # 0
    BY <2>1, <2>2, FS_EmptySet
  <2> QED
    BY <1>1, <2>1, <2>2, <2>3
<1>3. ASSUME NEW i \in L, NEW j \in L, Cardinality(UpTo(L, i)) = Cardinality(UpTo(L, j)), i < j
      PROVE  FALSE
  <2>0. i \in Int /\ j \in Int /\ \A k \in L : k \in Int
    OBVIOUS
  <2>1. j \notin UpTo(L, i)
    BY <1>3, <2>0 DEF UpTo
  <2>3. \A k \in L : k <= i => k <= j
    BY <1>3, <2>0
  <2>4. UpTo(L, i) \in SUBSET UpTo(L, j)
    BY <2>3 DEF UpTo
  <2>2. UpTo(L, j) = UpTo(L, i)
    BY <1>2, <1>3, <2>4, FS_Subset
  <2> QED
    BY <1>2, <2>1, <2>2
<1>4. ASSUME NEW i \in L, NEW j \in L, Cardinality(UpTo(L, i)) = Cardinality(UpTo(L, j))
      PROVE  i = j
  <2>1. i \in Int /\ j \in Int
    OBVIOUS
  <2> QED
    BY <1>3, <1>4, <2>1
<1>5. rank \in Injection(L, 1 .. m)
  <2>1. rank \in [L -> 1 .. m]
    BY <1>2
  <2>2. \A i, j \in L : rank[i] = rank[j] => i = j
    BY <1>4
  <2> QED
    BY <2>1, <2>2 DEF Injection, IsInjective
<1>6. IsFiniteSet(1 .. m) /\ Cardinality(1 .. m) = m
  BY <1>1, FS_Interval
<1>7. rank \in Surjection(L, 1 .. m)
  BY <1>5, <1>6, FS_Injection
<1> QED
  <2>1. \A k \in 1 .. m : \E i \in L : Cardinality(UpTo(L, i)) = k
    BY <1>7 DEF Surjection
  <2>2. \A i \in L : Cardinality(UpTo(L, i)) \in Nat \ {0}
    BY <1>1, <1>2
  <2> QED
    BY <1>1, <1>4, <2>1, <2>2

\* A save that leaves a customer as many charges as he had bills carries all of them over.
LEMMA SaveCarries ==
  ASSUME "attach" \in Avoid, Inv, NEW q \in Req, Commit(q), kind[q] = "save", NEW c \in Customers
  PROVE  LET now == {i \in MadeBy(ledger', job[q].entry) : ledger'[i].cust = c}
             old == BillsByCustomer(job[q].entry)[c]
         IN  Cardinality(now) >= Cardinality(old) => old \subseteq {ledger'[i].bill : i \in now}
<1> DEFINE x == NewEntry(q)
           e == job[q].entry
           bill(i) == CarriedBill(x, i, seen[q].bills)
           now == {i \in MadeBy(ledger', e) : ledger'[i].cust = c}
           old == BillsByCustomer(e)[c]
           L == {i \in ChargeLines(x) : x.lines[i].who = c}
<1>1. /\ TypeInv /\ pc[q] = "commit" /\ Running(q) /\ Sourced(e) = seen[q].rows \cap Rows
      /\ Sourced(e) \cap OfCustomer(c) = {} \/ seen[q].bills[c] = old
      /\ e \in EntryIds /\ seen[q] \in EntryRead
      /\ ledger' = [i \in RowIds |-> IF i \in DOMAIN Charges(q) THEN Charges(q)[i]
                                     ELSE IF i \in seen[q].rows THEN None ELSE ledger[i]]
  BY CommitIs, CommitSave DEF Right, SaveFits, HasRead
<1>14. CASE Sourced(e) \cap OfCustomer(c) = {}
  <2>1. old = {}
    BY <1>14 DEF BillsByCustomer, BillsOf
  <2> HIDE DEF now, old
  <2> QED
    BY <2>1 DEF now, old, e
<1>15. SUFFICES ASSUME seen[q].bills[c] = old
                PROVE  Cardinality(now) >= Cardinality(old) => old \subseteq {ledger'[i].bill : i \in now}
  <2> HIDE DEF now, old, e
  <2> QED
    BY <1>1, <1>14 DEF now, old, e
<1>2. /\ DOMAIN Charges(q) = IF job[q].form.final THEN {<<q, i>> : i \in ChargeLines(x)} ELSE {}
      /\ DOMAIN Charges(q) \in SUBSET RowIds
  BY <1>1, ChargesAre
<1>3. ASSUME NEW row \in DOMAIN Charges(q)
      PROVE  /\ row = <<q, row[2]>> /\ row[2] \in ChargeLines(x) /\ Charges(q)[row] \in Charge
             /\ Charges(q)[row] = [cust |-> x.lines[row[2]].who, type |-> "credit",
                                   amount |-> x.lines[row[2]].amount, src |-> e, bill |-> bill(row[2])]
  BY <1>1, ChargesAre
<1>4. x.lines \in Seq(Line) /\ seen[q].bills \in [Customers -> SUBSET Keys]
  BY <1>1, NewEntryIs DEF EntryRead
<1> DEFINE S == seen[q].bills[c]
           nth(i) == NthOf(x, i)
<1>5. /\ old = S /\ IsFiniteSet(S) /\ Cardinality(S) \in Nat
      /\ \A key \in S : \E k \in 1 .. Cardinality(S) : SetToSeq(S)[k] = key
  <2>1. old = S /\ S \in SUBSET Keys
    BY <1>4, <1>15
  <2> HIDE DEF S
  <2>2. IsFiniteSet(S)
    BY <2>1, KeysFinite
  <2> QED
    BY <2>1, <2>2, SequenceOf
<1>6. ASSUME NEW i \in L
      PROVE  bill(i) = IF Cardinality(UpTo(L, i)) <= Cardinality(S)
                       THEN SetToSeq(S)[Cardinality(UpTo(L, i))] ELSE None
  <2>1. x.lines[i].who = c /\ {k \in ChargeLines(x) : k <= i /\ x.lines[k].who = c} = UpTo(L, i)
    BY DEF UpTo
  <2> QED
    BY <2>1 DEF CarriedBill
<1> HIDE DEF x, e, bill, S
<1>7. ASSUME NEW row \in DOMAIN Charges(q)
      PROVE  /\ row = <<q, row[2]>> /\ row[2] \in ChargeLines(x) /\ Charges(q)[row] \in Charge
             /\ Charges(q)[row].cust = x.lines[row[2]].who /\ Charges(q)[row].src = e
             /\ Charges(q)[row].bill = bill(row[2])
  BY <1>3
<1>8. PICK n \in Nat : L \in SUBSET (1 .. n)
  <2>1. Len(x.lines) \in Nat /\ L \in SUBSET (1 .. Len(x.lines))
    BY <1>4, ChargeLinesAre
  <2> QED
    BY <2>1
<1>9. /\ IsFiniteSet(L) /\ Cardinality(L) \in Nat
      /\ \A k \in 1 .. Cardinality(L) : \E i \in L : Cardinality(UpTo(L, i)) = k
  <2> HIDE DEF L
  <2> QED
    BY <1>8, EveryRank
<1>10. \A i \in RowIds : i \in MadeBy(ledger', e) <=> i \in DOMAIN Charges(q)
  <2>1. ASSUME NEW i \in DOMAIN Charges(q) PROVE i \in MadeBy(ledger', e)
    <3>1. i \in RowIds /\ Charges(q)[i] \in Charge /\ Charges(q)[i].src = e
      BY <1>2, <1>7
    <3>2. ledger'[i] = Charges(q)[i] /\ Charges(q)[i] # None
      BY <1>1, <3>1, IdsAreDistinct
    <3> QED
      BY <3>1, <3>2 DEF MadeBy
  <2>2. ASSUME NEW i \in MadeBy(ledger', e) PROVE i \in DOMAIN Charges(q)
    BY <1>1 DEF MadeBy, Sourced, Rows, e
  <2> QED
    BY <2>1, <2>2
<1>11. now = {i \in DOMAIN Charges(q) : Charges(q)[i].cust = c}
  BY <1>1, <1>2, <1>10 DEF MadeBy
<1>12. CASE ~job[q].form.final
  <2>1. now = {}
    BY <1>2, <1>11, <1>12
  <2> HIDE DEF now, old
  <2>2. Cardinality(now) = 0
    BY <2>1, FS_EmptySet
  <2>3. Cardinality(now) >= Cardinality(old) => old = {}
    BY <1>5, <2>2, FS_EmptySet
  <2> QED
    BY <2>3 DEF now, old, e
<1>13. CASE job[q].form.final
  <2> DEFINE f == [i \in L |-> <<q, i>>]
  <2>1. ASSUME NEW i \in L
        PROVE  <<q, i>> \in now /\ ledger'[<<q, i>>].bill = bill(i)
    <3> DEFINE row == <<q, i>>
    <3>1. row[2] = i /\ row \in DOMAIN Charges(q) /\ x.lines[i].who = c
      BY <1>2, <1>13
    <3> HIDE DEF row
    <3>2. Charges(q)[row].cust = c /\ Charges(q)[row].bill = bill(i) /\ row \in RowIds
      BY <1>2, <1>7, <3>1
    <3>3. row \in now /\ ledger'[row].bill = bill(i)
      BY <1>1, <1>11, <3>1, <3>2
    <3> QED
      BY <3>3 DEF row
  <2>2. ASSUME NEW row \in now PROVE row[2] \in L /\ row = <<q, row[2]>>
    BY <1>7, <1>11
  <2> HIDE DEF now, old, L
  <2>3. f \in Bijection(L, now)
    <3>1. f \in [L -> now] /\ \A i, j \in L : f[i] = f[j] => i = j
      BY <2>1
    <3>2. \A row \in now : \E i \in L : f[i] = row
      BY <2>2
    <3> QED
      BY <3>1, <3>2 DEF Bijection, Injection, Surjection, IsInjective
  <2>4. Cardinality(now) = Cardinality(L)
    BY <1>9, <2>3, FS_Bijection DEF ExistsBijection
  <2>5. ASSUME Cardinality(now) >= Cardinality(old), NEW key \in old
        PROVE  key \in {ledger'[i].bill : i \in now}
    <3>1. PICK k \in 1 .. Cardinality(S) : SetToSeq(S)[k] = key
      BY <1>5, <2>5
    <3>2. k \in 1 .. Cardinality(L)
      BY <1>5, <1>9, <2>4, <2>5, <3>1
    <3>3. PICK i \in L : Cardinality(UpTo(L, i)) = k
      BY <1>9, <3>2
    <3>4. bill(i) = key
      BY <1>5, <1>6, <3>1, <3>3
    <3> QED
      BY <2>1, <3>4
  <2>6. Cardinality(now) >= Cardinality(old) => old \subseteq {ledger'[i].bill : i \in now}
    BY <2>5
  <2> QED
    BY <2>6 DEF now, old, e
<1> QED
  BY <1>12, <1>13

\* A bill attached to a charge survives every save of its entry that leaves the customer as
\* many charges as there were bills, if nobody attaches one while the entry is being saved:
\* saves may overlap, and customers be deleted beside them.
THEOREM BillsSurviveHolds ==
  ASSUME "attach" \in Avoid
  PROVE  Spec => BillsSurvive
<1>1. Inv /\ [Next]_vars =>
        [\A r \in Req : pc[r] = "commit" /\ job[r].op = "save" /\ pc'[r] = "cleanup" =>
           \A c \in Customers :
             LET of(l) == {i \in MadeBy(l, job[r].entry) : l[i].cust = c}
                 old == {ledger[i].bill : i \in of(ledger)} \ {None}
             IN  Cardinality(of(ledger')) >= Cardinality(old) =>
                   old \subseteq {ledger'[i].bill : i \in of(ledger')}]_vars
  <2> SUFFICES ASSUME Inv, [Next]_vars, NEW r \in Req,
                      pc[r] = "commit", job[r].op = "save", pc'[r] = "cleanup",
                      NEW c \in Customers
               PROVE  LET of(l) == {i \in MadeBy(l, job[r].entry) : l[i].cust = c}
                          old == {ledger[i].bill : i \in of(ledger)} \ {None}
                      IN  Cardinality(of(ledger')) >= Cardinality(old) =>
                            old \subseteq {ledger'[i].bill : i \in of(ledger')}
    OBVIOUS
  <2> DEFINE of(l) == {i \in MadeBy(l, job[r].entry) : l[i].cust = c}
             old == {ledger[i].bill : i \in of(ledger)} \ {None}
  <2>1. CASE UNCHANGED Tables
    BY <2>1 DEF Tables
  <2>2. ASSUME NEW q \in Req, Commit(q) PROVE q = r /\ kind[r] = "save"
    <3>1. Closes(q) /\ TypeInv
      BY <2>2, CommitCloses DEF Inv
    <3>2. q = r
      BY <3>1 DEF Closes, Mine
    <3>3. kind[r] = "save"
      BY <2>2, <3>1, <3>2, CommitIs, JobIs
    <3> QED
      BY <3>2, <3>3
  <2>3. CASE Commit(r) /\ kind[r] = "save"
    <3>1. BillsByCustomer(job[r].entry)[c] = old
      BY DEF BillsByCustomer, BillsOf, Sourced, Rows, OfCustomer, MadeBy
    <3>2. Cardinality(of(ledger')) >= Cardinality(BillsByCustomer(job[r].entry)[c]) =>
             BillsByCustomer(job[r].entry)[c] \subseteq {ledger'[i].bill : i \in of(ledger')}
      BY <2>3, SaveCarries
    <3> HIDE DEF of, old
    <3>3. Cardinality(of(ledger')) >= Cardinality(old) => old \subseteq {ledger'[i].bill : i \in of(ledger')}
      BY <3>1, <3>2
    <3> QED
      BY <3>3 DEF of, old
  <2> QED
    BY <2>1, <2>2, <2>3, OnlyCommits
<1> QED
  BY <1>1, InvHolds, PTL DEF Spec, BillsSurvive

-----------------------------------------------------------------------------
(***************************************************************************)
(* Double submissions.  Who adds to a customer's ledger has him locked     *)
(* from before he looks for a recent row like his own until his is there,  *)
(* so that nobody else adds one in between.                                *)
(***************************************************************************)
Recent == {k \in Rows : k[1] \in young /\ kind[k[1]] = "add"}
Alike(x, y) == x.cust = y.cust /\ x.type = y.type /\ x.amount = y.amount
LockedBy(r, mode) == [on |-> <<"cust", job[r].cust>>, mode |-> mode] \in holds[r]

\* The customer a row is added for was there before; he is locked if he is still there.
AddHolds(r) ==
  kind[r] = "add" =>
    /\ Running(r) /\ job[r].cust \in Req => Over(job[r].cust)
    /\ pc[r] = "checkTwin" /\ job[r].cust \in Known => LockedBy(r, "update")
    /\ pc[r] \in {"insertRow", "commit"} =>
         /\ LockedBy(r, "update")
         /\ \A i \in Recent : ~Alike(ledger[i], [cust |-> job[r].cust, type |-> job[r].form.type,
                                                 amount |-> job[r].form.amount])

\* A customer that is being saved is there, and nobody deletes him.
CustomerHolds(r) ==
  pc[r] = "commit" =>
    /\ kind[r] = "saveCustomer" => job[r].cust \in Known /\ LockedBy(r, "share")
    /\ kind[r] = "deleteCustomer" => LockedBy(r, "update")

TwinInv == NoRecentTwins /\ \A r \in Req : AddHolds(r) /\ CustomerHolds(r)

\* While no row changes and none becomes recent, a request that does not move goes by what
\* it went by.
LEMMA OthersHold ==
  ASSUME NEW r \in Req, AddHolds(r), CustomerHolds(r), UNCHANGED Tables, UNCHANGED Mine(r),
         \A x \in Req : Over(x) => Over(x)', Recent' \subseteq Recent
  PROVE  AddHolds(r)' /\ CustomerHolds(r)'
<1>1. /\ kind'[r] = kind[r] /\ pc'[r] = pc[r] /\ job'[r] = job[r] /\ holds'[r] = holds[r]
      /\ custs' = custs /\ ledger' = ledger
  BY DEF Mine, Tables
<1>2. Running(r)' = Running(r) /\ Known' = Known /\ \A mode : LockedBy(r, mode)' = LockedBy(r, mode)
  BY <1>1 DEF Running, Known, LockedBy
<1> QED
  BY <1>1, <1>2 DEF AddHolds, CustomerHolds, Alike

LEMMA QuietTwins ==
  ASSUME TwinInv, NEW r \in Req, UNCHANGED Tables, \A q \in Req \ {r} : UNCHANGED Mine(q),
         Over(r) => Over(r)', Recent' \subseteq Recent,
         AddHolds(r)', CustomerHolds(r)'
  PROVE  TwinInv'
<1>1. \A x \in Req : Over(x) => Over(x)'
  BY DEF Mine, Over
<1>2. \A q \in Req \ {r} : AddHolds(q)' /\ CustomerHolds(q)'
  BY <1>1, OthersHold DEF TwinInv
<1>3. NoRecentTwins'
  BY DEF TwinInv, NoRecentTwins, Recent, Tables
<1> QED
  BY <1>2, <1>3 DEF TwinInv

\* Without a new row, what is recent stays so or not.
LEMMA RecentShrinks ==
  ASSUME UNCHANGED Tables, kind' = kind, young' \subseteq young
  PROVE  Recent' \subseteq Recent
BY DEF Recent, Tables, Rows

LEMMA RestsTwins ==
  ASSUME TwinInv, NEW r \in Req, UNCHANGED Tables, kind' = kind, \A q \in Req \ {r} : UNCHANGED Mine(q),
         Over(r) => Over(r)', young' \subseteq young,
         pc'[r] \in Resting
  PROVE  TwinInv'
<1>1. AddHolds(r)' /\ CustomerHolds(r)'
  BY DEF AddHolds, CustomerHolds, Running, Resting
<1> QED
  BY <1>1, RecentShrinks, QuietTwins

LEMMA RefuseTwins ==
  ASSUME Inv, TwinInv, NEW r \in Req, Refuse(r)
  PROVE  TwinInv'
<1>1. QuietStep(r) /\ pc'[r] = "failed" /\ young' \subseteq young
  BY RefuseKeeps DEF Inv
<1>2. UNCHANGED Tables /\ kind' = kind /\ (\A q \in Req \ {r} : UNCHANGED Mine(q)) /\ Over(r)' /\ pc'[r] \in Resting
  BY <1>1 DEF QuietStep, Tables, committed, Over, Resting
<1> QED
  BY <1>1, <1>2, RestsTwins

LEMMA GoesTwins ==
  ASSUME TwinInv, NEW r \in Req, NEW at, NEW read, NEW written, NEW locks,
         Goes(r, at, read, written, locks), Running(r),
         AddHolds(r)', CustomerHolds(r)'
  PROVE  TwinInv'
<1>1. /\ UNCHANGED Tables /\ kind' = kind /\ (\A q \in Req \ {r} : UNCHANGED Mine(q)) /\ ~Over(r)
      /\ young' = young
  BY DEF Goes, QuietStep, Tables, committed, Over, Running
<1> QED
  BY <1>1, RecentShrinks, QuietTwins

\* A request that touches no customer's ledger by hand.
LEMMA ElsewhereTwins ==
  ASSUME TwinInv, NEW r \in Req, NEW at, NEW read, NEW written, NEW locks,
         Goes(r, at, read, written, locks), Running(r),
         kind[r] # "add", at = "commit" => kind[r] \notin {"saveCustomer", "deleteCustomer"}
  PROVE  TwinInv'
<1>1. kind'[r] = kind[r] /\ pc'[r] = at
  BY DEF Goes
<1>2. AddHolds(r)' /\ CustomerHolds(r)'
  BY <1>1 DEF AddHolds, CustomerHolds
<1> QED
  BY <1>2, GoesTwins

LEMMA AddingTwins ==
  ASSUME Inv, TwinInv, NEW r \in Req, LockCustomer(r) \/ CheckTwin(r) \/ InsertRow(r)
  PROVE  TwinInv'
<1>0. TypeInv /\ AddHolds(r)
  BY DEF Inv, TwinInv
<1>1. kind[r] = "add" /\ Running(r)
  BY <1>0, LockCustomerIs, CheckTwinIs, InsertRowIs
<1>2. ASSUME NEW at \in {"checkTwin", "insertRow", "commit"}, NEW read, NEW written, NEW locks,
             Goes(r, at, read, written, locks)
      PROVE  /\ kind'[r] = "add" /\ pc'[r] = at /\ job'[r] = job[r] /\ holds'[r] = locks
             /\ Known' = Known /\ ledger' = ledger /\ Recent' \subseteq Recent /\ CustomerHolds(r)'
             /\ job[r].cust \in Req => Over(job[r].cust)'
  <2>1. /\ kind'[r] = "add" /\ pc'[r] = at /\ job'[r] = job[r] /\ holds'[r] = locks
        /\ UNCHANGED Tables /\ kind' = kind /\ young' = young
    BY <1>1, <1>2 DEF Goes, QuietStep, committed, Tables
  <2>2. Known' = Known /\ ledger' = ledger /\ Recent' \subseteq Recent
    BY <2>1, RecentShrinks DEF Tables, Known
  <2>3. CustomerHolds(r)'
    BY <2>1 DEF CustomerHolds
  <2>4. \A x \in Req : Over(x) => Over(x)'
    BY <1>1, <1>2, GoesOld
  <2>5. job[r].cust \in Req => Over(job[r].cust)'
    BY <1>0, <1>1, <2>1, <2>4 DEF AddHolds, Over
  <2> QED
    BY <2>1, <2>2, <2>3, <2>5
<1>3. CASE LockCustomer(r)
  <2> DEFINE on == IF job[r].cust \in Known THEN {<<"cust", job[r].cust>>} ELSE {}
  <2>1. /\ Free(r, {<<"cust", job[r].cust>>}, "update")
        /\ Goes(r, "checkTwin", seen[r], txn[r], With(r, on, "update"))
    BY <1>0, <1>3, LockCustomerIs
  <2>3. job[r].cust \in Known => [on |-> <<"cust", job[r].cust>>, mode |-> "update"] \in With(r, on, "update")
    BY DEF With
  <2>4. AddHolds(r)'
    BY <1>2, <2>1, <2>3 DEF AddHolds, LockedBy
  <2> HIDE DEF on
  <2>5. CustomerHolds(r)'
    BY <1>2, <2>1
  <2> QED
    BY <1>1, <2>1, <2>4, <2>5, GoesTwins
<1>4. CASE CheckTwin(r) /\ ~Refuse(r)
  <2>1. /\ job[r].cust \in Known /\ Twins(job[r].cust, job[r].form) = {} /\ pc[r] = "checkTwin"
        /\ Goes(r, "insertRow", seen[r], txn[r], holds[r])
    BY <1>0, <1>4, CheckTwinIs DEF CheckTwin
  <2>2. LockedBy(r, "update")
    BY <1>0, <1>1, <2>1 DEF AddHolds
  <2>3. \A i \in Recent : ~Alike(ledger[i], [cust |-> job[r].cust, type |-> job[r].form.type,
                                             amount |-> job[r].form.amount])
    BY <2>1 DEF Recent, Alike, Twins, OfCustomer
  <2>4. AddHolds(r)'
    BY <1>2, <2>1, <2>2, <2>3 DEF AddHolds, LockedBy, Alike
  <2>5. CustomerHolds(r)'
    BY <1>2, <2>1
  <2> QED
    BY <1>1, <2>1, <2>4, <2>5, GoesTwins
<1>5. CASE InsertRow(r)
  <2>1. pc[r] = "insertRow" /\ Goes(r, "commit", seen[r], RowAdded(r), holds[r])
    BY <1>0, <1>5, InsertRowIs DEF InsertRow
  <2>2. /\ LockedBy(r, "update")
        /\ \A i \in Recent : ~Alike(ledger[i], [cust |-> job[r].cust, type |-> job[r].form.type,
                                                amount |-> job[r].form.amount])
    BY <1>0, <1>1, <2>1 DEF AddHolds
  <2>3. AddHolds(r)'
    BY <1>2, <2>1, <2>2 DEF AddHolds, LockedBy, Alike
  <2>4. CustomerHolds(r)'
    BY <1>2, <2>1
  <2> QED
    BY <1>1, <2>1, <2>3, <2>4, GoesTwins
<1> QED
  BY <1>3, <1>4, <1>5, RefuseTwins

LEMMA ChangingTwins ==
  ASSUME Inv, TwinInv, NEW r \in Req, WriteCustomer(r) \/ DeleteCustomer(r)
  PROVE  TwinInv'
<1>0. TypeInv
  BY DEF Inv
<1>1. ASSUME NEW written, NEW locks, Goes(r, "commit", seen[r], written, locks)
      PROVE  /\ kind'[r] = kind[r] /\ pc'[r] = "commit" /\ job'[r] = job[r] /\ holds'[r] = locks
             /\ Known' = Known
  BY <1>1 DEF Goes, QuietStep, committed, Known
<1>2. CASE WriteCustomer(r) /\ ~Refuse(r)
  <2> DEFINE on == {<<"cust", job[r].cust>>}
  <2>1. PICK mode \in {"share", "update"} :
             /\ mode = IF job[r].cust \in Known THEN "share" ELSE "update"
             /\ kind[r] \in {"saveCustomer", "addCustomer"} /\ Running(r)
             /\ job[r].cust \in Known <=> kind[r] = "saveCustomer"
             /\ Goes(r, "commit", seen[r], CustomerWritten(r), With(r, on, mode))
    BY <1>0, <1>2, WriteCustomerIs
  <2>2. /\ kind'[r] = kind[r] /\ pc'[r] = "commit" /\ job'[r] = job[r] /\ holds'[r] = With(r, on, mode)
        /\ Known' = Known
    BY <1>1, <2>1
  <2>3. [on |-> <<"cust", job[r].cust>>, mode |-> mode] \in With(r, on, mode)
    BY DEF With
  <2>4. AddHolds(r)' /\ CustomerHolds(r)'
    BY <2>1, <2>2, <2>3 DEF AddHolds, CustomerHolds, LockedBy
  <2> QED
    BY <2>1, <2>4, GoesTwins
<1>3. CASE DeleteCustomer(r)
  <2> DEFINE on == {<<"cust", job[r].cust>>} \cup {<<"row", i>> : i \in OfCustomer(job[r].cust)}
  <2>1. /\ kind[r] = "deleteCustomer" /\ Running(r)
        /\ Goes(r, "commit", seen[r], CustomerDropped(r), With(r, on, "update"))
    BY <1>0, <1>3, DeleteCustomerIs
  <2>2. /\ kind'[r] = kind[r] /\ pc'[r] = "commit" /\ job'[r] = job[r]
        /\ holds'[r] = With(r, on, "update")
    BY <1>1, <2>1
  <2>3. [on |-> <<"cust", job[r].cust>>, mode |-> "update"] \in With(r, on, "update")
    BY DEF With
  <2>4. AddHolds(r)' /\ CustomerHolds(r)'
    BY <2>1, <2>2, <2>3 DEF AddHolds, CustomerHolds, LockedBy
  <2> HIDE DEF on
  <2> QED
    BY <2>1, <2>4, GoesTwins
<1> QED
  BY <1>2, <1>3, RefuseTwins

LEMMA StatementsTwins ==
  ASSUME Inv, TwinInv, NEW r \in Req, Statements(r)
  PROVE  TwinInv'
<1>0. TypeInv
  BY DEF Inv
<1>1. CASE LoadForSave(r)
  <2>1. /\ kind[r] = "save" /\ Running(r)
        /\ \/ Refuse(r)
           \/ \E read, written : Goes(r, "checkCustomers", read, written, holds[r])
           \/ \E on : /\ Free(r, on, "update")
                      /\ \E read, written : Goes(r, "readRows", read, written, With(r, on, "update"))
    BY <1>0, <1>1, LoadForSaveIs
  <2> QED
    BY <2>1, RefuseTwins, ElsewhereTwins
<1>2. CASE LoadForDelete(r) \/ ReadRows(r) \/ CheckCustomers(r) \/ CountScope(r) \/ LoadRow(r) \/ LoadCustomer(r)
  <2>1. /\ kind[r] \in {"save", "deleteEntry", "attach", "deleteRow", "saveCustomer", "deleteCustomer"}
        /\ Running(r)
        /\ \/ Refuse(r)
           \/ \E at \in {"readRows", "dropRows", "post", "writeRow", "writeCustomer"} :
                \E read, written : Goes(r, at, read, written, holds[r])
           \/ kind[r] = "deleteEntry" /\ \E read, written : Goes(r, "commit", read, written, holds[r])
    BY <1>0, <1>2, LoadForDeleteIs, ReadRowsIs, CheckCustomersIs, CountScopeIs, LoadRowIs, LoadCustomerIs
  <2> QED
    BY <2>1, RefuseTwins, ElsewhereTwins
<1>3. CASE DropRows(r) \/ Post(r) \/ DropEntry(r) \/ WriteBill(r) \/ DeleteRow(r)
  <2>1. /\ kind[r] \in {"save", "deleteEntry", "attach", "deleteRow"} /\ Running(r)
        /\ \/ Refuse(r)
           \/ \E at \in {"checkCustomers", "dropEntry", "countScope", "commit"} :
                \E read, written, on : \E mode \in {"share", "update"} :
                  Free(r, on, mode) /\ Goes(r, at, read, written, With(r, on, mode))
    BY <1>0, <1>3, DropRowsIs, PostIs, DropEntryIs, WriteBillIs, DeleteRowIs
  <2> QED
    BY <2>1, RefuseTwins, ElsewhereTwins
<1> QED
  BY <1>1, <1>2, <1>3, AddingTwins, ChangingTwins DEF Statements

LEMMA SendTwins ==
  ASSUME Inv, TwinInv, NEW r \in Req, Send(r)
  PROVE  TwinInv'
<1>0. TypeInv /\ NothingYet
  BY DEF Inv
<1>1. PICK j : Asks(r, j)
  BY <1>0, SendIs
<1>2. /\ AsksFor(r, j) /\ kind' = kind /\ job'[r] = j /\ ~Over(r)
      /\ UNCHANGED Tables /\ (\A q \in Req \ {r} : UNCHANGED Mine(q))
      /\ pc'[r] \in {"loadEntry", "loadRow", "lockCustomer", "loadCustomer", "writeCustomer"}
      /\ young' = young \cup {r}
  BY <1>1 DEF Asks, Over, QuietStep, Tables, committed
<1>3. \A i \in Rows : i[1] # r
  BY <1>0, <1>2 DEF NothingYet
<1>4. Recent' \subseteq Recent
  BY <1>2, <1>3 DEF Recent, Rows, Tables
<1>5. kind[r] = "add" => (j.cust \in Req => Over(j.cust)')
  <2>1. ASSUME kind[r] = "add", j.cust \in Req PROVE Over(j.cust)
    BY <1>0, <1>2, <2>1 DEF AsksFor, Known, NothingYet
  <2>2. \A x \in Req : Over(x) => Over(x)'
    BY <1>2 DEF Mine, Over
  <2> QED
    BY <2>1, <2>2
<1>6. AddHolds(r)' /\ CustomerHolds(r)'
  BY <1>2, <1>5 DEF AddHolds, CustomerHolds
<1> QED
  BY <1>2, <1>4, <1>6, QuietTwins

\* What a commit does to the customers on record.
LEMMA KnownMoves ==
  ASSUME Inv, TwinInv, NEW q \in Req, Commit(q), NEW c \in Customers
  PROVE  /\ c \in Known' => c \in Known \/ (c = q /\ ~Over(q))
         /\ c \in Known /\ c \notin Known' => kind[q] = "deleteCustomer" /\ c = job[q].cust
<1>1. /\ TypeInv /\ Running(q) /\ pc[q] = "commit" /\ ~Over(q) /\ CustomerHolds(q)
      /\ kind[q] = "addCustomer" => job[q].cust = q
  BY CommitIs DEF TwinInv, Inv, Right, JobOld
<1>2. custs \in [Customers -> (SUBSET Keys) \cup {None}]
  BY <1>1 DEF TypeInv, TypeOK
<1>3. CASE kind[q] \in {"save", "deleteEntry"}
  BY <1>1, <1>3, CommitSave, CommitDeleteEntry DEF Known
<1>4. CASE kind[q] \in {"attach", "deleteRow", "add"}
  BY <1>1, <1>4, CommitAttach, CommitDeleteRow, CommitAdd DEF Known
<1>5. CASE kind[q] \in {"saveCustomer", "addCustomer"}
  <2>1. custs' = [custs EXCEPT ![job[q].cust] = BillsAfter(q)] /\ job[q].cust \in Customers
    BY <1>1, <1>5, CommitCustomer
  <2>2. BillsAfter(q) # None
    <3>1. BillsAfter(q) \in SUBSET Keys
      <4>1. OldBills(q) \in SUBSET Keys /\ job[q].bills \in SUBSET Keys /\ job[q].cust \in Customers
        BY <1>1, <1>5, CommitCustomer
      <4> QED
        BY <1>2, <4>1 DEF BillsAfter
    <3> QED
      BY <3>1, IdsAreDistinct
  <2>3. job[q].cust \in Known \/ job[q].cust = q
    BY <1>1, <1>5 DEF CustomerHolds
  <2> QED
    BY <1>1, <1>2, <2>1, <2>2, <2>3 DEF Known
<1>6. CASE kind[q] = "deleteCustomer"
  <2>1. custs' = [custs EXCEPT ![job[q].cust] = None] /\ job[q].cust \in Customers
    BY <1>1, <1>6, CommitDeleteCustomer
  <2> QED
    BY <1>2, <1>6, <2>1 DEF Known
<1> QED
  BY <1>1, <1>3, <1>4, <1>5, <1>6, KindAt DEF TypeInv, Kinds

\* What is recent after a commit was so before, or is the row it adds.
LEMMA RecentMoves ==
  ASSUME Inv, NEW q \in Req, Commit(q), NEW i \in Recent'
  PROVE  \/ i \in Recent /\ Alike(ledger'[i], ledger[i])
         \/ /\ kind[q] = "add" /\ i = <<q, 1>>
            /\ ledger'[i].cust = job[q].cust /\ ledger'[i].type = job[q].form.type
            /\ ledger'[i].amount = job[q].form.amount
<1>1. /\ TypeInv /\ Running(q) /\ pc[q] = "commit" /\ young' = young /\ kind' = kind /\ i \in RowIds
  BY CommitIs, CommitCloses DEF Closes, Recent, Rows
<1>2. RowMoves(q, i) /\ i \in Rows' /\ kind[i[1]] = "add" /\ i[1] \in young
  BY <1>1, RowsMove DEF Recent
<1>3. CASE i \in Rows
  BY <1>1, <1>2, <1>3 DEF RowMoves, Recent, Alike
<1>4. CASE i \notin Rows
  <2>2. kind[q] = "add"
    BY <1>2, <1>4 DEF RowMoves
  <2>3. ledger' = [ledger EXCEPT ![<<q, 1>>] = Added(q)]
    BY <1>1, <2>2, CommitAdd
  <2>4. i = <<q, 1>> /\ ledger'[i] = Added(q)
    BY <1>1, <1>2, <1>4, <2>3 DEF TypeInv, TypeOK, Rows
  <2> QED
    BY <2>2, <2>4 DEF Added
<1> QED
  BY <1>3, <1>4

LEMMA CommitTwins ==
  ASSUME Inv, LockInv, TwinInv, NEW q \in Req, Commit(q)
  PROVE  TwinInv'
<1>1. /\ TypeInv /\ Running(q) /\ pc[q] = "commit" /\ ~Over(q) /\ AddHolds(q) /\ CustomerHolds(q)
      /\ kind' = kind /\ pc'[q] = "cleanup" /\ young' = young
      /\ \A x \in Req : Over(x) => Over(x)'
      /\ \A x \in Req \ {q} : UNCHANGED Mine(x)
  BY CommitIs, CommitCloses DEF Closes, TwinInv
<1>2. Exclusive
  BY DEF LockInv
<1>3. NoRecentTwins'
  <2> SUFFICES ASSUME NEW i \in Recent', NEW j \in Recent', Alike(ledger'[i], ledger'[j]), i # j
               PROVE  FALSE
    BY DEF NoRecentTwins, Recent, Alike
  <2>1. ASSUME NEW a \in Recent', NEW b \in Recent', Alike(ledger'[a], ledger'[b]), a # b, b \notin Recent
        PROVE  FALSE
    <3>1. /\ kind[q] = "add" /\ b = <<q, 1>>
          /\ ledger'[b].cust = job[q].cust /\ ledger'[b].type = job[q].form.type
          /\ ledger'[b].amount = job[q].form.amount
      BY <2>1, RecentMoves
    <3>2. a \in Recent /\ Alike(ledger'[a], ledger[a])
      BY <2>1, <3>1, RecentMoves
    <3>3. ~Alike(ledger[a], [cust |-> job[q].cust, type |-> job[q].form.type, amount |-> job[q].form.amount])
      BY <1>1, <3>1, <3>2 DEF AddHolds
    <3> QED
      BY <2>1, <3>1, <3>2, <3>3 DEF Alike
  <2>2. i \in Recent /\ j \in Recent
    BY <2>1 DEF Alike
  <2>3. CASE Alike(ledger'[i], ledger[i]) /\ Alike(ledger'[j], ledger[j])
    BY <2>2, <2>3 DEF TwinInv, NoRecentTwins, Recent, Alike
  <2>4. ASSUME NEW k \in Recent' \cap Recent PROVE Alike(ledger'[k], ledger[k])
    <3>1. ~Over(q) => \A x \in Rows : x[1] # q
      BY DEF Inv, NothingYet
    <3>2. k # <<q, 1>>
      BY <1>1, <2>4, <3>1 DEF Recent
    <3> QED
      BY <2>4, <3>2, RecentMoves
  <2> QED
    BY <2>2, <2>3, <2>4
<1>4. ASSUME NEW r \in Req, r # q PROVE AddHolds(r)' /\ CustomerHolds(r)'
  <2>1. /\ kind'[r] = kind[r] /\ pc'[r] = pc[r] /\ job'[r] = job[r] /\ holds'[r] = holds[r]
        /\ Running(r)' = Running(r) /\ AddHolds(r) /\ CustomerHolds(r)
        /\ \A mode : LockedBy(r, mode)' = LockedBy(r, mode)
    BY <1>1, <1>4 DEF Mine, Running, LockedBy, TwinInv
  <2>2. CASE kind[r] = "add"
    <3>1. CASE pc[r] = "checkTwin" /\ job[r].cust \in Known'
      <4>1. job[r].cust \in Customers /\ (job[r].cust \in Req => Over(job[r].cust)) /\ Running(r)
        BY <1>1, <2>1, <2>2, <3>1, JobIs DEF AddHolds, Running
      <4>2. job[r].cust \in Known
        BY <1>1, <3>1, <4>1, KnownMoves
      <4>3. LockedBy(r, "update")
        BY <2>1, <2>2, <3>1, <4>2 DEF AddHolds
      <4>4. AddHolds(r)'
        BY <1>1, <2>1, <2>2, <3>1, <4>1, <4>3 DEF AddHolds
      <4> QED
        BY <2>1, <2>2, <4>4 DEF CustomerHolds
    <3>2. CASE pc[r] \in {"insertRow", "commit"}
      <4>1. LockedBy(r, "update") /\ Running(r)
        BY <2>1, <2>2, <3>2 DEF AddHolds, Running
      <4>2. ASSUME NEW i \in Recent',
                   Alike(ledger'[i], [cust |-> job[r].cust, type |-> job[r].form.type, amount |-> job[r].form.amount])
            PROVE  FALSE
        <5>1. CASE i \in Recent /\ Alike(ledger'[i], ledger[i])
          BY <2>1, <2>2, <3>2, <4>2, <5>1 DEF AddHolds, Alike
        <5>2. CASE kind[q] = "add" /\ ledger'[i].cust = job[q].cust
          <6>1. job[q].cust = job[r].cust
            BY <4>2, <5>2 DEF Alike
          <6>2. LockedBy(q, "update")
            BY <1>1, <5>2 DEF AddHolds
          <6> QED
            BY <1>2, <1>4, <2>2, <4>1, <5>2, <6>1, <6>2 DEF LockedBy, Exclusive, Shares
        <5> QED
          BY <5>1, <5>2, RecentMoves
      <4>3. job[r].cust \in Req => Over(job[r].cust)'
        BY <1>1, <2>1, <2>2, <4>1 DEF AddHolds
      <4>4. AddHolds(r)'
        BY <2>1, <2>2, <3>2, <4>1, <4>2, <4>3 DEF AddHolds
      <4> QED
        BY <2>1, <2>2, <4>4 DEF CustomerHolds
    <3>3. CASE pc[r] \notin {"checkTwin", "insertRow", "commit"} \/ (pc[r] = "checkTwin" /\ job[r].cust \notin Known')
      BY <1>1, <2>1, <2>2, <3>3 DEF AddHolds, CustomerHolds
    <3> QED
      BY <3>1, <3>2, <3>3
  <2>3. CASE kind[r] = "saveCustomer" /\ pc[r] = "commit"
    <3>1. job[r].cust \in Known /\ LockedBy(r, "share")
      BY <2>1, <2>3 DEF CustomerHolds
    <3>2. job[r].cust \in Known'
      <4>1. SUFFICES ASSUME kind[q] = "deleteCustomer", job[r].cust = job[q].cust PROVE FALSE
        BY <3>1, KnownMoves DEF Known
      <4>2. LockedBy(q, "update")
        BY <1>1, <4>1 DEF CustomerHolds
      <4> QED
        BY <1>2, <1>4, <2>3, <3>1, <4>1, <4>2 DEF LockedBy, Exclusive, Shares
    <3> QED
      BY <2>1, <2>3, <3>1, <3>2 DEF AddHolds, CustomerHolds
  <2>4. CASE kind[r] # "add" /\ ~(kind[r] = "saveCustomer" /\ pc[r] = "commit")
    BY <2>1, <2>4 DEF AddHolds, CustomerHolds
  <2> QED
    BY <2>2, <2>3, <2>4
<1>5. AddHolds(q)' /\ CustomerHolds(q)'
  BY <1>1 DEF AddHolds, CustomerHolds, Running
<1> QED
  BY <1>3, <1>4, <1>5 DEF TwinInv

LEMMA InitTwins == Init => TwinInv
<1> SUFFICES ASSUME Init PROVE TwinInv
  OBVIOUS
<1>1. young = {} /\ \A r \in Req : pc[r] = "idle" /\ holds[r] = {}
  BY DEF Init
<1>2. NoRecentTwins
  BY <1>1 DEF NoRecentTwins
<1>3. \A r \in Req : AddHolds(r) /\ CustomerHolds(r)
  BY <1>1 DEF AddHolds, CustomerHolds, Running
<1> QED
  BY <1>2, <1>3 DEF TwinInv

LEMMA RestartTwins ==
  ASSUME Inv, TwinInv, Restart
  PROVE  TwinInv'
<1>1. /\ UNCHANGED <<committed, files, kind>> /\ young' \subseteq young
      /\ \A r \in Req : pc'[r] = IF Running(r) \/ pc[r] = "cleanup" THEN "failed" ELSE pc[r]
  BY RestartKeeps DEF Inv
<1>2. UNCHANGED Tables /\ \A r \in Req : pc'[r] \in Resting
  BY <1>1 DEF committed, Tables, Running, Resting
<1>3. Recent' \subseteq Recent
  BY <1>1, <1>2, RecentShrinks
<1>4. NoRecentTwins'
  BY <1>2, <1>3 DEF TwinInv, NoRecentTwins, Recent, Tables
<1>6. \A r \in Req : AddHolds(r)' /\ CustomerHolds(r)'
  BY <1>2 DEF AddHolds, CustomerHolds, Running, Resting
<1> QED
  BY <1>4, <1>6 DEF TwinInv

LEMMA NextTwins == Inv /\ LockInv /\ TwinInv /\ [Next]_vars => TwinInv'
<1> SUFFICES ASSUME Inv, LockInv, TwinInv, [Next]_vars PROVE TwinInv'
  OBVIOUS
<1>0. TypeInv
  BY DEF Inv
<1>1. ASSUME NEW r \in Req, Upload(r) \/ DeleteUpload(r) PROVE TwinInv'
  <2>1. /\ UNCHANGED <<committed, kind, young>> /\ pc[r] \in {"idle", "ready"}
        /\ \A q \in Req \ {r} : UNCHANGED Mine(q)
    BY <1>0, <1>1, ClientKeeps
  <2>2. pc'[r] \in {"ready", "done"}
    BY <1>0, <1>1 DEF Upload, DeleteUpload, Goto, TypeInv
  <2>3. UNCHANGED Tables /\ ~Over(r) /\ pc'[r] \in Resting
    BY <2>1, <2>2 DEF Tables, committed, Over, Resting
  <2> QED
    BY <2>1, <2>2, <2>3, RestsTwins
<1>2. ASSUME NEW r \in Req, CleanUp(r) PROVE TwinInv'
  <2>1. QuietStep(r) /\ pc'[r] = "done" /\ young' = young
    BY <1>0, <1>2, CleanUpKeeps, EndIs DEF CleanUp
  <2>2. /\ UNCHANGED Tables /\ kind' = kind /\ (\A q \in Req \ {r} : UNCHANGED Mine(q))
        /\ Over(r)' /\ pc'[r] \in Resting
    BY <2>1 DEF QuietStep, Tables, committed, Over, Resting
  <2> QED
    BY <2>1, <2>2, RestsTwins
<1>3. ASSUME NEW r \in Req, Abort(r) PROVE TwinInv'
  BY <1>3, RefuseTwins DEF Abort
<1>4. ASSUME NEW r \in Req, NEW s \in Scopes, SaveCheckpoint(r, s) \/ DeleteCheckpoint(r, s) PROVE TwinInv'
  <2>1. PICK now \in SUBSET Scopes : ByHand(r, now)
    BY <1>0, <1>4 DEF SaveCheckpoint, DeleteCheckpoint, TypeInv, TypeOK
  <2>2. /\ \A q \in Req \ {r} : UNCHANGED Mine(q)
        /\ UNCHANGED <<entries, custs, ledger, dues, files, kind, young>>
    BY <1>0, <2>1, ByHandKeeps
  <2>3. pc[r] = "idle" /\ pc'[r] = "done"
    BY <1>0, <2>1 DEF ByHand, Goto, TypeInv
  <2>4. UNCHANGED Tables /\ ~Over(r) /\ pc'[r] \in Resting
    BY <2>2, <2>3 DEF Tables, Over, Resting
  <2> QED
    BY <2>2, <2>3, <2>4, RestsTwins
<1>5. CASE UNCHANGED <<committed, files, kind, pc, job, seen, txn, holds>> /\ young' \subseteq young
  <2>1. UNCHANGED Tables /\ (\A q \in Req : UNCHANGED Mine(q)) /\ \A q \in Req : Over(q)' <=> Over(q)
    BY <1>5 DEF committed, Tables, Mine, Over
  <2>2. Recent' \subseteq Recent
    BY <1>5, <2>1, RecentShrinks
  <2>3. \A r \in Req : AddHolds(r)' /\ CustomerHolds(r)'
    BY <2>1, <2>2, OthersHold DEF TwinInv
  <2>4. NoRecentTwins'
    BY <2>1, <2>2 DEF TwinInv, NoRecentTwins, Recent, Tables
  <2> QED
    BY <2>3, <2>4 DEF TwinInv
<1> QED
  BY <1>1, <1>2, <1>3, <1>4, <1>5, NextIs, SendTwins, StatementsTwins, CommitTwins, RestartTwins

\* Whoever submits the same payment or sale of a customer twice within ten seconds, in
\* whatever order the requests take their steps, has it recorded once (add_ledger_entry
\* looks for a recent twin under the customer's lock).
THEOREM NoRecentTwinsHolds == Spec => []NoRecentTwins
<1>1. TwinInv => NoRecentTwins
  BY DEF TwinInv
<1> QED
  BY <1>1, InitTwins, NextTwins, InvHolds, LocksHold, PTL DEF Spec

-----------------------------------------------------------------------------
(***************************************************************************)
(* The photos.  Each is named in one place at most, which a commit may     *)
(* change; what a request will have deleted is named only where its commit *)
(* takes the name away.                                                    *)
(***************************************************************************)
Names(p, key) == NamesIn(entries, custs, ledger, p, key)
Old(key) == key \in Req => Over(key)
OnlyAt(key, at) == Old(key) /\ \A p \in Places : Names(p, key) => p \in at

NamedOnce ==
  \A key \in Keys, p \in Places : Names(p, key) => OnlyAt(key, {p}) /\ key \in files

\* The photo a request has uploaded is there for as long as the request may name it.
Uploaded(r) == pc[r] = "ready" \/ (Running(r) /\ r \in job[r].bills) => r \in files

QueueFree(r) == pc[r] = "cleanup" => \A key \in txn[r].queue : OnlyAt(key, {})

EntryHeld(r) ==
  kind[r] = "deleteEntry" =>
    /\ HasLoaded(r) => \A key \in seen[r].entry.bills : OnlyAt(key, {<<"entry", job[r].entry>>})
    /\ HasRead(r) => \A c \in Customers : \A key \in seen[r].bills[c] :
                       OnlyAt(key, {<<"row", i>> : i \in seen[r].rows})

RowHeld(r) ==
  kind[r] \in {"attach", "deleteRow"} /\ pc[r] \in {"writeRow", "commit"} /\ seen[r] # None =>
    OnlyAt(seen[r], {<<"row", job[r].row>>})

CustomerHeld(r) ==
  kind[r] \in {"saveCustomer", "deleteCustomer"} /\ pc[r] \in {"writeCustomer", "commit"} =>
    /\ \A key \in seen[r].bills : OnlyAt(key, {<<"cust", job[r].cust>>})
    /\ kind[r] = "deleteCustomer" =>
         \A key \in seen[r].rows : OnlyAt(key, {<<"row", i>> : i \in OfCustomer(job[r].cust)})

\* A form sends back what it was shown, and the new photo.
Resends(r) ==
  Running(r) =>
    /\ kind[r] \in {"attach", "add", "addCustomer"} => job[r].bills \subseteq {r}
    /\ kind[r] = "addCustomer" => job[r].cust = r
    /\ kind[r] = "saveCustomer" =>
         /\ pc[r] = "loadCustomer" /\ custs[job[r].cust] # None =>
              job[r].bills \subseteq custs[job[r].cust] \cup {r}
         /\ pc[r] \in {"writeCustomer", "commit"} => job[r].bills \subseteq seen[r].bills \cup {r}

Keeps(r) == Uploaded(r) /\ QueueFree(r) /\ EntryHeld(r) /\ RowHeld(r) /\ CustomerHeld(r) /\ Resends(r)

FilesInv == ClientsTakeCare /\ NamedOnce /\ \A r \in Req : Keeps(r)

\* What a save and a deletion go by when clients take care.
LEMMA Cared ==
  ASSUME ClientsTakeCare
  PROVE  /\ "attach" \in Avoid /\ "customer" \in Avoid /\ "delete" \in Avoid /\ "forms" \in Avoid
         /\ {"delete", "forms"} \subseteq Avoid
         /\ Stale = {} /\ Removable = {} /\ Lost = {} /\ \A q, c : ~Takes(q, c)
BY DEF ClientsTakeCare, Lost, Takes

LEMMA CareOfSave ==
  ASSUME ClientsTakeCare, Inv, NEW r \in Req, kind[r] = "save", Running(r)
  PROVE  /\ job[r].entry # r => /\ entries[job[r].entry] # None
                                /\ job[r].bills \subseteq entries[job[r].entry].bills \cup {r}
         /\ job[r].entry = r => job[r].bills \subseteq {r}
         /\ HasLoaded(r) =>
              /\ job[r].entry = r => seen[r].entry = None
              /\ job[r].entry # r =>
                   seen[r].entry # None /\ seen[r].entry.bills = entries[job[r].entry].bills
         /\ HasRead(r) => seen[r].rows = Sourced(job[r].entry) /\ seen[r].bills = BillsByCustomer(job[r].entry)
<1>1. TypeInv /\ SaveFits(r) /\ SeenFits(r)
  BY DEF Inv, Right, TypeInv, Fits
<1>2. /\ job[r].entry # r => /\ entries[job[r].entry] # None
                             /\ job[r].bills \subseteq entries[job[r].entry].bills \cup {r}
      /\ job[r].entry = r => job[r].bills \subseteq {r}
  BY <1>1, Cared DEF SaveFits
<1>3. HasLoaded(r) =>
        /\ job[r].entry = r => seen[r].entry = None
        /\ job[r].entry # r => seen[r].entry # None /\ seen[r].entry.bills = entries[job[r].entry].bills
  BY <1>1 DEF SaveFits
<1>4. ASSUME HasRead(r) PROVE seen[r].rows = Sourced(job[r].entry) /\ seen[r].bills = BillsByCustomer(job[r].entry)
  <2>1. /\ seen[r].rows \subseteq Rows /\ Sourced(job[r].entry) = seen[r].rows \cap Rows
        /\ \A c \in Customers : seen[r].bills[c] = BillsByCustomer(job[r].entry)[c]
    BY <1>1, <1>4, Cared DEF SaveFits
  <2>2. seen[r] \in EntryRead
    BY <1>1, <1>4, KindAt DEF SeenFits, HasRead
  <2>3. seen[r].bills = [c \in Customers |-> seen[r].bills[c]]
    BY <2>2 DEF EntryRead
  <2>4. BillsByCustomer(job[r].entry) = [c \in Customers |-> BillsByCustomer(job[r].entry)[c]]
    BY DEF BillsByCustomer
  <2> QED
    BY <2>1, <2>3, <2>4
<1> QED
  BY <1>2, <1>3, <1>4

LEMMA CareOfDelete ==
  ASSUME ClientsTakeCare, Inv, NEW r \in Req, kind[r] = "deleteEntry", HasRead(r), Running(r)
  PROVE  /\ Sourced(job[r].entry) \subseteq seen[r].rows
         /\ \A i \in seen[r].rows \cap Rows : ledger[i].src = job[r].entry
BY Cared DEF Inv, Right, DeleteFits

LEMMA CareOfRow ==
  ASSUME ClientsTakeCare, Inv, NEW r \in Req, kind[r] \in {"attach", "deleteRow"}, Running(r)
  PROVE  /\ job[r].row \in Rows => ledger[job[r].row].src = job[r].entry
         /\ kind[r] = "deleteRow" /\ pc[r] \in {"writeRow", "commit"} => job[r].entry = None
BY Cared DEF Inv, Right, RowFits

LEMMA CareApart ==
  ASSUME ClientsTakeCare, Inv, NEW q \in Req, NEW r \in Req, q # r, Running(q), Running(r)
  PROVE  /\ kind[r] = "deleteEntry" /\ kind[q] = "save" => job[q].entry # job[r].entry
         /\ kind[r] = "attach" /\ kind[q] = "save" => job[q].entry # job[r].entry
         /\ kind[r] = "saveCustomer" /\ kind[q] = "saveCustomer" => job[q].cust # job[r].cust
<1>1. kind[r] = "attach" /\ kind[q] = "save" => job[q].entry # job[r].entry
  BY Cared, Apart
<1>2. kind[r] = "saveCustomer" /\ kind[q] = "saveCustomer" => job[q].cust # job[r].cust
  BY Cared, Apart
<1>3. ASSUME kind[r] = "deleteEntry", kind[q] = "save" PROVE job[q].entry # job[r].entry
  <2>1. CASE job[q].entry = q
    <3>1. job[r].entry # q
      BY DEF Inv, Right, JobOld, Over, Running
    <3> QED
      BY <2>1, <3>1
  <2>2. CASE job[q].entry # q
    <3>1. entries[job[q].entry] # None
      BY <1>3, <2>2, CareOfSave
    <3> QED
      BY <1>3, <3>1, Cared, Apart
  <2> QED
    BY <2>1, <2>2
<1> QED
  BY <1>1, <1>2, <1>3

LEMMA PlacesAre ==
  ASSUME NEW p \in Places
  PROVE  \/ \E e \in EntryIds : p = <<"entry", e>>
         \/ \E c \in Customers : p = <<"cust", c>>
         \/ \E i \in RowIds : p = <<"row", i>>
BY DEF Places

LEMMA NamesAre ==
  ASSUME NEW es, NEW cs, NEW rows, NEW key
  PROVE  /\ \A e \in EntryIds : /\ <<"entry", e>> \in Places
                                /\ NamesIn(es, cs, rows, <<"entry", e>>, key) <=> es[e] # None /\ key \in es[e].bills
         /\ \A c \in Customers : /\ <<"cust", c>> \in Places
                                 /\ NamesIn(es, cs, rows, <<"cust", c>>, key) <=> cs[c] # None /\ key \in cs[c]
         /\ \A i \in RowIds : /\ <<"row", i>> \in Places
                              /\ NamesIn(es, cs, rows, <<"row", i>>, key) <=> rows[i] # None /\ rows[i].bill = key
BY DEF NamesIn, Places

LEMMA NamesNow ==
  ASSUME NEW key
  PROVE  /\ \A e \in EntryIds : /\ <<"entry", e>> \in Places
                                /\ Names(<<"entry", e>>, key) <=> entries[e] # None /\ key \in entries[e].bills
                                /\ Names(<<"entry", e>>, key)' <=> entries'[e] # None /\ key \in entries'[e].bills
         /\ \A c \in Customers : /\ <<"cust", c>> \in Places
                                 /\ Names(<<"cust", c>>, key) <=> custs[c] # None /\ key \in custs[c]
                                 /\ Names(<<"cust", c>>, key)' <=> custs'[c] # None /\ key \in custs'[c]
         /\ \A i \in RowIds : /\ <<"row", i>> \in Places
                              /\ Names(<<"row", i>>, key) <=> ledger[i] # None /\ ledger[i].bill = key
                              /\ Names(<<"row", i>>, key)' <=> ledger'[i] # None /\ ledger'[i].bill = key
<1>1. \A e \in EntryIds : /\ <<"entry", e>> \in Places
                          /\ Names(<<"entry", e>>, key) <=> entries[e] # None /\ key \in entries[e].bills
                          /\ Names(<<"entry", e>>, key)' <=> entries'[e] # None /\ key \in entries'[e].bills
  BY NamesAre DEF Names
<1>2. \A c \in Customers : /\ <<"cust", c>> \in Places
                           /\ Names(<<"cust", c>>, key) <=> custs[c] # None /\ key \in custs[c]
                           /\ Names(<<"cust", c>>, key)' <=> custs'[c] # None /\ key \in custs'[c]
  BY NamesAre DEF Names
<1>3. \A i \in RowIds : /\ <<"row", i>> \in Places
                        /\ Names(<<"row", i>>, key) <=> ledger[i] # None /\ ledger[i].bill = key
                        /\ Names(<<"row", i>>, key)' <=> ledger'[i] # None /\ ledger'[i].bill = key
  <2> SUFFICES ASSUME NEW i \in RowIds
               PROVE  /\ <<"row", i>> \in Places
                      /\ Names(<<"row", i>>, key) <=> ledger[i] # None /\ ledger[i].bill = key
                      /\ Names(<<"row", i>>, key)' <=> ledger'[i] # None /\ ledger'[i].bill = key
    OBVIOUS
  <2>1. <<"row", i>> \in Places
    BY NamesAre
  <2>2. NamesIn(entries, custs, ledger, <<"row", i>>, key) <=> ledger[i] # None /\ ledger[i].bill = key
    BY NamesAre
  <2>3. NamesIn(entries', custs', ledger', <<"row", i>>, key) <=> ledger'[i] # None /\ ledger'[i].bill = key
    BY NamesAre
  <2> QED
    BY <2>1, <2>2, <2>3 DEF Names
<1> QED
  BY <1>1, <1>2, <1>3

LEMMA NamedIs ==
  ASSUME TypeInv
  PROVE  /\ Named \in SUBSET Keys
         /\ \A key \in Keys : key \in Named <=> \E p \in Places : Names(p, key)
<1>1. /\ entries \in [EntryIds -> Entry \cup {None}] /\ custs \in [Customers -> (SUBSET Keys) \cup {None}]
      /\ ledger \in [RowIds -> Charge \cup {None}] /\ None \notin Keys
  BY IdsAreDistinct DEF TypeInv, TypeOK
<1>2. ASSUME NEW key \in Named PROVE key \in Keys /\ \E p \in Places : Names(p, key)
  <2>1. ASSUME NEW e \in EntryIds, entries[e] # None, key \in entries[e].bills
        PROVE  key \in Keys /\ \E p \in Places : Names(p, key)
    <3>1. entries[e] \in Entry
      BY <1>1, <2>1
    <3>2. key \in Keys
      BY <2>1, <3>1 DEF Entry
    <3> QED
      BY <2>1, <3>2, NamesNow
  <2>2. ASSUME NEW c \in Customers, custs[c] # None, key \in custs[c]
        PROVE  key \in Keys /\ \E p \in Places : Names(p, key)
    BY <1>1, <2>2, NamesNow
  <2>3. ASSUME NEW i \in Rows, ledger[i].bill = key, key # None
        PROVE  key \in Keys /\ \E p \in Places : Names(p, key)
    <3>1. i \in RowIds /\ ledger[i] # None /\ ledger[i] \in Charge
      BY <1>1 DEF Rows
    <3>2. key \in Keys
      BY <2>3, <3>1 DEF Charge
    <3> QED
      BY <2>3, <3>1, <3>2, NamesNow
  <2> QED
    BY <1>2, <2>1, <2>2, <2>3 DEF Named, BillsOf
<1>3. ASSUME NEW key \in Keys, NEW p \in Places, Names(p, key) PROVE key \in Named
  <2>1. ASSUME NEW e \in EntryIds, p = <<"entry", e>> PROVE key \in Named
    BY <1>3, <2>1, NamesNow DEF Named
  <2>2. ASSUME NEW c \in Customers, p = <<"cust", c>> PROVE key \in Named
    BY <1>3, <2>2, NamesNow DEF Named
  <2>3. ASSUME NEW i \in RowIds, p = <<"row", i>> PROVE key \in Named
    <3>1. i \in Rows /\ ledger[i].bill = key /\ key # None
      BY <1>1, <1>3, <2>3, NamesNow DEF Rows
    <3> QED
      BY <3>1 DEF Named, BillsOf
  <2> QED
    BY <2>1, <2>2, <2>3, PlacesAre
<1> QED
  BY <1>2, <1>3

\* What the commit of q leaves where it was, carries over to a new charge, or names first.
Stays(q, p, key) ==
  /\ Names(p, key)
  /\ kind[q] = "save" => /\ p = <<"entry", job[q].entry>> => key \in job[q].bills
                         /\ \A i \in Sourced(job[q].entry) : p # <<"row", i>>
  /\ kind[q] = "deleteEntry" => /\ p # <<"entry", job[q].entry>>
                                /\ \A i \in seen[q].rows : p # <<"row", i>>
  /\ kind[q] = "attach" => p # <<"row", job[q].row>> \/ NewBill(q) \in {seen[q], key}
  /\ kind[q] = "deleteRow" => p # <<"row", job[q].row>>
  /\ kind[q] = "saveCustomer" => p # <<"cust", job[q].cust>> \/ key \notin seen[q].bills \ job[q].bills
  /\ kind[q] = "deleteCustomer" => /\ p # <<"cust", job[q].cust>>
                                   /\ \A i \in OfCustomer(job[q].cust) : p # <<"row", i>>

Carried(q, p, key) ==
  /\ kind[q] = "save"
  /\ \E n \in ChargeLines(NewEntry(q)), i \in Sourced(job[q].entry) :
       /\ p = <<"row", <<q, n>>>> /\ key = CarriedBill(NewEntry(q), n, seen[q].bills)
       /\ <<q, n>> \in DOMAIN Charges(q) /\ Charges(q)[<<q, n>>].bill = key
       /\ ledger[i].bill = key /\ ledger[i].cust = NewEntry(q).lines[n].who

Home(q) ==
  CASE kind[q] = "save" -> <<"entry", job[q].entry>>
    [] kind[q] = "attach" -> <<"row", job[q].row>>
    [] kind[q] = "add" -> <<"row", <<q, 1>>>>
    [] OTHER -> <<"cust", job[q].cust>>

Made(q, p, key) == key = q /\ q \in job[q].bills /\ p = Home(q)

LEMMA SaveMoves ==
  ASSUME Inv, FilesInv, NEW q \in Req, Commit(q), kind[q] = "save",
         NEW p \in Places, NEW key \in Keys, Names(p, key)'
  PROVE  Stays(q, p, key) \/ Carried(q, p, key) \/ Made(q, p, key)
<1>1. /\ TypeInv /\ Right(q) /\ Running(q) /\ pc[q] = "commit" /\ ~Over(q)
      /\ entries \in [EntryIds -> Entry \cup {None}] /\ ledger \in [RowIds -> Charge \cup {None}]
      /\ None \notin Keys
  BY CommitIs, IdsAreDistinct DEF TypeInv, TypeOK
<1>2. /\ job[q].entry \in EntryIds /\ seen[q] \in EntryRead
      /\ entries' = [entries EXCEPT ![job[q].entry] = NewEntry(q)] /\ custs' = custs
      /\ ledger' = [i \in RowIds |-> IF i \in DOMAIN Charges(q) THEN Charges(q)[i]
                                     ELSE IF i \in seen[q].rows THEN None ELSE ledger[i]]
  BY CommitSave, <1>1
<1>3. seen[q].rows = Sourced(job[q].entry) /\ seen[q].bills = BillsByCustomer(job[q].entry)
  BY <1>1, CareOfSave DEF FilesInv, HasRead
<1>4. ASSUME NEW e \in EntryIds, p = <<"entry", e>>
      PROVE  Stays(q, p, key) \/ Made(q, p, key)
  <2>1. CASE e = job[q].entry
    <3>1. key \in job[q].bills
      <4>1. NewEntry(q).bills = job[q].bills /\ entries'[e] = NewEntry(q)
        BY <1>1, <1>2, <2>1, NewEntryIs
      <4> QED
        BY <1>4, <4>1, NamesNow
    <3>2. key # q => Names(p, key)
      <4>1. \/ e # q /\ entries[e] # None /\ job[q].bills \subseteq entries[e].bills \cup {q}
            \/ e = q /\ job[q].bills \subseteq {q}
        BY <1>1, <2>1, CareOfSave DEF FilesInv
      <4> QED
        BY <1>4, <3>1, <4>1, NamesNow
    <3> QED
      <4>1. CASE key = q
        <5>1. q \in job[q].bills
          BY <3>1, <4>1
        <5>2. p = Home(q)
          BY <1>4, <2>1 DEF Home
        <5> QED
          BY <4>1, <5>1, <5>2 DEF Made
      <4>2. CASE key # q
        BY <1>4, <2>1, <3>1, <3>2, <4>2 DEF Stays
      <4> QED
        BY <4>1, <4>2
  <2>2. CASE e # job[q].entry
    <3>1. entries'[e] = entries[e]
      BY <1>1, <1>2, <2>2
    <3>2. Names(p, key)
      BY <1>4, <3>1, NamesNow
    <3> QED
      BY <1>4, <2>2, <3>2 DEF Stays
  <2> QED
    BY <2>1, <2>2
<1>5. ASSUME NEW c \in Customers, p = <<"cust", c>>
      PROVE  Stays(q, p, key)
  <2>1. Names(p, key)
    BY <1>2, <1>5, NamesNow
  <2> QED
    BY <1>5, <2>1 DEF Stays
<1>6. ASSUME NEW i \in RowIds, p = <<"row", i>>
      PROVE  Stays(q, p, key) \/ Carried(q, p, key)
  <2>0. ledger'[i] # None /\ ledger'[i].bill = key
    BY <1>6, NamesNow
  <2>1. CASE i \in DOMAIN Charges(q)
    <3> DEFINE x == NewEntry(q)
               bill(n) == CarriedBill(x, n, seen[q].bills)
    <3>1. /\ i = <<q, i[2]>> /\ i[2] \in ChargeLines(x)
          /\ Charges(q)[i] = [cust |-> x.lines[i[2]].who, type |-> "credit", amount |-> x.lines[i[2]].amount,
                              src |-> job[q].entry, bill |-> bill(i[2])]
      BY <1>1, <2>1, ChargesAre
    <3>2. x.lines \in Seq(Line) /\ seen[q].bills \in [Customers -> SUBSET Keys]
      BY <1>1, <1>2, NewEntryIs DEF EntryRead
    <3>3. bill(i[2]) \in seen[q].bills[x.lines[i[2]].who] \cup {None} /\ x.lines[i[2]].who \in Customers
      BY <3>1, <3>2, CarriedBillIs, ChargeLinesAre
    <3>4. bill(i[2]) = key
      <4> HIDE DEF x, bill
      <4> QED
        BY <1>2, <2>0, <2>1, <3>1
    <3>5. PICK c \in Customers : c = x.lines[i[2]].who
      BY <3>3
    <3>6. key \in BillsOf(Sourced(job[q].entry) \cap OfCustomer(c))
      BY <1>1, <1>3, <3>3, <3>4, <3>5 DEF BillsByCustomer
    <3>7. PICK j \in Sourced(job[q].entry) : ledger[j].bill = key /\ ledger[j].cust = c
      BY <3>6 DEF BillsOf, OfCustomer
    <3> HIDE DEF x, bill
    <3>8. Charges(q)[i].bill = key
      BY <3>1, <3>4
    <3>9. PICK n \in ChargeLines(x) : n = i[2]
      BY <3>1
    <3>10. p = <<"row", <<q, n>>>> /\ key = bill(n) /\ ledger[j].cust = x.lines[n].who
           /\ <<q, n>> \in DOMAIN Charges(q) /\ Charges(q)[<<q, n>>].bill = key
      BY <1>6, <2>1, <3>1, <3>4, <3>5, <3>7, <3>8, <3>9
    <3> QED
      BY <3>7, <3>10 DEF Carried, x, bill
  <2>2. CASE i \notin DOMAIN Charges(q)
    <3>1. i \notin seen[q].rows /\ ledger'[i] = ledger[i]
      BY <1>2, <2>0, <2>2
    <3>2. Names(p, key)
      BY <1>6, <2>0, <3>1, NamesNow
    <3> QED
      BY <1>3, <1>6, <3>1, <3>2 DEF Stays
  <2> QED
    BY <2>1, <2>2
<1> QED
  BY <1>4, <1>5, <1>6, PlacesAre

\* An entry that a commit does not write names what it named.
LEMMA EntryNames ==
  ASSUME Inv, NEW q \in Req, Commit(q), NEW e \in EntryIds, NEW key,
         kind[q] \in {"save", "deleteEntry"} => job[q].entry # e
  PROVE  Names(<<"entry", e>>, key)' <=> Names(<<"entry", e>>, key)
BY EntryStays, NamesNow

LEMMA DeleteMoves ==
  ASSUME Inv, FilesInv, NEW q \in Req, Commit(q), kind[q] = "deleteEntry",
         NEW p \in Places, NEW key \in Keys, Names(p, key)'
  PROVE  Stays(q, p, key)
<1>1. /\ TypeInv /\ Right(q) /\ Running(q) /\ pc[q] = "commit"
      /\ entries \in [EntryIds -> Entry \cup {None}] /\ ledger \in [RowIds -> Charge \cup {None}]
  BY CommitIs DEF TypeInv, TypeOK
<1>2. /\ job[q].entry \in EntryIds
      /\ entries' = [entries EXCEPT ![job[q].entry] = None] /\ custs' = custs
      /\ ledger' = [i \in RowIds |-> IF i \in seen[q].rows \/ ledger[i] = None THEN None
                                     ELSE IF ledger[i].src = job[q].entry THEN [ledger[i] EXCEPT !.src = None]
                                     ELSE ledger[i]]
  BY CommitDeleteEntry, <1>1
<1>3. Sourced(job[q].entry) \subseteq seen[q].rows
  BY <1>1, CareOfDelete DEF FilesInv, HasRead
<1>4. ASSUME NEW e \in EntryIds, p = <<"entry", e>> PROVE Stays(q, p, key)
  <2>1. e # job[q].entry
    BY <1>1, <1>2, <1>4, NamesNow
  <2>2. Names(p, key)
    BY <1>4, <2>1, EntryNames
  <2> QED
    BY <1>4, <2>1, <2>2 DEF Stays
<1>5. ASSUME NEW c \in Customers, p = <<"cust", c>> PROVE Stays(q, p, key)
  <2>1. Names(p, key)
    BY <1>2, <1>5, NamesNow
  <2> QED
    BY <1>5, <2>1 DEF Stays
<1>6. ASSUME NEW i \in RowIds, p = <<"row", i>> PROVE Stays(q, p, key)
  <2>1. ledger'[i] # None /\ ledger'[i].bill = key
    BY <1>6, NamesNow
  <2>2. i \notin seen[q].rows /\ ledger[i] # None
    BY <1>2, <2>1
  <2>3. ledger'[i] = ledger[i]
    BY <1>2, <1>3, <2>2 DEF Sourced, Rows
  <2>4. Names(p, key)
    BY <1>6, <2>1, <2>3, NamesNow
  <2> QED
    BY <1>6, <2>2, <2>4 DEF Stays
<1> QED
  BY <1>4, <1>5, <1>6, PlacesAre

LEMMA RowMovesNames ==
  ASSUME Inv, FilesInv, NEW q \in Req, Commit(q), kind[q] \in {"attach", "deleteRow", "add"},
         NEW p \in Places, NEW key \in Keys, Names(p, key)'
  PROVE  Stays(q, p, key) \/ Made(q, p, key)
<1>1. /\ TypeInv /\ Running(q) /\ pc[q] = "commit" /\ None \notin Keys
      /\ ledger \in [RowIds -> Charge \cup {None}]
  BY CommitIs, IdsAreDistinct DEF TypeInv, TypeOK
<1>2. entries' = entries /\ custs' = custs
  BY CommitAttach, CommitDeleteRow, CommitAdd, <1>1
<1>3. kind[q] \in {"attach", "add"} /\ NewBill(q) # None => NewBill(q) = q /\ q \in job[q].bills
  <2>1. kind[q] \in {"attach", "add"} => job[q].bills \subseteq {q}
    BY <1>1 DEF FilesInv, Keeps, Resends
  <2>2. NewBill(q) # None => NewBill(q) = q /\ job[q].bills # {}
    BY DEF NewBill
  <2> QED
    BY <2>1, <2>2
<1>4. ASSUME NEW e \in EntryIds, p = <<"entry", e>> PROVE Stays(q, p, key)
  <2>1. Names(p, key)
    BY <1>2, <1>4, NamesNow
  <2> QED
    BY <1>4, <2>1 DEF Stays
<1>5. ASSUME NEW c \in Customers, p = <<"cust", c>> PROVE Stays(q, p, key)
  <2>1. Names(p, key)
    BY <1>2, <1>5, NamesNow
  <2> QED
    BY <1>5, <2>1 DEF Stays
<1>6. ASSUME NEW i \in RowIds, p = <<"row", i>> PROVE Stays(q, p, key) \/ Made(q, p, key)
  <2>1. ledger'[i] # None /\ ledger'[i].bill = key
    BY <1>6, NamesNow
  <2>2. CASE kind[q] = "attach"
    <3>1. ledger' = [j \in RowIds |-> IF j = job[q].row /\ ledger[j] # None /\ NewBill(q) # seen[q]
                                      THEN [ledger[j] EXCEPT !.bill = NewBill(q)] ELSE ledger[j]]
      BY <1>1, <2>2, CommitAttach
    <3>2. CASE i = job[q].row /\ ledger[i] # None /\ NewBill(q) # seen[q]
      <4>1. ledger[i] \in Charge /\ ledger'[i] = [ledger[i] EXCEPT !.bill = NewBill(q)]
        BY <1>1, <3>1, <3>2
      <4>2. key = NewBill(q)
        BY <2>1, <4>1 DEF Charge
      <4>3. key = q /\ q \in job[q].bills
        BY <1>1, <1>3, <2>2, <4>2
      <4>4. p = Home(q)
        BY <1>6, <2>2, <3>2 DEF Home
      <4> QED
        BY <4>3, <4>4 DEF Made
    <3>3. CASE ~(i = job[q].row /\ ledger[i] # None /\ NewBill(q) # seen[q])
      <4>1. ledger'[i] = ledger[i]
        BY <3>1, <3>3
      <4>2. Names(p, key)
        BY <1>6, <2>1, <4>1, NamesNow
      <4>3. p # <<"row", job[q].row>> \/ NewBill(q) = seen[q]
        BY <1>6, <2>1, <3>3, <4>1
      <4> QED
        BY <2>2, <4>2, <4>3 DEF Stays
    <3> QED
      BY <3>2, <3>3
  <2>3. CASE kind[q] = "deleteRow"
    <3>1. ledger' = [ledger EXCEPT ![job[q].row] = None]
      BY <1>1, <2>3, CommitDeleteRow
    <3>2. i # job[q].row /\ ledger'[i] = ledger[i]
      BY <1>1, <2>1, <3>1
    <3>3. Names(p, key)
      BY <1>6, <2>1, <3>2, NamesNow
    <3> QED
      BY <1>6, <2>3, <3>2, <3>3 DEF Stays
  <2>4. CASE kind[q] = "add"
    <3>1. ledger' = [ledger EXCEPT ![<<q, 1>>] = Added(q)] /\ Added(q).bill = NewBill(q)
      BY <1>1, <2>4, CommitAdd DEF Added
    <3>2. CASE i = <<q, 1>>
      <4>1. key = q /\ q \in job[q].bills
        BY <1>1, <1>3, <2>1, <2>4, <3>1, <3>2
      <4>2. p = Home(q)
        BY <1>6, <2>4, <3>2 DEF Home
      <4> QED
        BY <4>1, <4>2 DEF Made
    <3>3. CASE i # <<q, 1>>
      <4>1. ledger'[i] = ledger[i]
        BY <1>1, <3>1, <3>3
      <4>2. Names(p, key)
        BY <1>6, <2>1, <4>1, NamesNow
      <4> QED
        BY <2>4, <4>2 DEF Stays
    <3> QED
      BY <3>2, <3>3
  <2> QED
    BY <2>2, <2>3, <2>4
<1> QED
  BY <1>4, <1>5, <1>6, PlacesAre

LEMMA CustomerMoves ==
  ASSUME Inv, FilesInv, NEW q \in Req, Commit(q), kind[q] \in {"saveCustomer", "addCustomer", "deleteCustomer"},
         NEW p \in Places, NEW key \in Keys, Names(p, key)'
  PROVE  Stays(q, p, key) \/ Made(q, p, key)
<1>1. /\ TypeInv /\ Running(q) /\ pc[q] = "commit" /\ None \notin Keys /\ job[q].cust \in Customers
      /\ ledger \in [RowIds -> Charge \cup {None}] /\ custs \in [Customers -> (SUBSET Keys) \cup {None}]
  BY CommitIs, JobIs, IdsAreDistinct DEF TypeInv, TypeOK
<1>2. kind[q] \in {"saveCustomer", "addCustomer"} =>
        /\ custs' = [custs EXCEPT ![job[q].cust] = BillsAfter(q)] /\ ledger' = ledger
  BY CommitCustomer, <1>1
<1>3. kind[q] = "deleteCustomer" =>
        /\ custs' = [custs EXCEPT ![job[q].cust] = None]
        /\ ledger' = [i \in RowIds |-> IF ledger[i] # None /\ ledger[i].cust = job[q].cust
                                       THEN None ELSE ledger[i]]
  BY CommitDeleteCustomer, <1>1
<1>4. ASSUME NEW e \in EntryIds, p = <<"entry", e>> PROVE Stays(q, p, key)
  <2>1. Names(p, key)
    BY <1>4, EntryNames
  <2> QED
    BY <1>4, <2>1 DEF Stays
<1>5. ASSUME NEW c \in Customers, p = <<"cust", c>> PROVE Stays(q, p, key) \/ Made(q, p, key)
  <2>0. custs'[c] # None /\ key \in custs'[c]
    BY <1>5, NamesNow
  <2>1. CASE c # job[q].cust
    <3>1. custs'[c] = custs[c]
      BY <1>1, <1>2, <1>3, <2>1
    <3>2. Names(p, key)
      BY <1>5, <2>0, <3>1, NamesNow
    <3> QED
      BY <1>5, <2>1, <3>2 DEF Stays
  <2>2. CASE c = job[q].cust
    <3>1. kind[q] \in {"saveCustomer", "addCustomer"} /\ key \in BillsAfter(q)
      BY <1>1, <1>2, <1>3, <2>0, <2>2
    <3>2. CASE key \in job[q].bills \ OldBills(q)
      <4>1. key = q
        BY <1>1, <3>1, <3>2 DEF FilesInv, Keeps, Resends, OldBills
      <4>2. p = Home(q)
        BY <1>5, <2>2, <3>1 DEF Home
      <4> QED
        BY <3>2, <4>1, <4>2 DEF Made
    <3>3. CASE key \notin job[q].bills \ OldBills(q)
      <4>1. custs[c] # None /\ key \in custs[c] /\ key \notin OldBills(q) \ job[q].bills
        BY <2>2, <3>1, <3>3 DEF BillsAfter
      <4>2. Names(p, key)
        BY <1>5, <4>1, NamesNow
      <4> QED
        BY <3>1, <4>1, <4>2 DEF Stays, OldBills
    <3> QED
      BY <3>2, <3>3
  <2> QED
    BY <2>1, <2>2
<1>6. ASSUME NEW i \in RowIds, p = <<"row", i>> PROVE Stays(q, p, key)
  <2>0. ledger'[i] # None /\ ledger'[i].bill = key
    BY <1>6, NamesNow
  <2>1. ledger'[i] = ledger[i] /\ (kind[q] = "deleteCustomer" => ledger[i].cust # job[q].cust)
    BY <1>2, <1>3, <2>0
  <2>2. Names(p, key)
    BY <1>6, <2>0, <2>1, NamesNow
  <2> QED
    BY <1>6, <2>1, <2>2 DEF Stays, OfCustomer
<1> QED
  BY <1>4, <1>5, <1>6, PlacesAre

LEMMA KeyMoves ==
  ASSUME Inv, FilesInv, NEW q \in Req, Commit(q), NEW p \in Places, NEW key \in Keys, Names(p, key)'
  PROVE  Stays(q, p, key) \/ Carried(q, p, key) \/ Made(q, p, key)
BY SaveMoves, DeleteMoves, RowMovesNames, CustomerMoves, CommitKeeps DEF Inv

\* Two charges of one customer take over two bills.
LEMMA CarriedApart ==
  ASSUME NEW x, x.lines \in Seq(Line), NEW bills \in [Customers -> SUBSET Keys], NEW key \in Keys,
         NEW a \in ChargeLines(x), NEW b \in ChargeLines(x), x.lines[a].who = x.lines[b].who,
         CarriedBill(x, a, bills) = key, CarriedBill(x, b, bills) = key
  PROVE  a = b
<1>1. PICK c \in Customers : x.lines[a].who = c /\ x.lines[b].who = c
  BY ChargeLinesAre
<1> DEFINE S == bills[c]
           L == {i \in ChargeLines(x) : x.lines[i].who = c}
           bill(i) == CarriedBill(x, i, bills)
<1>2. /\ IsFiniteSet(S) /\ Cardinality(S) \in Nat
      /\ \A i, j \in 1 .. Cardinality(S) : SetToSeq(S)[i] = SetToSeq(S)[j] => i = j
  <2>1. S \in SUBSET Keys
    OBVIOUS
  <2> HIDE DEF S
  <2>2. IsFiniteSet(S)
    BY <2>1, KeysFinite
  <2> QED
    BY <2>2, SequenceOf
<1>3. ASSUME NEW i \in L
      PROVE  bill(i) = IF Cardinality(UpTo(L, i)) <= Cardinality(S)
                       THEN SetToSeq(S)[Cardinality(UpTo(L, i))] ELSE None
  <2>1. x.lines[i].who = c /\ {k \in ChargeLines(x) : k <= i /\ x.lines[k].who = c} = UpTo(L, i)
    BY DEF UpTo
  <2> QED
    BY <2>1 DEF CarriedBill
<1>4. PICK n \in Nat : L \in SUBSET (1 .. n)
  <2>1. Len(x.lines) \in Nat /\ L \in SUBSET (1 .. Len(x.lines))
    BY ChargeLinesAre
  <2> QED
    BY <2>1
<1>5. a \in L /\ b \in L /\ bill(a) = key /\ bill(b) = key /\ key # None
  BY <1>1, IdsAreDistinct
<1> HIDE DEF L, S, bill
<1>6. /\ \A i, j \in L : Cardinality(UpTo(L, i)) = Cardinality(UpTo(L, j)) => i = j
      /\ \A i \in L : Cardinality(UpTo(L, i)) \in Nat \ {0}
  BY <1>4, EveryRank
<1>7. PICK m \in Nat \ {0}, k \in Nat \ {0} : m = Cardinality(UpTo(L, a)) /\ k = Cardinality(UpTo(L, b))
  BY <1>5, <1>6
<1>8. m <= Cardinality(S) /\ k <= Cardinality(S) /\ SetToSeq(S)[m] = SetToSeq(S)[k]
  BY <1>3, <1>5, <1>7
<1>9. m \in 1 .. Cardinality(S) /\ k \in 1 .. Cardinality(S)
  BY <1>2, <1>8
<1> QED
  BY <1>2, <1>5, <1>6, <1>7, <1>8, <1>9

\* A photo that the commit leaves named was named there before, and comes from where it
\* was, if the commit carries none over.
LEMMA PlacesKept ==
  ASSUME Inv, FilesInv, NEW q \in Req, Commit(q), NEW key \in Keys, NEW S, OnlyAt(key, S),
         kind[q] = "save" => \A i \in Sourced(job[q].entry) : <<"row", i>> \notin S
  PROVE  /\ Old(key)'
         /\ \A p \in Places : Names(p, key)' => p \in S /\ Names(p, key) /\ Stays(q, p, key)
<1>1. /\ ~Over(q) /\ \A x \in Req : Over(x) => Over(x)'
  BY CommitIs
<1>2. Old(key)' /\ key # q
  BY <1>1 DEF OnlyAt, Old
<1>3. ASSUME NEW p \in Places, Names(p, key)' PROVE p \in S /\ Names(p, key) /\ Stays(q, p, key)
  <2>1. Stays(q, p, key) \/ Carried(q, p, key)
    BY <1>2, <1>3, KeyMoves DEF Made
  <2>2. ~Carried(q, p, key)
    <3> SUFFICES ASSUME Carried(q, p, key) PROVE FALSE
      OBVIOUS
    <3>1. PICK i \in Sourced(job[q].entry) : ledger[i].bill = key
      BY DEF Carried
    <3>2. i \in RowIds /\ ledger[i] # None
      BY <3>1 DEF Sourced, Rows
    <3>3. <<"row", i>> \in Places /\ Names(<<"row", i>>, key)
      BY <3>1, <3>2, NamesNow
    <3>4. kind[q] = "save"
      BY DEF Carried
    <3> QED
      BY <3>1, <3>3, <3>4 DEF OnlyAt
  <2>3. Names(p, key)
    BY <2>1, <2>2 DEF Stays
  <2> QED
    BY <2>1, <2>2, <2>3 DEF OnlyAt
<1> QED
  BY <1>2, <1>3

\* Where a photo comes from that the commit leaves named.
LEMMA Origin ==
  ASSUME Inv, FilesInv, NEW q \in Req, Commit(q), NEW key \in Keys, NEW p \in Places, Names(p, key)'
  PROVE  /\ Old(key)' /\ key \in files
         /\ Made(q, p, key) <=> key = q
         /\ Stays(q, p, key) => OnlyAt(key, {p})
         /\ Carried(q, p, key) => \E i \in Sourced(job[q].entry) : OnlyAt(key, {<<"row", i>>})
<1>1. /\ ~Over(q) /\ Running(q) /\ Over(q)' /\ \A x \in Req : Over(x) => Over(x)'
  BY CommitIs
<1>2. \A S : OnlyAt(key, S) => key # q /\ Old(key)'
  BY <1>1 DEF OnlyAt, Old
<1>3. ASSUME Stays(q, p, key) PROVE OnlyAt(key, {p}) /\ key \in files
  BY <1>3 DEF Stays, FilesInv, NamedOnce
<1>4. ASSUME Carried(q, p, key)
      PROVE  \E i \in Sourced(job[q].entry) : OnlyAt(key, {<<"row", i>>}) /\ key \in files
  <2>1. PICK i \in Sourced(job[q].entry) : ledger[i].bill = key
    BY <1>4 DEF Carried
  <2>2. i \in RowIds /\ ledger[i] # None
    BY DEF Sourced, Rows
  <2>3. <<"row", i>> \in Places /\ Names(<<"row", i>>, key)
    BY <2>1, <2>2, NamesNow
  <2>4. OnlyAt(key, {<<"row", i>>}) /\ key \in files
    BY <2>3 DEF FilesInv, NamedOnce
  <2> QED
    BY <2>4
<1>5. ASSUME Made(q, p, key) PROVE key = q /\ Old(key)' /\ key \in files
  BY <1>1, <1>5 DEF Made, Old, FilesInv, Keeps, Uploaded
<1>6. Stays(q, p, key) \/ Carried(q, p, key) \/ Made(q, p, key)
  BY KeyMoves
<1>7. Made(q, p, key) <=> key = q
  <2>1. Stays(q, p, key) => key # q
    BY <1>2, <1>3
  <2>2. Carried(q, p, key) => key # q
    BY <1>2, <1>4
  <2> QED
    BY <1>6, <2>1, <2>2 DEF Made
<1>8. Old(key)' /\ key \in files
  BY <1>2, <1>3, <1>4, <1>5, <1>6
<1> QED
  BY <1>3, <1>4, <1>7, <1>8

LEMMA NamedOnceStays ==
  ASSUME Inv, FilesInv, NEW q \in Req, Commit(q)
  PROVE  NamedOnce'
<1>0. files' = files /\ TypeInv /\ pc[q] = "commit" /\ Running(q)
  BY CommitIs DEF Commit
<1>1. ASSUME NEW key \in Keys, NEW p \in Places, NEW s \in Places, Names(p, key)', Names(s, key)', key # q
      PROVE  p = s
  <2>1. /\ Stays(q, p, key) \/ Carried(q, p, key)
        /\ Stays(q, s, key) \/ Carried(q, s, key)
    BY <1>1, KeyMoves, Origin
  <2>2. ASSUME NEW a \in Places, NEW b \in Places, Names(a, key)', Names(b, key)',
               Stays(q, a, key), Carried(q, b, key)
        PROVE  FALSE
    <3>1. PICK i \in Sourced(job[q].entry) : OnlyAt(key, {<<"row", i>>})
      BY <2>2, Origin
    <3>2. a = <<"row", i>>
      BY <2>2, <3>1 DEF Stays, OnlyAt
    <3> QED
      BY <2>2, <3>2 DEF Stays, Carried
  <2>3. CASE Stays(q, p, key) /\ Stays(q, s, key)
    <3>1. OnlyAt(key, {p}) /\ Names(s, key)
      BY <1>1, <2>3, Origin DEF Stays
    <3> QED
      BY <3>1 DEF OnlyAt
  <2>4. CASE Carried(q, p, key) /\ Carried(q, s, key)
    <3>0. PICK x, bills : x = NewEntry(q) /\ bills = seen[q].bills
      OBVIOUS
    <3>1. PICK m \in ChargeLines(x), i \in Sourced(job[q].entry) :
            /\ p = <<"row", <<q, m>>>> /\ CarriedBill(x, m, bills) = key
            /\ ledger[i].bill = key /\ ledger[i].cust = x.lines[m].who
      BY <2>4, <3>0 DEF Carried
    <3>2. PICK n \in ChargeLines(x), j \in Sourced(job[q].entry) :
            /\ s = <<"row", <<q, n>>>> /\ CarriedBill(x, n, bills) = key
            /\ ledger[j].bill = key /\ ledger[j].cust = x.lines[n].who
      BY <2>4, <3>0 DEF Carried
    <3>3. i \in RowIds /\ ledger[i] # None /\ j \in RowIds /\ ledger[j] # None
      BY DEF Sourced, Rows
    <3>4. /\ <<"row", i>> \in Places /\ Names(<<"row", i>>, key)
          /\ <<"row", j>> \in Places /\ Names(<<"row", j>>, key)
      BY <3>1, <3>2, <3>3, NamesNow
    <3>5. j = i
      BY <3>4 DEF FilesInv, NamedOnce, OnlyAt
    <3>6. x.lines \in Seq(Line) /\ bills \in [Customers -> SUBSET Keys]
      <4>1. kind[q] = "save"
        BY <2>4 DEF Carried
      <4> QED
        BY <1>0, <3>0, <4>1, CommitSave, NewEntryIs DEF EntryRead
    <3>7. x.lines[m].who = x.lines[n].who
      BY <3>1, <3>2, <3>5
    <3>8. m = n
      BY <3>1, <3>2, <3>6, <3>7, CarriedApart
    <3> QED
      BY <3>1, <3>2, <3>8
  <2> QED
    BY <1>1, <2>1, <2>2, <2>3, <2>4
<1>2. ASSUME NEW p \in Places, NEW s \in Places, Names(p, q)', Names(s, q)'
      PROVE  p = s
  <2>1. q \in Keys
    BY DEF Keys
  <2>2. Made(q, p, q)
    BY <1>2, <2>1, Origin
  <2>3. Made(q, s, q)
    BY <1>2, <2>1, Origin
  <2> QED
    BY <2>2, <2>3 DEF Made
<1>3. ASSUME NEW key \in Keys, NEW p \in Places, Names(p, key)'
      PROVE  OnlyAt(key, {p})' /\ key \in files'
  <2>1. Old(key)' /\ key \in files
    BY <1>3, Origin
  <2>2. \A s \in Places : Names(s, key)' => s = p
    BY <1>1, <1>2, <1>3
  <2> QED
    BY <1>0, <2>1, <2>2 DEF OnlyAt
<1> QED
  BY <1>3 DEF NamedOnce

\* What a committed request will have deleted, its commit has taken every name from.
LEMMA Freed ==
  ASSUME Inv, FilesInv, NEW q \in Req, Commit(q), NEW key \in Keys, NEW S, OnlyAt(key, S),
         kind[q] = "save" => \A i \in Sourced(job[q].entry) : <<"row", i>> \notin S,
         \A p \in S : ~Stays(q, p, key)
  PROVE  Old(key)' /\ \A p \in Places : ~Names(p, key)'
BY PlacesKept

LEMMA SaveFrees ==
  ASSUME Inv, FilesInv, NEW q \in Req, Commit(q), kind[q] = "save", NEW key \in SaveQueue(q)
  PROVE  key \in Keys /\ Old(key)' /\ \A p \in Places : ~Names(p, key)'
<1>1. /\ TypeInv /\ Right(q) /\ Running(q) /\ pc[q] = "commit" /\ ~Over(q)
      /\ \A x \in Req : Over(x) => Over(x)'
  BY CommitIs
<1>2. /\ job[q].entry \in EntryIds /\ seen[q] \in EntryRead /\ None \notin Keys
  BY <1>1, CommitSave, IdsAreDistinct
<1>3. seen[q].rows = Sourced(job[q].entry) /\ seen[q].bills = BillsByCustomer(job[q].entry)
  BY <1>1, CareOfSave DEF FilesInv, HasRead
<1>4. CASE key \in (UNION Range(seen[q].bills)) \ Claimed(q)
  <2>1. PICK c \in Customers : key \in seen[q].bills[c]
    BY <1>2, <1>4 DEF Range, EntryRead
  <2>2. key \in BillsOf(Sourced(job[q].entry) \cap OfCustomer(c))
    BY <1>3, <2>1 DEF BillsByCustomer
  <2>3. PICK i \in Sourced(job[q].entry) : ledger[i].bill = key
    BY <2>2 DEF BillsOf
  <2>4. key \in Keys
    BY <1>2, <2>1 DEF EntryRead
  <2>5. i \in RowIds /\ ledger[i] # None
    BY DEF Sourced, Rows
  <2>6. <<"row", i>> \in Places /\ Names(<<"row", i>>, key)
    BY <2>3, <2>5, NamesNow
  <2>7. OnlyAt(key, {<<"row", i>>})
    BY <2>4, <2>6 DEF FilesInv, NamedOnce
  <2>8. Old(key)' /\ key # q
    BY <1>1, <2>7 DEF OnlyAt, Old
  <2>9. ASSUME NEW p \in Places, Names(p, key)' PROVE FALSE
    <3>1. Stays(q, p, key) \/ Carried(q, p, key)
      BY <2>4, <2>8, <2>9, KeyMoves DEF Made
    <3>2. CASE Stays(q, p, key)
      <4>1. p = <<"row", i>>
        BY <2>7, <3>2 DEF Stays, OnlyAt
      <4> QED
        BY <3>2, <4>1 DEF Stays
    <3>3. CASE Carried(q, p, key)
      <4>1. key \in Claimed(q)
        BY <3>3 DEF Carried, Claimed
      <4> QED
        BY <1>4, <4>1
    <3> QED
      BY <3>1, <3>2, <3>3
  <2> QED
    BY <2>4, <2>8, <2>9
<1>5. CASE key \in RemovedKeys(seen[q].entry, job[q].bills)
  <2>1. seen[q].entry # None /\ key \in seen[q].entry.bills /\ key \notin job[q].bills
    BY <1>5 DEF RemovedKeys
  <2>2. key \in Keys
    BY <1>2, <2>1 DEF EntryRead, Entry
  <2>3. PICK e \in EntryIds : e = job[q].entry
    BY <1>2
  <2>4. entries[e] # None /\ entries[e].bills = seen[q].entry.bills
    BY <1>1, <2>1, <2>3, CareOfSave DEF FilesInv, HasLoaded, HasRead
  <2>5. <<"entry", e>> \in Places /\ Names(<<"entry", e>>, key)
    BY <2>1, <2>4, NamesNow
  <2>6. OnlyAt(key, {<<"entry", e>>})
    BY <2>2, <2>5 DEF FilesInv, NamedOnce
  <2>7. ~Stays(q, <<"entry", e>>, key)
    BY <2>1, <2>3 DEF Stays
  <2> QED
    BY <2>2, <2>6, <2>7, Freed
<1> QED
  BY <1>4, <1>5 DEF SaveQueue

LEMMA QueueFreed ==
  ASSUME Inv, FilesInv, NEW q \in Req, Commit(q), NEW key \in txn[q].queue
  PROVE  Old(key)' /\ \A p \in Places : ~Names(p, key)'
<1>1. /\ TypeInv /\ Right(q) /\ Running(q) /\ pc[q] = "commit" /\ Keeps(q) /\ None \notin Keys
      /\ kind[q] \in {"save", "deleteEntry", "attach", "deleteRow", "add",
                      "saveCustomer", "addCustomer", "deleteCustomer"}
  BY CommitIs, CommitKeeps, IdsAreDistinct DEF FilesInv
<1>2. CASE kind[q] = "save"
  BY <1>1, <1>2, CommitSave, SaveFrees
<1>3. CASE kind[q] = "deleteEntry"
  <2>1. seen[q] \in EntryRead /\ seen[q].entry # None
        /\ key \in (UNION Range(seen[q].bills)) \cup seen[q].entry.bills
    BY <1>1, <1>3, CommitDeleteEntry
  <2>2. CASE key \in UNION Range(seen[q].bills)
    <3>1. PICK c \in Customers : key \in seen[q].bills[c] /\ key \in Keys
      BY <2>1, <2>2 DEF Range, EntryRead
    <3>2. PICK S : S = {<<"row", i>> : i \in seen[q].rows}
      OBVIOUS
    <3>3. OnlyAt(key, S)
      BY <1>1, <1>3, <3>1, <3>2 DEF Keeps, EntryHeld, HasRead
    <3>4. \A p \in S : ~Stays(q, p, key)
      BY <1>3, <3>2 DEF Stays
    <3> QED
      BY <1>3, <3>1, <3>3, <3>4, Freed
  <2>3. CASE key \in seen[q].entry.bills
    <3>1. key \in Keys
      BY <2>1, <2>3 DEF EntryRead, Entry
    <3>2. PICK p : p = <<"entry", job[q].entry>>
      OBVIOUS
    <3>3. OnlyAt(key, {p})
      BY <1>1, <1>3, <2>3, <3>2 DEF Keeps, EntryHeld, HasLoaded, HasRead
    <3>4. ~Stays(q, p, key)
      BY <1>3, <3>2 DEF Stays
    <3> QED
      BY <1>3, <3>1, <3>3, <3>4, Freed
  <2> QED
    BY <2>1, <2>2, <2>3
<1>4. CASE kind[q] \in {"attach", "deleteRow"}
  <2>1. /\ kind[q] = "attach" => key \in {seen[q]} \ {None, NewBill(q)}
        /\ kind[q] = "deleteRow" => key \in {seen[q]} \ {None}
        /\ seen[q] \in Keys \cup {None}
    BY <1>1, <1>4, CommitAttach, CommitDeleteRow
  <2>2. key = seen[q] /\ key \in Keys /\ (kind[q] = "attach" => NewBill(q) # key)
    BY <1>4, <2>1
  <2>3. PICK p : p = <<"row", job[q].row>>
    OBVIOUS
  <2>4. OnlyAt(key, {p})
    BY <1>1, <1>4, <2>2, <2>3 DEF Keeps, RowHeld
  <2>5. ~Stays(q, p, key)
    BY <1>4, <2>2, <2>3 DEF Stays
  <2> QED
    BY <1>4, <2>2, <2>4, <2>5, Freed
<1>5. CASE kind[q] = "add"
  BY <1>1, <1>5, CommitAdd
<1>6. CASE kind[q] \in {"saveCustomer", "addCustomer"}
  <2>1. key \in OldBills(q) \ job[q].bills /\ OldBills(q) \in SUBSET Keys
    BY <1>1, <1>6, CommitCustomer
  <2>2. kind[q] = "saveCustomer" /\ key \in seen[q].bills /\ key \in Keys
    BY <1>6, <2>1 DEF OldBills
  <2>3. PICK p : p = <<"cust", job[q].cust>>
    OBVIOUS
  <2>4. OnlyAt(key, {p})
    BY <1>1, <2>2, <2>3 DEF Keeps, CustomerHeld
  <2>5. ~Stays(q, p, key)
    BY <2>1, <2>2, <2>3 DEF Stays
  <2> QED
    BY <2>2, <2>4, <2>5, Freed
<1>7. CASE kind[q] = "deleteCustomer"
  <2>1. seen[q] \in CustomerRead /\ key \in seen[q].bills \cup seen[q].rows
    BY <1>1, <1>7, CommitDeleteCustomer
  <2>2. key \in Keys
    BY <2>1 DEF CustomerRead
  <2>3. CASE key \in seen[q].bills
    <3>1. PICK p : p = <<"cust", job[q].cust>>
      OBVIOUS
    <3>2. OnlyAt(key, {p})
      BY <1>1, <1>7, <2>3, <3>1 DEF Keeps, CustomerHeld
    <3>3. ~Stays(q, p, key)
      BY <1>7, <3>1 DEF Stays
    <3> QED
      BY <1>7, <2>2, <3>2, <3>3, Freed
  <2>4. CASE key \in seen[q].rows
    <3>1. PICK S : S = {<<"row", i>> : i \in OfCustomer(job[q].cust)}
      OBVIOUS
    <3>2. OnlyAt(key, S)
      BY <1>1, <1>7, <2>4, <3>1 DEF Keeps, CustomerHeld
    <3>3. \A p \in S : ~Stays(q, p, key)
      BY <1>7, <3>1 DEF Stays
    <3> QED
      BY <1>7, <2>2, <3>2, <3>3, Freed
  <2> QED
    BY <2>1, <2>3, <2>4
<1> QED
  BY <1>1, <1>2, <1>3, <1>4, <1>5, <1>6, <1>7

\* The commit of q leaves to r the photos that r goes by.
LEMMA EntryHeldStays ==
  ASSUME Inv, FilesInv, NEW q \in Req, Commit(q), NEW r \in Req \ {q}
  PROVE  EntryHeld(r)'
<1>1. /\ kind'[r] = kind[r] /\ pc'[r] = pc[r] /\ job'[r] = job[r] /\ seen'[r] = seen[r]
      /\ TypeInv /\ Running(q) /\ EntryHeld(r) /\ Right(r) /\ Right(q)
  BY CommitIs DEF Mine, Inv, FilesInv, Keeps
<1>2. HasRead(r)' = HasRead(r) /\ HasLoaded(r)' = HasLoaded(r)
  BY <1>1 DEF HasRead, HasLoaded
<1> SUFFICES ASSUME kind[r] = "deleteEntry", HasLoaded(r) PROVE EntryHeld(r)'
  BY <1>1, <1>2 DEF EntryHeld, HasLoaded
<1>3. Running(r) /\ seen[r] \in EntryRead /\ seen[r].entry # None
  BY <1>1 DEF HasLoaded, HasRead, Running, TypeInv, Fits, SeenFits, OnPath, Resting
<1>4. PICK e, S : e = <<"entry", job[r].entry>> /\ S = {<<"row", i>> : i \in seen[r].rows}
  OBVIOUS
<1>5. ASSUME NEW key \in seen[r].entry.bills PROVE OnlyAt(key, {e})'
  <2>1. key \in Keys
    BY <1>3 DEF EntryRead, Entry
  <2>2. OnlyAt(key, {e})
    BY <1>1, <1>4 DEF EntryHeld
  <2>3. \A i \in Sourced(job[q].entry) : <<"row", i>> \notin {e}
    BY <1>4
  <2> QED
    BY <2>1, <2>2, <2>3, PlacesKept DEF OnlyAt
<1>6. ASSUME HasRead(r), NEW c \in Customers, NEW key \in seen[r].bills[c] PROVE OnlyAt(key, S)'
  <2>1. key \in Keys
    BY <1>3 DEF EntryRead
  <2>2. OnlyAt(key, S)
    BY <1>1, <1>4, <1>6 DEF EntryHeld
  <2>3. ASSUME kind[q] = "save", NEW i \in Sourced(job[q].entry) PROVE <<"row", i>> \notin S
    <3>1. job[q].entry # job[r].entry
      BY <1>1, <1>3, <2>3, CareApart DEF FilesInv
    <3>2. ledger[i].src = job[q].entry /\ i \in Rows
      BY DEF Sourced
    <3>3. i \notin seen[r].rows
      BY <1>1, <1>3, <1>6, <3>1, <3>2, CareOfDelete DEF FilesInv
    <3> QED
      BY <1>4, <3>3
  <2> QED
    BY <2>1, <2>2, <2>3, PlacesKept DEF OnlyAt
<1> QED
  BY <1>1, <1>2, <1>4, <1>5, <1>6 DEF EntryHeld

LEMMA RowHeldStays ==
  ASSUME Inv, FilesInv, NEW q \in Req, Commit(q), NEW r \in Req \ {q}
  PROVE  RowHeld(r)'
<1>1. /\ kind'[r] = kind[r] /\ pc'[r] = pc[r] /\ job'[r] = job[r] /\ seen'[r] = seen[r]
      /\ TypeInv /\ Running(q) /\ RowHeld(r) /\ Right(r) /\ Right(q)
  BY CommitIs DEF Mine, Inv, FilesInv, Keeps
<1> SUFFICES ASSUME kind[r] \in {"attach", "deleteRow"}, pc[r] \in {"writeRow", "commit"}, seen[r] # None
             PROVE  RowHeld(r)'
  BY <1>1 DEF RowHeld
<1>2. Running(r) /\ seen[r] \in Keys
  BY <1>1 DEF Running, TypeInv, Fits, SeenFits
<1>3. PICK p, key : p = <<"row", job[r].row>> /\ key = seen[r] /\ key \in Keys
  BY <1>2
<1>4. OnlyAt(key, {p})
  BY <1>1, <1>3 DEF RowHeld
<1>5. ASSUME kind[q] = "save", NEW i \in Sourced(job[q].entry) PROVE <<"row", i>> \notin {p}
  <2>1. kind[r] = "attach" => job[q].entry # job[r].entry
    BY <1>1, <1>2, <1>5, CareApart DEF FilesInv
  <2>2. ledger[i].src = job[q].entry /\ i \in Rows /\ job[q].entry \in EntryIds
    BY <1>1, <1>5, JobIs DEF Sourced
  <2>3. kind[r] = "deleteRow" => job[r].entry = None
    BY <1>1, <1>2, CareOfRow DEF FilesInv
  <2>4. i # job[r].row
    BY <1>1, <1>2, <2>1, <2>2, <2>3, CareOfRow, IdsAreDistinct DEF FilesInv
  <2> QED
    BY <1>3, <2>4
<1>6. Old(key)' /\ \A x \in Places : Names(x, key)' => x \in {p}
  BY <1>3, <1>4, <1>5, PlacesKept
<1> QED
  BY <1>1, <1>3, <1>6 DEF RowHeld, OnlyAt

LEMMA CustomerHeldStays ==
  ASSUME Inv, FilesInv, NEW q \in Req, Commit(q), NEW r \in Req \ {q}
  PROVE  CustomerHeld(r)'
<1>1. /\ kind'[r] = kind[r] /\ pc'[r] = pc[r] /\ job'[r] = job[r] /\ seen'[r] = seen[r]
      /\ TypeInv /\ Running(q) /\ CustomerHeld(r) /\ Right(r) /\ Right(q)
  BY CommitIs DEF Mine, Inv, FilesInv, Keeps
<1> SUFFICES ASSUME kind[r] \in {"saveCustomer", "deleteCustomer"}, pc[r] \in {"writeCustomer", "commit"}
             PROVE  CustomerHeld(r)'
  BY <1>1 DEF CustomerHeld
<1>2. Running(r) /\ seen[r] \in CustomerRead
  BY <1>1 DEF Running, TypeInv, Fits, SeenFits
<1>3. PICK c, p, S : c = job[r].cust /\ p = <<"cust", c>> /\ S = {<<"row", i>> : i \in OfCustomer(c)}
  OBVIOUS
<1>4. ASSUME NEW key \in seen[r].bills PROVE OnlyAt(key, {p})'
  <2>1. key \in Keys
    BY <1>2 DEF CustomerRead
  <2>2. OnlyAt(key, {p})
    BY <1>1, <1>3 DEF CustomerHeld
  <2>3. \A i \in Sourced(job[q].entry) : <<"row", i>> \notin {p}
    BY <1>3
  <2> QED
    BY <2>1, <2>2, <2>3, PlacesKept DEF OnlyAt
<1>5. ASSUME kind[r] = "deleteCustomer", NEW key \in seen[r].rows
      PROVE  OnlyAt(key, {<<"row", i>> : i \in OfCustomer(c)})'
  <2>1. key \in Keys
    BY <1>2 DEF CustomerRead
  <2>2. OnlyAt(key, S)
    BY <1>1, <1>3, <1>5 DEF CustomerHeld
  <2>3. ASSUME kind[q] = "save", NEW i \in Sourced(job[q].entry) PROVE <<"row", i>> \notin S
    <3>1. MayGo(c)
      BY <1>1, <1>3, <1>5, Cared DEF Right, CustomerFits, FilesInv
    <3>2. ledger[i].src \in EntryIds
      BY <1>1, <2>3, JobIs DEF Sourced
    <3>3. i \notin OfCustomer(c)
      BY <3>1, <3>2, IdsAreDistinct DEF MayGo
    <3> QED
      BY <1>3, <3>3
  <2>4. Old(key)' /\ \A x \in Places : Names(x, key)' => x \in S /\ Names(x, key)
    BY <2>1, <2>2, <2>3, PlacesKept
  <2>5. ASSUME NEW x \in Places, Names(x, key)' PROVE x \in {<<"row", i>> : i \in OfCustomer(c)'}
    <3>1. PICK i \in OfCustomer(c) : x = <<"row", i>>
      BY <1>3, <2>4, <2>5
    <3>2. i \in RowIds /\ i \in Rows /\ ledger[i].cust = c
      BY DEF OfCustomer, Rows
    <3>3. i \in Rows'
      BY <2>5, <3>1, <3>2, NamesNow DEF Rows
    <3>4. ledger'[i].cust = c
      BY <3>2, <3>3, RowsMove DEF RowMoves
    <3>5. i \in OfCustomer(c)'
      BY <3>3, <3>4 DEF OfCustomer
    <3> QED
      BY <3>1, <3>5
  <2> QED
    BY <2>4, <2>5 DEF OnlyAt
<1> QED
  BY <1>1, <1>3, <1>4, <1>5 DEF CustomerHeld, OfCustomer

LEMMA ResendsStays ==
  ASSUME Inv, FilesInv, NEW q \in Req, Commit(q), NEW r \in Req \ {q}
  PROVE  Resends(r)'
<1>1. /\ kind'[r] = kind[r] /\ pc'[r] = pc[r] /\ job'[r] = job[r] /\ seen'[r] = seen[r]
      /\ TypeInv /\ Running(q) /\ Resends(r) /\ Right(r) /\ Right(q) /\ ~Over(q)
      /\ custs \in [Customers -> (SUBSET Keys) \cup {None}]
  BY CommitIs DEF Mine, Inv, FilesInv, Keeps, TypeInv, TypeOK
<1>2. ASSUME kind[r] = "saveCustomer", pc[r] = "loadCustomer", custs'[job[r].cust] # None
      PROVE  custs[job[r].cust] = custs'[job[r].cust]
  <2>1. PICK c \in Customers : c = job[r].cust
    BY <1>1, <1>2, JobIs DEF Running
  <2>2. Running(r) /\ c # q
    BY <1>1, <1>2, <2>1 DEF Right, JobOld, Running
  <2>3. CASE kind[q] \in {"saveCustomer", "addCustomer"}
    <3>1. kind[q] = "saveCustomer" => job[q].cust # c
      BY <1>1, <1>2, <2>1, <2>2, CareApart DEF FilesInv
    <3>2. kind[q] = "addCustomer" => job[q].cust = q
      BY <1>1 DEF FilesInv, Keeps, Resends
    <3>3. custs' = [custs EXCEPT ![job[q].cust] = BillsAfter(q)]
      BY <1>1, <2>3, CommitCustomer
    <3> QED
      BY <1>1, <2>1, <2>2, <2>3, <3>1, <3>2, <3>3
  <2>4. CASE kind[q] = "deleteCustomer"
    <3>1. custs' = [custs EXCEPT ![job[q].cust] = None]
      BY <1>1, <2>4, CommitDeleteCustomer
    <3> QED
      BY <1>1, <1>2, <2>1, <3>1
  <2>5. CASE kind[q] \in {"save", "deleteEntry", "attach", "deleteRow", "add"}
    <3>1. custs' = custs
      BY <1>1, <2>5, CommitSave, CommitDeleteEntry, CommitAttach, CommitDeleteRow, CommitAdd
    <3> QED
      BY <3>1
  <2> QED
    BY <1>1, <2>3, <2>4, <2>5, CommitKeeps
<1> QED
  BY <1>1, <1>2 DEF Resends, Running

LEMMA CommitFiles ==
  ASSUME Inv, FilesInv, NEW q \in Req, Commit(q)
  PROVE  FilesInv'
<1>1. /\ files' = files /\ TypeInv /\ Closes(q) /\ pc[q] = "commit"
      /\ \A x \in Req \ {q} : UNCHANGED Mine(x)
  BY CommitIs, CommitCloses DEF Commit
<1>2. NamedOnce'
  BY NamedOnceStays
<1>3. ASSUME NEW r \in Req \ {q} PROVE Keeps(r)'
  <2>1. /\ kind'[r] = kind[r] /\ pc'[r] = pc[r] /\ job'[r] = job[r] /\ txn'[r] = txn[r]
        /\ Keeps(r)
    BY <1>1 DEF Mine, FilesInv
  <2>2. Uploaded(r)'
    BY <1>1, <2>1 DEF Keeps, Uploaded, Running
  <2>3. QueueFree(r)'
    <3> SUFFICES ASSUME pc[r] = "cleanup", NEW key \in txn[r].queue PROVE OnlyAt(key, {})'
      BY <2>1 DEF QueueFree
    <3>1. key \in Keys
      <4>1. \E queue \in SUBSET Keys : txn[r] = [NothingWritten EXCEPT !.queue = queue]
        BY <1>1 DEF TypeInv, Fits, TxnFits
      <4> QED
        BY <4>1 DEF NothingWritten
    <3>2. OnlyAt(key, {})
      BY <2>1 DEF Keeps, QueueFree
    <3>3. Old(key)' /\ \A p \in Places : ~Names(p, key)'
      BY <3>1, <3>2, PlacesKept
    <3> QED
      BY <3>3 DEF OnlyAt
  <2> QED
    BY <2>2, <2>3, EntryHeldStays, RowHeldStays, CustomerHeldStays, ResendsStays DEF Keeps
<1>4. Keeps(q)'
  <2>1. pc'[q] = "cleanup" /\ txn'[q].queue = txn[q].queue
    BY <1>1 DEF Commit, TypeInv, NothingWritten
  <2>2. QueueFree(q)'
    BY <2>1, QueueFreed DEF QueueFree, OnlyAt
  <2>3. Uploaded(q)' /\ EntryHeld(q)' /\ RowHeld(q)' /\ CustomerHeld(q)' /\ Resends(q)'
    BY <2>1 DEF Uploaded, EntryHeld, RowHeld, CustomerHeld, Resends, HasLoaded, HasRead, Running
  <2> QED
    BY <2>2, <2>3 DEF Keeps
<1> QED
  BY <1>2, <1>3, <1>4 DEF FilesInv, ClientsTakeCare

(***************************************************************************)
(* The other steps change no row.                                          *)
(***************************************************************************)
LEMMA NamesStay ==
  ASSUME UNCHANGED Tables, \A x \in Req : Over(x) => Over(x)'
  PROVE  /\ \A p, key : Names(p, key)' <=> Names(p, key)
         /\ \A key, S : OnlyAt(key, S) => Old(key)' /\ \A p \in Places : Names(p, key)' => p \in S
         /\ \A c : OfCustomer(c)' = OfCustomer(c)
<1>1. entries' = entries /\ custs' = custs /\ ledger' = ledger
  BY DEF Tables
<1>2. \A p, key : Names(p, key)' <=> Names(p, key)
  BY <1>1 DEF Names, NamesIn
<1>3. \A key : Old(key) => Old(key)'
  BY DEF Old
<1> QED
  BY <1>1, <1>2, <1>3 DEF OnlyAt, OfCustomer, Rows

LEMMA OthersKeep ==
  ASSUME NEW r \in Req, Keeps(r), UNCHANGED Tables, UNCHANGED Mine(r), \A x \in Req : Over(x) => Over(x)',
         r \in files /\ ~Over(r) => r \in files'
  PROVE  Keeps(r)'
<1>1. /\ kind'[r] = kind[r] /\ pc'[r] = pc[r] /\ job'[r] = job[r] /\ seen'[r] = seen[r] /\ txn'[r] = txn[r]
      /\ custs' = custs
  BY DEF Mine, Tables
<1>2. HasRead(r)' = HasRead(r) /\ HasLoaded(r)' = HasLoaded(r) /\ Running(r)' = Running(r)
  BY <1>1 DEF HasRead, HasLoaded, Running
<1>3. \A key, S : OnlyAt(key, S) => Old(key)' /\ \A p \in Places : Names(p, key)' => p \in S
  BY NamesStay
<1>4. \A c : OfCustomer(c)' = OfCustomer(c)
  BY NamesStay
<1>5. Uploaded(r)'
  BY <1>1, <1>2 DEF Keeps, Uploaded, Over, Running
<1>6. QueueFree(r)'
  <2> SUFFICES ASSUME pc[r] = "cleanup", NEW key \in txn[r].queue PROVE OnlyAt(key, {})'
    BY <1>1 DEF QueueFree
  <2>1. OnlyAt(key, {})
    BY DEF Keeps, QueueFree
  <2>2. Old(key)' /\ \A p \in Places : Names(p, key)' => p \in {}
    BY <1>3, <2>1
  <2> QED
    BY <2>2 DEF OnlyAt
<1>7. EntryHeld(r)'
  BY <1>1, <1>2, <1>3 DEF Keeps, EntryHeld, OnlyAt
<1>8. RowHeld(r)'
  BY <1>1, <1>3 DEF Keeps, RowHeld, OnlyAt
<1>9. CustomerHeld(r)'
  <2>1. OfCustomer(job[r].cust)' = OfCustomer(job[r].cust)
    BY <1>1, <1>4 DEF OfCustomer
  <2> QED
    BY <1>1, <1>3, <2>1 DEF Keeps, CustomerHeld, OnlyAt
<1>10. Resends(r)'
  BY <1>1, <1>2 DEF Keeps, Resends
<1> QED
  BY <1>5, <1>6, <1>7, <1>8, <1>9, <1>10 DEF Keeps

LEMMA QuietFiles ==
  ASSUME Inv, FilesInv, NEW r \in Req, UNCHANGED Tables, \A q \in Req \ {r} : UNCHANGED Mine(q),
         Over(r) => Over(r)',
         \A key \in files \ files' : \A p \in Places : ~Names(p, key),
         \A q \in Req \ {r} : q \in files \ files' => Over(q),
         Keeps(r)'
  PROVE  FilesInv'
<1>1. \A x \in Req : Over(x) => Over(x)'
  BY DEF Mine, Over
<1>2. NamedOnce'
  <2> SUFFICES ASSUME NEW key \in Keys, NEW p \in Places, Names(p, key)'
               PROVE  OnlyAt(key, {p})' /\ key \in files'
    BY DEF NamedOnce
  <2>1. Names(p, key)
    BY <1>1, NamesStay
  <2>2. OnlyAt(key, {p}) /\ key \in files
    BY <2>1 DEF FilesInv, NamedOnce
  <2>3. Old(key)' /\ \A s \in Places : Names(s, key)' => s \in {p}
    BY <1>1, <2>2, NamesStay
  <2> QED
    BY <2>1, <2>2, <2>3 DEF OnlyAt
<1>3. ASSUME NEW q \in Req \ {r} PROVE Keeps(q)'
  BY <1>1, OthersKeep DEF FilesInv
<1> QED
  BY <1>2, <1>3 DEF FilesInv, ClientsTakeCare

\* A request that is at rest after its step and has nothing to delete.
LEMMA RestsKeeps ==
  ASSUME NEW r \in Req, pc'[r] \in {"idle", "done", "failed"}
  PROVE  Keeps(r)'
BY DEF Keeps, Uploaded, QueueFree, EntryHeld, RowHeld, CustomerHeld, Resends, HasLoaded, HasRead, Running

LEMMA RefuseFiles ==
  ASSUME Inv, FilesInv, NEW r \in Req, Refuse(r)
  PROVE  FilesInv'
<1>1. QuietStep(r) /\ pc'[r] = "failed" /\ files' = files
  BY RefuseKeeps DEF Inv
<1>2. UNCHANGED Tables /\ (\A q \in Req \ {r} : UNCHANGED Mine(q)) /\ Over(r)'
  BY <1>1 DEF QuietStep, Tables, committed, Over
<1> QED
  BY <1>1, <1>2, RestsKeeps, QuietFiles

LEMMA GoesFiles ==
  ASSUME Inv, FilesInv, NEW r \in Req, NEW at, NEW read, NEW written, NEW locks,
         Goes(r, at, read, written, locks), Running(r), at \notin Resting \cup {"loadCustomer"},
         EntryHeld(r)', RowHeld(r)', CustomerHeld(r)',
         kind[r] = "saveCustomer" /\ at \in {"writeCustomer", "commit"} =>
           job[r].bills \subseteq read.bills \cup {r}
  PROVE  FilesInv'
<1>1. /\ kind'[r] = kind[r] /\ pc'[r] = at /\ job'[r] = job[r] /\ seen'[r] = read /\ files' = files
      /\ UNCHANGED Tables /\ (\A q \in Req \ {r} : UNCHANGED Mine(q)) /\ ~Over(r) /\ Keeps(r)
  BY DEF Goes, QuietStep, Tables, committed, Over, Running, FilesInv
<1>2. Uploaded(r)' /\ QueueFree(r)'
  BY <1>1 DEF Keeps, Uploaded, QueueFree, Resting, Running
<1>3. Resends(r)'
  BY <1>1 DEF Keeps, Resends
<1>4. Keeps(r)'
  BY <1>2, <1>3 DEF Keeps
<1> QED
  BY <1>1, <1>4, QuietFiles

\* A statement that reads nothing.
LEMMA OnwardFiles ==
  ASSUME Inv, FilesInv, NEW r \in Req, NEW at, NEW written, NEW locks,
         Goes(r, at, seen[r], written, locks), Running(r), at \notin Resting \cup {"loadCustomer"},
         kind[r] = "deleteEntry" => HasRead(r),
         kind[r] \in {"attach", "deleteRow"} => pc[r] = "writeRow",
         kind[r] \in {"saveCustomer", "deleteCustomer"} => pc[r] = "writeCustomer"
  PROVE  FilesInv'
<1>1. /\ kind'[r] = kind[r] /\ pc'[r] = at /\ job'[r] = job[r] /\ seen'[r] = seen[r]
      /\ (\A x \in Req : Over(x) => Over(x)') /\ Keeps(r) /\ UNCHANGED Tables
  BY GoesOld DEF FilesInv, Tables
<1>2. \A key, S : OnlyAt(key, S) => Old(key)' /\ \A p \in Places : Names(p, key)' => p \in S
  BY <1>1, NamesStay
<1>3. EntryHeld(r)'
  <2>1. kind[r] = "deleteEntry" => HasLoaded(r)
    BY DEF HasLoaded
  <2> QED
    BY <1>1, <1>2, <2>1 DEF Keeps, EntryHeld, OnlyAt
<1>4. RowHeld(r)'
  BY <1>1, <1>2 DEF Keeps, RowHeld, OnlyAt
<1>5. CustomerHeld(r)'
  <2>1. \A c : OfCustomer(c)' = OfCustomer(c)
    BY <1>1, NamesStay
  <2>2. OfCustomer(job[r].cust)' = OfCustomer(job[r].cust)
    BY <1>1, <2>1 DEF OfCustomer
  <2> QED
    BY <1>1, <1>2, <2>2 DEF Keeps, CustomerHeld, OnlyAt
<1> QED
  BY <1>1, <1>3, <1>4, <1>5, GoesFiles DEF Keeps, Resends

LEMMA LoadFiles ==
  ASSUME Inv, FilesInv, NEW r \in Req, LoadForSave(r) \/ LoadForDelete(r) \/ CheckCustomers(r)
  PROVE  FilesInv'
<1>0. TypeInv /\ entries \in [EntryIds -> Entry \cup {None}]
  BY DEF Inv, TypeInv, TypeOK
<1>1. CASE Refuse(r)
  BY <1>1, RefuseFiles
<1>2. ASSUME kind[r] = "save", Running(r), NEW at \in {"checkCustomers", "readRows", "post"}, NEW read,
             NEW written, NEW locks, Goes(r, at, read, written, locks)
      PROVE  FilesInv'
  <2>1. EntryHeld(r)' /\ RowHeld(r)' /\ CustomerHeld(r)'
    BY <1>2, GoesOld DEF EntryHeld, RowHeld, CustomerHeld
  <2> QED
    BY <1>2, <2>1, GoesFiles DEF Resting
<1>3. CASE /\ kind[r] = "deleteEntry" /\ Running(r) /\ entries[job[r].entry] # None
           /\ Goes(r, "readRows", Loaded(entries[job[r].entry]), txn[r], holds[r])
  <2>1. /\ kind'[r] = kind[r] /\ pc'[r] = "readRows" /\ job'[r] = job[r]
        /\ seen'[r] = Loaded(entries[job[r].entry])
        /\ UNCHANGED Tables /\ \A x \in Req : Over(x) => Over(x)'
    BY <1>3, GoesOld DEF Tables
  <2>2. PICK e \in EntryIds : e = job[r].entry
    BY <1>0, <1>3, JobIs
  <2>3. seen'[r].entry = entries[e] /\ entries[e] # None /\ entries[e] \in Entry
    BY <1>0, <1>3, <2>1, <2>2 DEF Loaded
  <2>4. ASSUME NEW key \in entries[e].bills PROVE OnlyAt(key, {<<"entry", e>>})'
    <3>1. key \in Keys
      BY <2>3 DEF Entry
    <3>2. <<"entry", e>> \in Places /\ Names(<<"entry", e>>, key)
      BY <2>3, NamesNow
    <3>3. OnlyAt(key, {<<"entry", e>>})
      BY <3>1, <3>2 DEF FilesInv, NamedOnce
    <3>4. Old(key)' /\ \A p \in Places : Names(p, key)' => p \in {<<"entry", e>>}
      BY <2>1, <3>3, NamesStay
    <3> QED
      BY <3>4 DEF OnlyAt
  <2>5. EntryHeld(r)'
    <3>1. ~HasRead(r)'
      BY <2>1 DEF HasRead
    <3> QED
      BY <2>1, <2>2, <2>3, <2>4, <3>1 DEF EntryHeld
  <2>6. RowHeld(r)' /\ CustomerHeld(r)'
    BY <1>3, <2>1 DEF RowHeld, CustomerHeld
  <2> QED
    BY <1>3, <2>5, <2>6, GoesFiles DEF Resting
<1>4. CASE LoadForSave(r)
  BY <1>0, <1>1, <1>2, <1>4, LoadForSaveIs
<1>5. CASE LoadForDelete(r)
  BY <1>0, <1>1, <1>3, <1>5, LoadForDeleteIs
<1>6. CASE CheckCustomers(r)
  BY <1>0, <1>1, <1>2, <1>6, CheckCustomersIs
<1> QED
  BY <1>4, <1>5, <1>6

LEMMA ReadRowsFiles ==
  ASSUME Inv, FilesInv, NEW r \in Req, ReadRows(r)
  PROVE  FilesInv'
<1>1. /\ TypeInv /\ kind[r] \in {"save", "deleteEntry"} /\ Running(r) /\ pc[r] = "readRows"
      /\ Goes(r, "dropRows", RowsRead(r), txn[r], holds[r]) /\ Keeps(r)
      /\ ledger \in [RowIds -> Charge \cup {None}] /\ None \notin Keys
  BY ReadRowsIs, IdsAreDistinct DEF Inv, ReadRows, FilesInv, TypeInv, TypeOK
<1>2. /\ kind'[r] = kind[r] /\ pc'[r] = "dropRows" /\ job'[r] = job[r] /\ seen'[r] = RowsRead(r)
      /\ UNCHANGED Tables /\ \A x \in Req : Over(x) => Over(x)'
  BY <1>1, GoesOld DEF Tables
<1>3. RowHeld(r)' /\ CustomerHeld(r)'
  BY <1>1, <1>2 DEF RowHeld, CustomerHeld
<1>4. EntryHeld(r)'
  <2> SUFFICES ASSUME kind[r] = "deleteEntry" PROVE EntryHeld(r)'
    BY <1>2 DEF EntryHeld
  <2>1. PICK e, S, bills : /\ e = job[r].entry /\ S = Sourced(e) /\ bills = BillsByCustomer(e)
    OBVIOUS
  <2>2. seen'[r].entry = seen[r].entry /\ seen'[r].rows = S /\ seen'[r].bills = bills
    <3>1. seen[r] \in EntryRead
      BY <1>1 DEF TypeInv, Fits, SeenFits
    <3>2. RowsRead(r).entry = seen[r].entry /\ RowsRead(r).rows = S /\ RowsRead(r).bills = bills
      BY <1>1, <2>1, <3>1, RowsReadFits DEF BillsByCustomer
    <3> QED
      BY <1>2, <3>2
  <2>3. ASSUME NEW key \in seen[r].entry.bills PROVE OnlyAt(key, {<<"entry", e>>})'
    <3>1. OnlyAt(key, {<<"entry", e>>})
      BY <1>1, <2>1 DEF Keeps, EntryHeld, HasLoaded
    <3>2. Old(key)' /\ \A p \in Places : Names(p, key)' => p \in {<<"entry", e>>}
      BY <1>2, <3>1, NamesStay
    <3> QED
      BY <3>2 DEF OnlyAt
  <2>4. ASSUME NEW c \in Customers, NEW key \in bills[c]
        PROVE  OnlyAt(key, {<<"row", i>> : i \in S})'
    <3>1. key \in BillsOf(Sourced(e) \cap OfCustomer(c))
      BY <2>1 DEF BillsByCustomer
    <3>2. PICK i \in S : ledger[i].bill = key /\ key # None
      BY <2>1, <3>1 DEF BillsOf
    <3>3. i \in RowIds /\ ledger[i] # None
      BY <2>1 DEF Sourced, Rows
    <3>4. key \in Keys
      BY <1>1, <3>2, <3>3 DEF Charge
    <3>5. <<"row", i>> \in Places /\ Names(<<"row", i>>, key)
      BY <3>2, <3>3, NamesNow
    <3>6. OnlyAt(key, {<<"row", i>>})
      BY <3>4, <3>5 DEF FilesInv, NamedOnce
    <3>7. Old(key)' /\ \A p \in Places : Names(p, key)' => p \in {<<"row", i>>}
      BY <1>2, <3>6, NamesStay
    <3> QED
      BY <3>2, <3>7 DEF OnlyAt
  <2> QED
    BY <1>2, <2>1, <2>2, <2>3, <2>4 DEF EntryHeld
<1> QED
  BY <1>1, <1>3, <1>4, GoesFiles DEF Resting

LEMMA LoadRowFiles ==
  ASSUME Inv, FilesInv, NEW r \in Req, LoadRow(r)
  PROVE  FilesInv'
<1>1. CASE Refuse(r)
  BY <1>1, RefuseFiles
<1>2. CASE /\ ledger[job[r].row] # None /\ kind[r] \in {"attach", "deleteRow"} /\ Running(r)
           /\ Goes(r, "writeRow", ledger[job[r].row].bill, txn[r], holds[r])
  <2>1. /\ kind'[r] = kind[r] /\ pc'[r] = "writeRow" /\ job'[r] = job[r]
        /\ seen'[r] = ledger[job[r].row].bill
        /\ UNCHANGED Tables /\ \A x \in Req : Over(x) => Over(x)'
    BY <1>2, GoesOld DEF Tables
  <2>2. PICK i, key : i = job[r].row /\ key = ledger[i].bill
    OBVIOUS
  <2>3. i \in RowIds /\ ledger[i] \in Charge
    BY <1>2, <2>2, JobIs DEF Inv, TypeInv, TypeOK
  <2>4. ASSUME key # None PROVE OnlyAt(key, {<<"row", i>>})'
    <3>1. key \in Keys
      BY <2>2, <2>3, <2>4 DEF Charge
    <3>2. <<"row", i>> \in Places /\ Names(<<"row", i>>, key)
      BY <1>2, <2>2, <2>3, NamesNow
    <3>3. OnlyAt(key, {<<"row", i>>})
      BY <3>1, <3>2 DEF FilesInv, NamedOnce
    <3>4. Old(key)' /\ \A p \in Places : Names(p, key)' => p \in {<<"row", i>>}
      BY <2>1, <3>3, NamesStay
    <3> QED
      BY <3>4 DEF OnlyAt
  <2>5. RowHeld(r)'
    BY <2>1, <2>2, <2>4 DEF RowHeld
  <2>6. EntryHeld(r)' /\ CustomerHeld(r)'
    BY <1>2, <2>1 DEF EntryHeld, CustomerHeld
  <2> QED
    BY <1>2, <2>5, <2>6, GoesFiles DEF Resting
<1> QED
  BY <1>1, <1>2, LoadRowIs DEF Inv

LEMMA LoadCustomerFiles ==
  ASSUME Inv, FilesInv, NEW r \in Req, LoadCustomer(r)
  PROVE  FilesInv'
<1>1. CASE Refuse(r)
  BY <1>1, RefuseFiles
<1>2. CASE /\ job[r].cust \in Known /\ kind[r] \in {"saveCustomer", "deleteCustomer"} /\ Running(r)
           /\ Goes(r, "writeCustomer",
                   [bills |-> custs[job[r].cust], rows |-> BillsOf(OfCustomer(job[r].cust))],
                   txn[r], holds[r])
  <2>1. /\ kind'[r] = kind[r] /\ pc'[r] = "writeCustomer" /\ job'[r] = job[r]
        /\ seen'[r].bills = custs[job[r].cust] /\ seen'[r].rows = BillsOf(OfCustomer(job[r].cust))
        /\ UNCHANGED Tables /\ \A x \in Req : Over(x) => Over(x)'
    BY <1>2, GoesOld DEF Tables
  <2>2. PICK c, S : c = job[r].cust /\ S = OfCustomer(c)
    OBVIOUS
  <2>3. /\ c \in Customers /\ custs[c] # None /\ custs[c] \in SUBSET Keys
        /\ ledger \in [RowIds -> Charge \cup {None}]
    BY <1>2, <2>2 DEF Known, Inv, TypeInv, TypeOK
  <2>4. OfCustomer(c)' = S
    BY <2>1, <2>2, NamesStay
  <2>5. ASSUME NEW key \in custs[c] PROVE OnlyAt(key, {<<"cust", c>>})'
    <3>1. <<"cust", c>> \in Places /\ Names(<<"cust", c>>, key)
      BY <2>3, NamesNow
    <3>2. OnlyAt(key, {<<"cust", c>>})
      BY <2>3, <3>1 DEF FilesInv, NamedOnce
    <3>3. Old(key)' /\ \A p \in Places : Names(p, key)' => p \in {<<"cust", c>>}
      BY <2>1, <3>2, NamesStay
    <3> QED
      BY <3>3 DEF OnlyAt
  <2>6. ASSUME NEW key \in BillsOf(S) PROVE OnlyAt(key, {<<"row", i>> : i \in S})'
    <3>1. PICK i \in S : ledger[i].bill = key /\ key # None
      BY <2>6 DEF BillsOf
    <3>2. i \in RowIds /\ ledger[i] # None
      BY <2>2 DEF OfCustomer, Rows
    <3>3. key \in Keys
      BY <2>3, <3>1, <3>2 DEF Charge
    <3>4. <<"row", i>> \in Places /\ Names(<<"row", i>>, key)
      BY <3>1, <3>2, NamesNow
    <3>5. OnlyAt(key, {<<"row", i>>})
      BY <3>3, <3>4 DEF FilesInv, NamedOnce
    <3>6. Old(key)' /\ \A p \in Places : Names(p, key)' => p \in {<<"row", i>>}
      BY <2>1, <3>5, NamesStay
    <3> QED
      BY <3>1, <3>6 DEF OnlyAt
  <2>7. CustomerHeld(r)'
    <3>1. OfCustomer(job[r].cust)' = S
      BY <2>1, <2>2, <2>4 DEF OfCustomer
    <3> QED
      BY <2>1, <2>2, <2>5, <2>6, <3>1 DEF CustomerHeld, OnlyAt
  <2>8. EntryHeld(r)' /\ RowHeld(r)'
    BY <1>2, <2>1 DEF EntryHeld, RowHeld
  <2>9. kind[r] = "saveCustomer" => job[r].bills \subseteq custs[job[r].cust] \cup {r}
    BY <1>2, <2>2, <2>3 DEF FilesInv, Keeps, Resends, LoadCustomer
  <2> QED
    BY <1>2, <2>7, <2>8, <2>9, GoesFiles DEF Resting
<1> QED
  BY <1>1, <1>2, LoadCustomerIs DEF Inv

LEMMA StatementsFiles ==
  ASSUME Inv, FilesInv, NEW r \in Req, Statements(r)
  PROVE  FilesInv'
<1>0. TypeInv
  BY DEF Inv
<1>1. ASSUME Running(r), NEW at \in {"checkCustomers", "dropEntry", "countScope", "commit", "checkTwin", "insertRow"},
             kind[r] = "deleteEntry" => HasRead(r),
             kind[r] \in {"attach", "deleteRow"} => pc[r] = "writeRow",
             kind[r] \in {"saveCustomer", "deleteCustomer"} => pc[r] = "writeCustomer",
             \E written, locks : Goes(r, at, seen[r], written, locks)
      PROVE  FilesInv'
  BY <1>1, OnwardFiles DEF Resting
<1>2. CASE DropRows(r) \/ DropEntry(r) \/ CountScope(r)
  <2>1. HasRead(r) /\ Running(r) /\ kind[r] \in {"save", "deleteEntry"}
    BY <1>0, <1>2, KindAt DEF DropRows, DropEntry, CountScope, HasRead, Running
  <2>2. \E at \in {"checkCustomers", "dropEntry", "countScope", "commit"} :
          \E written, locks : Goes(r, at, seen[r], written, locks)
    BY <1>0, <1>2, DropRowsIs, DropEntryIs, CountScopeIs
  <2> QED
    BY <1>1, <2>1, <2>2
<1>3. CASE Post(r)
  <2>1. kind[r] = "save" /\ Running(r)
        /\ (Refuse(r) \/ \E written, locks : Goes(r, "commit", seen[r], written, locks))
    BY <1>0, <1>3, PostIs
  <2> QED
    BY <1>1, <2>1, RefuseFiles
<1>4. CASE WriteBill(r) \/ DeleteRow(r)
  <2>1. /\ kind[r] \in {"attach", "deleteRow"} /\ Running(r) /\ pc[r] = "writeRow"
        /\ Refuse(r) \/ \E written, locks : Goes(r, "commit", seen[r], written, locks)
    BY <1>0, <1>4, WriteBillIs, DeleteRowIs DEF WriteBill, DeleteRow
  <2> QED
    BY <1>1, <2>1, RefuseFiles
<1>5. CASE LockCustomer(r) \/ CheckTwin(r) \/ InsertRow(r)
  <2>1. /\ kind[r] = "add" /\ Running(r)
        /\ \/ Refuse(r)
           \/ \E at \in {"checkTwin", "insertRow", "commit"} :
                \E written, locks : Goes(r, at, seen[r], written, locks)
    BY <1>0, <1>5, LockCustomerIs, CheckTwinIs, InsertRowIs
  <2> QED
    BY <1>1, <2>1, RefuseFiles
<1>6. CASE WriteCustomer(r) \/ DeleteCustomer(r)
  <2>1. /\ kind[r] \in {"saveCustomer", "addCustomer", "deleteCustomer"} /\ Running(r) /\ pc[r] = "writeCustomer"
        /\ Refuse(r) \/ \E written, locks : Goes(r, "commit", seen[r], written, locks)
    BY <1>0, <1>6, WriteCustomerIs, DeleteCustomerIs DEF WriteCustomer, DeleteCustomer
  <2> QED
    BY <1>1, <2>1, RefuseFiles
<1> QED
  BY <1>2, <1>3, <1>4, <1>5, <1>6, LoadFiles, ReadRowsFiles, LoadRowFiles, LoadCustomerFiles DEF Statements

LEMMA SendFiles ==
  ASSUME Inv, FilesInv, NEW r \in Req, Send(r)
  PROVE  FilesInv'
<1>0. TypeInv /\ Keeps(r) /\ NamedOnce
  BY DEF Inv, FilesInv
<1>1. PICK j : Asks(r, j)
  BY <1>0, SendIs
<1>2. /\ pc[r] \in {"idle", "ready"} /\ AsksFor(r, j) /\ kind'[r] = kind[r] /\ job'[r] = j /\ files' = files
      /\ UNCHANGED Tables /\ (\A q \in Req \ {r} : UNCHANGED Mine(q)) /\ ~Over(r)
      /\ pc'[r] \in {"loadEntry", "loadRow", "lockCustomer", "loadCustomer", "writeCustomer"}
      /\ pc'[r] = "writeCustomer" => kind[r] = "addCustomer"
      /\ pc'[r] \in OnPath(kind[r])
  BY <1>1 DEF Asks, Over, QuietStep, Tables, committed
<1>3. Fresh(r) \subseteq {r} /\ r \in Keys /\ (r \in Fresh(r) => r \in files) /\ Stale = {}
  BY <1>0, FreshIs, Cared DEF Fresh, Keeps, Uploaded, FilesInv
<1>4. r \in j.bills => r \in files
  <2>1. CASE kind[r] = "save"
    <3>1. ASSUME NEW e \in OnRecord, r \in entries[e].bills PROVE r \in files
      <4>1. e \in EntryIds /\ entries[e] # None
        BY DEF OnRecord
      <4>2. <<"entry", e>> \in Places /\ Names(<<"entry", e>>, r)
        BY <3>1, <4>1, NamesNow
      <4> QED
        BY <1>0, <1>3, <4>2 DEF NamedOnce
    <3> QED
      BY <1>2, <1>3, <2>1, <3>1 DEF AsksFor
  <2>2. CASE kind[r] = "saveCustomer"
    <3>1. ASSUME NEW c \in Known, r \in custs[c] PROVE r \in files
      <4>1. c \in Customers /\ custs[c] # None
        BY DEF Known
      <4>2. <<"cust", c>> \in Places /\ Names(<<"cust", c>>, r)
        BY <3>1, <4>1, NamesNow
      <4> QED
        BY <1>0, <1>3, <4>2 DEF NamedOnce
    <3> QED
      BY <1>2, <1>3, <2>2, <3>1 DEF AsksFor
  <2>3. CASE kind[r] = "deleteEntry"
    BY <1>2, <2>3 DEF AsksFor, JobOf
  <2>4. CASE kind[r] \in {"attach", "deleteRow", "add", "addCustomer", "deleteCustomer"}
    BY <1>2, <1>3, <2>4 DEF AsksFor
  <2>5. kind[r] \in {"save", "deleteEntry", "attach", "deleteRow", "add", "saveCustomer", "deleteCustomer", "addCustomer"}
    BY <1>2 DEF OnPath
  <2> QED
    BY <2>1, <2>2, <2>3, <2>4, <2>5
<1>5. Uploaded(r)' /\ QueueFree(r)'
  BY <1>2, <1>4 DEF Uploaded, QueueFree
<1>6. EntryHeld(r)' /\ RowHeld(r)' /\ CustomerHeld(r)'
  BY <1>2 DEF EntryHeld, RowHeld, CustomerHeld, HasLoaded, HasRead
<1>7. Resends(r)'
  BY <1>2, <1>3 DEF Resends, AsksFor, Tables
<1> QED
  BY <1>2, <1>5, <1>6, <1>7, QuietFiles DEF Keeps

LEMMA InitFiles == Init /\ ClientsTakeCare => FilesInv
<1> SUFFICES ASSUME Init, ClientsTakeCare PROVE FilesInv
  OBVIOUS
<1>1. TypeInv
  BY InitTyped
<1>2. PICK d \in Databases : entries = d.entries /\ custs = d.custs /\ ledger = d.ledger
  BY DEF Init
<1>3. files = Named /\ \A r \in Req : pc[r] = "idle"
  BY DEF Init
<1>4. NamedOnce
  <2> SUFFICES ASSUME NEW key \in Keys, NEW p \in Places, Names(p, key)
               PROVE  OnlyAt(key, {p}) /\ key \in files
    BY DEF NamedOnce
  <2>1. key \notin Req /\ \A s \in Places \ {p} : ~Names(s, key)
    BY <1>2, DatabasesNameOnce DEF Names
  <2>2. key \in files
    BY <1>1, <1>3, NamedIs
  <2> QED
    BY <2>1, <2>2 DEF OnlyAt, Old
<1>5. \A r \in Req : Keeps(r)
  BY <1>3 DEF Keeps, Uploaded, QueueFree, EntryHeld, RowHeld, CustomerHeld, Resends, HasLoaded, HasRead, Running
<1> QED
  BY <1>4, <1>5 DEF FilesInv

LEMMA UploadFiles ==
  ASSUME Inv, FilesInv, NEW r \in Req, Upload(r) \/ DeleteUpload(r)
  PROVE  FilesInv'
<1>1. /\ TypeInv /\ UNCHANGED <<committed, kind, young>> /\ pc[r] \in {"idle", "ready"}
      /\ \A q \in Req \ {r} : UNCHANGED Mine(q)
  BY ClientKeeps DEF Inv
<1>2. UNCHANGED Tables /\ ~Over(r) /\ r \in Keys
  BY <1>1, FreshIs DEF Tables, committed, Over
<1>3. CASE Upload(r)
  <2>1. files' = files \cup {r} /\ pc'[r] = "ready"
    BY <1>1, <1>3 DEF Upload, Goto, TypeInv
  <2>2. Keeps(r)'
    BY <2>1 DEF Keeps, Uploaded, QueueFree, EntryHeld, RowHeld, CustomerHeld, Resends, HasLoaded, HasRead, Running
  <2> QED
    BY <1>1, <1>2, <2>1, <2>2, QuietFiles
<1>4. CASE DeleteUpload(r)
  <2>1. files' = files \ {r} /\ pc'[r] = "done"
    BY <1>1, <1>4, Cared DEF DeleteUpload, Fresh, Goto, TypeInv, FilesInv
  <2>2. \A p \in Places : ~Names(p, r)
    BY <1>2 DEF FilesInv, NamedOnce, OnlyAt, Old
  <2>3. Keeps(r)'
    BY <2>1, RestsKeeps
  <2> QED
    BY <1>1, <1>2, <2>1, <2>2, <2>3, QuietFiles
<1> QED
  BY <1>3, <1>4

LEMMA CleanUpFiles ==
  ASSUME Inv, FilesInv, NEW r \in Req, CleanUp(r)
  PROVE  /\ FilesInv' /\ UNCHANGED Tables /\ files' \subseteq files
         /\ \A key \in files \ files' : \A p \in Places : ~Names(p, key)
<1>1. /\ QuietStep(r) /\ pc[r] = "cleanup" /\ pc'[r] = "done" /\ Keeps(r)
      /\ files' \subseteq files /\ files \ txn[r].queue \subseteq files'
  BY CleanUpKeeps DEF Inv, FilesInv
<1>2. UNCHANGED Tables /\ (\A q \in Req \ {r} : UNCHANGED Mine(q)) /\ Over(r)'
  BY <1>1 DEF QuietStep, Tables, committed, Over
<1>3. \A key \in files \ files' : OnlyAt(key, {})
  BY <1>1 DEF Keeps, QueueFree
<1>4. \A key \in files \ files' : Old(key) /\ \A p \in Places : ~Names(p, key)
  BY <1>3 DEF OnlyAt
<1> QED
  BY <1>1, <1>2, <1>4, RestsKeeps, QuietFiles DEF Old

LEMMA RestartFiles ==
  ASSUME Inv, FilesInv, Restart
  PROVE  FilesInv'
<1>1. /\ TypeInv /\ UNCHANGED <<committed, files, kind>>
      /\ \A r \in Req : pc'[r] = IF Running(r) \/ pc[r] = "cleanup" THEN "failed" ELSE pc[r]
  BY RestartKeeps DEF Inv
<1>2. /\ UNCHANGED Tables /\ files' = files
      /\ \A x \in Req : Over(x) => Over(x)'
  BY <1>1 DEF Tables, committed, Over
<1>3. NamedOnce'
  <2> SUFFICES ASSUME NEW key \in Keys, NEW p \in Places, Names(p, key)'
               PROVE  OnlyAt(key, {p})' /\ key \in files'
    BY DEF NamedOnce
  <2>1. Names(p, key)
    BY <1>2, NamesStay
  <2>2. OnlyAt(key, {p}) /\ key \in files
    BY <2>1 DEF FilesInv, NamedOnce
  <2>3. Old(key)' /\ \A s \in Places : Names(s, key)' => s \in {p}
    BY <1>2, <2>2, NamesStay
  <2> QED
    BY <1>2, <2>2, <2>3 DEF OnlyAt
<1>4. ASSUME NEW r \in Req PROVE Keeps(r)'
  <2>1. CASE pc[r] = "ready"
    <3>1. pc'[r] = "ready" /\ r \in files'
      BY <1>1, <1>2, <2>1 DEF Running, FilesInv, Keeps, Uploaded
    <3> QED
      BY <3>1 DEF Keeps, Uploaded, QueueFree, EntryHeld, RowHeld, CustomerHeld, Resends, HasLoaded, HasRead, Running
  <2>2. CASE pc[r] # "ready"
    BY <1>1, <2>2, RestsKeeps DEF Running
  <2> QED
    BY <2>1, <2>2
<1> QED
  BY <1>3, <1>4 DEF FilesInv, ClientsTakeCare

LEMMA NextFiles == Inv /\ FilesInv /\ [Next]_vars => FilesInv'
<1> SUFFICES ASSUME Inv, FilesInv, [Next]_vars PROVE FilesInv'
  OBVIOUS
<1>0. TypeInv
  BY DEF Inv
<1>1. ASSUME NEW r \in Req, Abort(r) PROVE FilesInv'
  BY <1>1, RefuseFiles DEF Abort
<1>2. ASSUME NEW r \in Req, NEW s \in Scopes, SaveCheckpoint(r, s) \/ DeleteCheckpoint(r, s) PROVE FilesInv'
  <2>1. PICK now \in SUBSET Scopes : ByHand(r, now)
    BY <1>0, <1>2 DEF SaveCheckpoint, DeleteCheckpoint, TypeInv, TypeOK
  <2>2. /\ \A q \in Req \ {r} : UNCHANGED Mine(q)
        /\ UNCHANGED <<entries, custs, ledger, dues, files, kind, young>>
    BY <1>0, <2>1, ByHandKeeps
  <2>3. pc[r] = "idle" /\ pc'[r] = "done"
    BY <1>0, <2>1 DEF ByHand, Goto, TypeInv
  <2>4. UNCHANGED Tables /\ ~Over(r) /\ files' = files
    BY <2>2, <2>3 DEF Tables, Over
  <2> QED
    BY <2>2, <2>3, <2>4, RestsKeeps, QuietFiles
<1>3. CASE UNCHANGED <<committed, files, kind, pc, job, seen, txn, holds>> /\ young' \subseteq young
  <2>1. ASSUME NEW r \in Req PROVE FilesInv'
    <3>1. /\ UNCHANGED Tables /\ (\A q \in Req : UNCHANGED Mine(q)) /\ files' = files
          /\ \A q \in Req : Over(q)' <=> Over(q)
      BY <1>3 DEF committed, Tables, Mine, Over
    <3>2. Keeps(r)'
      BY <3>1, OthersKeep DEF FilesInv
    <3> QED
      BY <3>1, <3>2, QuietFiles
  <2>2. CASE Req = {}
    <3>1. UNCHANGED Tables /\ files' = files
      BY <1>3 DEF committed, Tables
    <3>2. NamedOnce'
      BY <2>2, <3>1, NamesStay DEF FilesInv, NamedOnce, OnlyAt, Old
    <3> QED
      BY <2>2, <3>2 DEF FilesInv, ClientsTakeCare
  <2> QED
    BY <2>1, <2>2
<1> QED
  BY <1>1, <1>2, <1>3, NextIs, UploadFiles, SendFiles, StatementsFiles, CommitFiles, CleanUpFiles, RestartFiles

LEMMA NamedAreStored == Inv /\ FilesInv => NamedFilesExist
<1> SUFFICES ASSUME Inv, FilesInv, NEW key \in Named PROVE key \in files
  BY DEF NamedFilesExist
<1>1. key \in Keys /\ \E p \in Places : Names(p, key)
  BY NamedIs DEF Inv
<1> QED
  BY <1>1 DEF FilesInv, NamedOnce

\* A step, as a step of the store.
LEMMA StepOfStore ==
  ASSUME Inv, FilesInv, NamedFilesExist, NamedFilesExist', [Next]_vars
  PROVE  [Store!Next]_(Store!vars)
<1>0. /\ TypeInv /\ Named \subseteq files /\ Named' \subseteq files'
      /\ \A key \in Keys : key \in Named <=> \E p \in Places : Names(p, key)
      /\ files \subseteq Keys
  BY NamedIs DEF Inv, TypeInv, TypeOK, NamedFilesExist
<1>1. UNCHANGED Tables => Named' = Named
  BY DEF Tables, Named, BillsOf, Rows
<1>2. ASSUME NEW r \in Req, Upload(r) PROVE [Store!Next]_(Store!vars)
  <2>1. UNCHANGED Tables /\ files' = files \cup {r}
    BY <1>0, <1>2, ClientKeeps DEF Upload, Tables, committed
  <2> QED
    BY <1>1, <2>1 DEF Store!Next, Store!Store, Store!vars
<1>3. ASSUME UNCHANGED Tables, files' \subseteq files, \A key \in files \ files' : \A p \in Places : ~Names(p, key)
      PROVE  [Store!Next]_(Store!vars)
  <2>1. Named \subseteq files'
    BY <1>0, <1>3
  <2> QED
    BY <1>1, <1>3, <2>1 DEF Store!Next, Store!Discard
<1>4. ASSUME UNCHANGED Tables, files' = files PROVE [Store!Next]_(Store!vars)
  BY <1>1, <1>4 DEF Store!vars
<1>5. ASSUME NEW r \in Req, DeleteUpload(r) PROVE [Store!Next]_(Store!vars)
  <2>1. UNCHANGED Tables /\ files' = files \ {r} /\ ~Over(r) /\ r \in Keys
    BY <1>0, <1>5, ClientKeeps, FreshIs, Cared DEF DeleteUpload, Fresh, Tables, committed, Over, FilesInv
  <2>2. \A p \in Places : ~Names(p, r)
    BY <2>1 DEF FilesInv, NamedOnce, OnlyAt, Old
  <2> QED
    BY <1>3, <2>1, <2>2
<1>6. ASSUME NEW r \in Req, CleanUp(r) PROVE [Store!Next]_(Store!vars)
  BY <1>3, <1>6, CleanUpFiles
<1>7. ASSUME NEW r \in Req, Commit(r) PROVE [Store!Next]_(Store!vars)
  <2>1. files' = files
    BY <1>7 DEF Commit
  <2> QED
    BY <1>0, <2>1 DEF Store!Next, Store!Name
<1>8. ASSUME NEW r \in Req, Statements(r) \/ Abort(r) \/ Send(r) PROVE [Store!Next]_(Store!vars)
  <2>1. files' = files
    BY <1>0, <1>8, StatementsGo, RefuseKeeps DEF Goes, Abort, Send
  <2>2. UNCHANGED Tables
    BY <1>0, <1>8, StatementsGo, RefuseKeeps DEF Goes, QuietStep, Abort, Send, Tables, committed
  <2> QED
    BY <1>4, <2>1, <2>2
<1>9. ASSUME NEW r \in Req, NEW s \in Scopes, SaveCheckpoint(r, s) \/ DeleteCheckpoint(r, s)
      PROVE  [Store!Next]_(Store!vars)
  BY <1>4, <1>9 DEF SaveCheckpoint, DeleteCheckpoint, ByHand, Tables
<1>10. CASE Restart
  BY <1>4, <1>10 DEF Restart, Tables, committed
<1>11. CASE UNCHANGED <<committed, files, kind, pc, job, seen, txn, holds>> /\ young' \subseteq young
  BY <1>4, <1>11 DEF Tables, committed
<1> QED
  BY <1>2, <1>5, <1>6, <1>7, <1>8, <1>9, <1>10, <1>11, NextIs

(***************************************************************************)
(* A photo that a row names is in storage, and no request deletes one that *)
(* a row still names, or that another row has come to name, however        *)
(* requests interleave and wherever they are cut off: every step of this   *)
(* module is a step of BillStore or leaves the photos alone, if clients    *)
(* take care.                                                              *)
(***************************************************************************)
THEOREM ImplementsBillStoreHolds ==
  ASSUME ClientsTakeCare
  PROVE  Spec => [](NamedFilesExist) /\ ImplementsBillStore
<1>1. Init => Store!Init
  BY DEF Init, Store!Init
<1>2. Inv /\ FilesInv /\ NamedFilesExist /\ NamedFilesExist' /\ [Next]_vars => [Store!Next]_(Store!vars)
  BY StepOfStore
<1>3. Spec => []FilesInv
  BY InitFiles, NextFiles, InvHolds, PTL DEF Spec
<1> QED
  BY <1>1, <1>2, <1>3, InvHolds, NamedAreStored, PTL DEF Spec, ImplementsBillStore, Store!Spec
=============================================================================
