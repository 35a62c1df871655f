---------------------------- MODULE CreditLedger ----------------------------
(***************************************************************************)
(* The rows a final fuel entry writes elsewhere and the photos of bills    *)
(* they carry: charges in the ledgers of credit customers, what its worker *)
(* owes or is owed, the fuel stock checkpoint of its day; the requests on  *)
(* customers and ledgers that run beside it; and the objects in storage    *)
(* that are deleted only once a request has been committed.                *)
(*                                                                         *)
(* A request is a transaction under READ COMMITTED: what it writes is kept *)
(* in txn until Commit, what it holds locked stays locked.  A flush is one *)
(* step, taken when the locks it needs are free.  A request that the       *)
(* database picks as a deadlock's victim, that loses its connection or     *)
(* that fails a check left out here (a closed month, a name already taken, *)
(* oil that is not in stock) is an Abort.  All rows are of one date.       *)
(***************************************************************************)
EXTENDS ShiftFigures, SequencesExt

CONSTANTS
  Req,           \* requests that may arrive; also the id of what each makes, and the key
                 \* of the photo it uploads
  OldEntries,    \* entries that may be on record before
  Before,        \* the maker of the rows that were
  OldKeys,       \* photos stored before
  OldCustomers, Workers,
  Scopes,        \* (date, is_shift3)
  NewScopes,     \* those a new entry may be for
  MaxLines,      \* payment lines of an entry
  Forms,         \* shift figures a client may send
  Databases,     \* what may be on record before the requests arrive
  Loads,         \* which kinds of request arrive together: functions of Req
  Stale,         \* photos that a form may name although its row names them no more, or never did
  Removable,     \* photos that a client may take out of storage, besides its own upload
  Avoid          \* which overlaps clients keep clear of: see Clash

EntryIds == OldEntries \cup Req
Customers == OldCustomers \cup Req
RowIds == (Req \cup {Before}) \X (1 .. MaxLines)
Keys == Req \cup OldKeys

\* Whom a line is about: the customer, or for employee credit the employee, it names.
Line == [type : {"cash", "credit"}, who : Customers \cup {None}, amount : Nat]
        \cup [type : {"employee_credit"}, who : Workers \cup {None}, amount : Nat]
Entry == [scope : Scopes, worker : Workers \cup {None}, final : BOOLEAN,
          readings : SUBSET Reading, oil : Seq(OilRow), offer : Nat,
          lines : Seq(Line), bills : SUBSET Keys]
Charge == [cust : Customers, type : {"credit", "payment"}, amount : Nat \ {0},
           src : EntryIds \cup {None}, bill : Keys \cup {None}]
Due == [by : Req \cup {Before}, n : 0 .. MaxLines, src : EntryIds \cup {None},
        worker : Workers, amount : Nat, type : {"credit", "excess"}]

Kinds == {"save", "deleteEntry", "attach", "deleteRow", "add", "saveCustomer",
          "deleteCustomer", "addCustomer", "saveCheckpoint", "deleteCheckpoint"}

\* What a request may be sent: the row it is about, or a form.
Sent == [op : Kinds, entry : EntryIds \cup {None}, scope : Scopes \cup {None},
         row : RowIds \cup {None}, cust : Customers \cup {None},
         form : Forms \cup [type : {"credit", "payment"}, amount : Nat] \cup {None},
         bills : SUBSET Keys]

ASSUME LoadsTyped == Loads \subseteq [Req -> Kinds]

ASSUME FormsTyped ==
  /\ MaxLines \in Nat /\ NewScopes \subseteq Scopes
  /\ \A f \in Forms :
       /\ f.meters \in [Fuels -> NozzlesIn \cup {None}]
       /\ f.pocket \in Seq(OilRowIn) /\ f.cane \in Seq(OilRowIn)
       /\ f.offer \in Nat /\ f.final \in BOOLEAN /\ f.worker \in Workers \cup {None}
       /\ f.lines \in Seq(Line) /\ Len(f.lines) <= MaxLines

ASSUME IdsAreDistinct ==
  /\ Req \cap (OldEntries \cup OldKeys \cup OldCustomers \cup {Before}) = {}
  /\ Workers \cap Customers = {}
  /\ None \notin EntryIds \cup Customers \cup Workers \cup Keys \cup Scopes
  /\ None \notin Entry \cup Charge \cup Sent \cup [out : SUBSET Keys, in : SUBSET Keys]
  /\ (\A keys \in SUBSET Keys : keys # None)

ASSUME ClientsTyped ==
  Stale \subseteq Keys /\ Removable \subseteq Keys
    /\ Avoid \subseteq {"attach", "customer", "delete", "forms"}

ASSUME IdsAreFinite == IsFiniteSet(Req \cup OldKeys)

ASSUME DatabasesTyped ==
  \A d \in Databases :
    /\ d.entries \in [EntryIds -> Entry \cup {None}]
    /\ d.custs \in [Customers -> (SUBSET Keys) \cup {None}]
    /\ d.ledger \in [RowIds -> Charge \cup {None}]
    /\ d.dues \subseteq Due /\ d.checkpoints \subseteq Scopes

\* What a request makes is new, and what names an entry as its source names one that is there.
ASSUME DatabasesSound ==
  \A d \in Databases :
    /\ \A r \in Req : d.entries[r] = None /\ d.custs[r] = None
    /\ \A i \in {x \in RowIds : d.ledger[x] # None} :
         i[1] = Before /\ (d.ledger[i].src # None => d.entries[d.ledger[i].src] # None)
    /\ \A u \in d.dues : u.src # None => d.entries[u.src] # None
    /\ \A u, v \in d.dues : u.by = Before /\ (u.n = v.n => u = v)

\* Where a row can name a photo.
Places == ({"entry"} \X EntryIds) \cup ({"cust"} \X Customers) \cup ({"row"} \X RowIds)

NamesIn(es, cs, rows, p, key) ==
  \/ p[1] = "entry" /\ es[p[2]] # None /\ key \in es[p[2]].bills
  \/ p[1] = "cust" /\ cs[p[2]] # None /\ key \in cs[p[2]]
  \/ p[1] = "row" /\ rows[p[2]] # None /\ rows[p[2]].bill = key

\* Every upload has a key of its own, so that no two rows name one photo, and none a later one.
ASSUME DatabasesNameOnce ==
  \A d \in Databases, p \in Places, key \in Keys :
    NamesIn(d.entries, d.custs, d.ledger, p, key) =>
      key \notin Req /\ \A s \in Places \ {p} : ~NamesIn(d.entries, d.custs, d.ledger, s, key)

VARIABLES
  entries,      \* Fuel_Entries with their readings, oil rows, payment lines and bills
  custs,        \* Credit_Customers: the keys of a customer's own bills
  ledger,       \* Credit_Ledger_Entries
  dues,         \* Employee_Credits that an entry made
  checkpoints,  \* Fuel_Stock_Log
  files,        \* the keys of the objects in storage
  \* one per request
  kind,         \* what it asks for
  pc,           \* the statement it is at
  job,          \* what it was sent
  seen,         \* rows it has loaded and will use
  txn,          \* what it has written and not committed, and the keys it has queued
  holds,        \* row locks
  young         \* requests that began less than ten seconds ago

committed == <<entries, custs, ledger, dues, checkpoints>>
vars == <<committed, files, kind, pc, job, seen, txn, holds, young>>

Running(r) == pc[r] \notin {"idle", "ready", "cleanup", "done", "failed"}
Rows == {i \in RowIds : ledger[i] # None}
Sourced(e) == {i \in Rows : ledger[i].src = e}
OfCustomer(c) == {i \in Rows : ledger[i].cust = c}
BillsOf(rows) == {ledger[i].bill : i \in rows} \ {None}

Named == (UNION {entries[e].bills : e \in {x \in EntryIds : entries[x] # None}})
         \cup (UNION {custs[c] : c \in {x \in Customers : custs[x] # None}})
         \cup BillsOf(Rows)

NothingWritten ==
  [entry |-> {}, gone |-> {}, new |-> <<>>, bill |-> {}, due |-> {}, undue |-> {},
   cust |-> {}, log |-> {}, queue |-> {}]
-----------------------------------------------------------------------------
Init ==
  /\ \E d \in Databases :
       /\ entries = d.entries /\ custs = d.custs /\ ledger = d.ledger
       /\ dues = d.dues /\ checkpoints = d.checkpoints
  /\ files = Named
  /\ kind \in Loads
  /\ pc = [r \in Req |-> "idle"]
  /\ job = [r \in Req |-> None]
  /\ seen = [r \in Req |-> None]
  /\ txn = [r \in Req |-> NothingWritten]
  /\ holds = [r \in Req |-> {}]
  /\ young = {}

Goto(r, at) == pc' = [pc EXCEPT ![r] = at] /\ UNCHANGED <<kind, job>>
Write(r, what) == txn' = [txn EXCEPT ![r] = what]
Remember(r, what) == seen' = [seen EXCEPT ![r] = what]

\* The session is closed: its locks are gone, and what it had not committed.
End(r, outcome) ==
  /\ pc' = [pc EXCEPT ![r] = outcome]
  /\ job' = [job EXCEPT ![r] = None]
  /\ seen' = [seen EXCEPT ![r] = None]
  /\ txn' = [txn EXCEPT ![r] = NothingWritten]
  /\ holds' = [holds EXCEPT ![r] = {}]
  /\ UNCHANGED <<committed, kind>>

\* A request that failed leaves no row whose age could matter.
Refuse(r) == End(r, "failed") /\ young' = young \ {r} /\ UNCHANGED files

\* A row's lock: FOR UPDATE of one that is changed, FOR KEY SHARE of one referred to.
Free(r, on, mode) ==
  \A q \in Req \ {r} : \A h \in holds[q] : h.on \in on => h.mode = "share" /\ mode = "share"
Hold(r, on, mode) == holds' = [holds EXCEPT ![r] = @ \cup [on : on, mode : {mode}]]

Database == UNCHANGED <<committed, files, young>>
Private(r) == Database /\ UNCHANGED holds
-----------------------------------------------------------------------------
(***************************************************************************)
(* Clients                                                                 *)
(***************************************************************************)
\* The browser puts the photo into storage, under a key of its own, before it saves ...
Upload(r) ==
  /\ pc[r] = "idle" /\ kind[r] \in {"save", "attach", "add", "saveCustomer", "addCustomer"}
  /\ files' = files \cup {r}
  /\ Goto(r, "ready")
  /\ UNCHANGED <<committed, seen, txn, holds, young>>

Fresh(r) == IF pc[r] = "ready" THEN {r} ELSE {}

\* ... or takes it out again, and does not save.  The handler deletes whatever key it is
\* given: no row is asked.
DeleteUpload(r) ==
  /\ pc[r] \in {"idle", "ready"}
  /\ \E key \in Fresh(r) \cup Removable : files' = files \ {key}
  /\ Goto(r, "done")
  /\ UNCHANGED <<committed, seen, txn, holds, young>>

Job(op, entry, scope, row, cust, form, bills) ==
  [op |-> op, entry |-> entry, scope |-> scope, row |-> row, cust |-> cust, form |-> form, bills |-> bills]

\* The bills a form may send back: some of those it was shown, and the new one.  The server
\* takes any key, so a form that was shown an older row may name what is gone.
Resent(shown, r) == {kept \cup Fresh(r) : kept \in SUBSET (shown \cup Stale)}

OnRecord == {e \in EntryIds : entries[e] # None}
Known == {c \in Customers : custs[c] # None}

\* An update may move the entry: its date and its shift are written like all the rest.
Updates(r, e) ==
  {Job("save", e, s, None, None, f, b) : s \in Scopes, f \in Forms, b \in Resent(entries[e].bills, r)}
Creates(r) ==
  {Job("save", r, s, None, None, f, b) : s \in NewScopes, f \in Forms, b \in Resent({}, r)}

Jobs(r) ==
  CASE kind[r] = "save" ->
         Creates(r) \cup UNION {Updates(r, e) : e \in OnRecord}
    [] kind[r] = "deleteEntry" ->
         {Job("deleteEntry", e, entries[e].scope, None, None, None, {}) : e \in OnRecord}
    [] kind[r] \in {"attach", "deleteRow"} ->
         {Job(kind[r], ledger[i].src, None, i, ledger[i].cust, None, Fresh(r)) : i \in Rows}
    [] kind[r] = "add" ->
         {Job("add", None, None, None, c, [type |-> t, amount |-> 1], Fresh(r)) :
            c \in Known, t \in {"credit", "payment"}}
    [] kind[r] = "saveCustomer" ->
         UNION {{Job("saveCustomer", None, None, None, c, None, b) : b \in Resent(custs[c], r)} :
                  c \in Known}
    [] kind[r] = "deleteCustomer" -> {Job("deleteCustomer", None, None, None, c, None, {}) : c \in Known}
    [] kind[r] = "addCustomer" ->
         {Job("addCustomer", None, None, None, r, None, Fresh(r))}
    [] OTHER -> {}

\* The scopes of the entries that are counted when one is deleted, as a save changes them.
Touches(j) == {j.scope} \cup {entries[e].scope : e \in {j.entry} \cap OnRecord}

\* A charge's bill is changed while its entry is saved.
AttachClash(a, b) == a.op = "save" /\ b.op = "attach" /\ a.entry = b.entry

\* A customer is deleted while a save names him.
CustomerClash(a, b) ==
  /\ a.op = "deleteCustomer" /\ b.op = "save"
  /\ \E i \in DOMAIN b.form.lines : b.form.lines[i].who = a.cust

\* An entry is deleted while others of its scope come, go or change.
DeleteClash(a, b) ==
  /\ a.op = "deleteEntry"
  /\ \/ b.op = "save" /\ a.scope \in Touches(b)
     \/ b.op = "deleteEntry" /\ a.scope = b.scope /\ a.entry # b.entry

\* Two forms for one row, of which the second does not know the first.
FormsClash(a, b) ==
  \/ a.op = "save" /\ b.op = "save" /\ a.entry = b.entry
  \/ a.op = "saveCustomer" /\ b.op = "saveCustomer" /\ a.cust = b.cust

Unsafe(a, b) ==
  \/ "attach" \in Avoid /\ AttachClash(a, b)
  \/ "customer" \in Avoid /\ CustomerClash(a, b)
  \/ "delete" \in Avoid /\ DeleteClash(a, b)
  \/ "forms" \in Avoid /\ FormsClash(a, b)

\* Two requests that the code lets do harm when they overlap, and that are not sent so:
\* Avoid = {} is what the server promises by itself, and README.md says which harm is left.
Clash(a, b) == Unsafe(a, b) \/ Unsafe(b, a)

First(op) == CASE op = "save" -> "loadEntry"
               [] op = "deleteEntry" -> "loadEntry"
               [] op \in {"attach", "deleteRow"} -> "loadRow"
               [] op = "add" -> "lockCustomer"
               [] op \in {"saveCustomer", "deleteCustomer"} -> "loadCustomer"
               [] op = "addCustomer" -> "writeCustomer"

Send(r) ==
  /\ pc[r] \in {"idle", "ready"}
  /\ \E j \in Jobs(r) :
       /\ \A q \in Req : job[q] # None => ~Clash(j, job[q])
       /\ job' = [job EXCEPT ![r] = j]
       /\ pc' = [pc EXCEPT ![r] = First(j.op)]
  /\ young' = young \cup {r}
  /\ UNCHANGED <<committed, files, kind, seen, txn, holds>>
-----------------------------------------------------------------------------
(***************************************************************************)
(* Fuel entries                                                            *)
(***************************************************************************)
IsCharge(l) == l.type = "credit" /\ l.who # None /\ l.amount > 0
ChargeLines(e) == {i \in DOMAIN e.lines : IsCharge(e.lines[i])}
AdvanceLines(e) ==
  {i \in DOMAIN e.lines :
     e.lines[i].type = "employee_credit" /\ e.lines[i].who # None /\ e.lines[i].amount > 0}

\* A final shift needs its worker and readings that can be right.
MayBeSaved(form) == form.final => form.worker # None /\ ValidFinalReadings(form)

Loaded(entry) ==
  [entry |-> entry, lines |-> <<>>, rows |-> {}, bills |-> [c \in Customers |-> {}], due |-> {}]

\* A new entry goes on at once; an update waits for the row and loads it.
LoadForSave(r) ==
  /\ pc[r] = "loadEntry" /\ job[r].op = "save"
  /\ \/ /\ ~MayBeSaved(job[r].form)
        /\ Refuse(r)
     \/ /\ MayBeSaved(job[r].form) /\ job[r].entry = r
        /\ Remember(r, Loaded(None))
        /\ Goto(r, "checkCustomers")
        /\ UNCHANGED txn /\ Private(r)
     \/ LET e == job[r].entry IN
        /\ MayBeSaved(job[r].form) /\ e # r
        /\ Free(r, {<<"entry", e>>}, "update")
        /\ \/ entries[e] = None /\ Refuse(r)
           \/ /\ entries[e] # None
              /\ Hold(r, {<<"entry", e>>}, "update")
              /\ Remember(r, Loaded(entries[e]))
              /\ Goto(r, "readRows")
              /\ UNCHANGED txn /\ Database

\* A delete loads the entry and locks nothing.
LoadForDelete(r) ==
  /\ pc[r] = "loadEntry" /\ job[r].op = "deleteEntry"
  /\ LET e == job[r].entry IN
     \/ entries[e] = None /\ Refuse(r)
     \/ /\ entries[e] # None
        /\ Remember(r, Loaded(entries[e]))
        /\ Goto(r, "readRows")
        /\ UNCHANGED txn /\ Private(r)

\* The SELECT half of _remove_credit_ledger_by_source: bills_by_customer.
ReadRows(r) ==
  /\ pc[r] = "readRows"
  /\ LET rows == Sourced(job[r].entry) IN
     Remember(r, [seen[r] EXCEPT
       !.rows = rows,
       !.bills = [c \in Customers |-> BillsOf(rows \cap OfCustomer(c))],
       !.due = {d \in dues : d.src = job[r].entry}])
  /\ Goto(r, "dropRows")
  /\ UNCHANGED txn /\ Private(r)

\* Its DELETE half, which waits for whoever is changing a row, and the same for what the
\* entry's people owe.  A deleted entry's bills are queued: no new row will carry them.
DropRows(r) ==
  /\ pc[r] = "dropRows"
  /\ LET rows == seen[r].rows
         on == {<<"row", i>> : i \in rows}
         dropped == [txn[r] EXCEPT !.gone = rows, !.undue = seen[r].due]
     IN
     /\ Free(r, on, "update") /\ Hold(r, on, "update")
     /\ IF job[r].op = "save"
        THEN Write(r, dropped) /\ Goto(r, "checkCustomers")
        ELSE /\ Write(r, [dropped EXCEPT !.queue = UNION Range(seen[r].bills)])
             /\ Goto(r, "dropEntry")
     /\ UNCHANGED seen /\ Database

BuildPayments(lines) ==
  [i \in DOMAIN lines |->
     IF lines[i].who \in Known \cup Workers THEN lines[i] ELSE [lines[i] EXCEPT !.who = None]]

\* _build_payments: a charge to a customer who is gone is refused, any other line loses him.
CheckCustomers(r) ==
  /\ pc[r] = "checkCustomers"
  /\ \/ /\ \E i \in ChargeLines(job[r].form) : job[r].form.lines[i].who \notin Known
        /\ Refuse(r)
     \/ /\ \A i \in ChargeLines(job[r].form) : job[r].form.lines[i].who \in Known
        /\ Remember(r, [seen[r] EXCEPT !.lines = BuildPayments(job[r].form.lines)])
        /\ Goto(r, "post")
        /\ UNCHANGED txn /\ Private(r)

\* Bills are told apart by their keys.
BuildEntry(j, lines) ==
  [scope |-> j.scope, worker |-> j.form.worker, final |-> j.form.final,
   readings |-> BuildReadings(j.form), oil |-> BuildOilRows(j.form), offer |-> j.form.offer,
   lines |-> lines, bills |-> j.bills]

\* Mutation of RemovedKeys: every bill of the old entry.
AllOldKeys(old, bills) == IF old = None THEN {} ELSE old.bills

RemovedKeys(old, bills) == IF old = None THEN {} ELSE old.bills \ bills

\* Mutation of CarriedBill: the new row is made without looking at the old ones.
NoCarriedBill(e, i, bills) == None

\* The n-th charge of a customer takes over the n-th bill of his old ones.
CarriedBill(e, i, bills) ==
  LET c == e.lines[i].who
      n == Cardinality({k \in ChargeLines(e) : k <= i /\ e.lines[k].who = c})
  IN  IF n <= Cardinality(bills[c]) THEN SetToSeq(bills[c])[n] ELSE None

\* Mutation of NewCharges: one charge per customer.
ChargeEachOnce(r, id, e, bills) ==
  LET first == {i \in ChargeLines(e) : \A k \in ChargeLines(e) : e.lines[k].who = e.lines[i].who => i <= k} IN
  [row \in {<<r, i>> : i \in first} |->
     [cust |-> e.lines[row[2]].who, type |-> "credit", amount |-> e.lines[row[2]].amount,
      src |-> id, bill |-> CarriedBill(e, row[2], bills)]]

NewCharges(r, id, e, bills) ==
  [row \in {<<r, i>> : i \in ChargeLines(e)} |->
     [cust |-> e.lines[row[2]].who, type |-> "credit", amount |-> e.lines[row[2]].amount,
      src |-> id, bill |-> CarriedBill(e, row[2], bills)]]

NewAdvances(r, id, e) ==
  {[by |-> r, n |-> i, src |-> id, worker |-> e.lines[i].who, amount |-> e.lines[i].amount,
    type |-> "credit"] : i \in AdvanceLines(e)}

\* Mutation of NewVariance: the amount keeps its sign.
SignedVariance(r, id, e) ==
  LET v == ShiftTotals(e).paid - ShiftTotals(e).sale IN
  IF e.worker = None \/ v = 0 THEN {}
  ELSE {[by |-> r, n |-> 0, src |-> id, worker |-> e.worker,
         amount |-> IF v < 0 THEN -Hundredths(-v) ELSE Hundredths(v), type |-> "credit"]}

\* The worker owes a shortage, and is owed an excess.  One below half a hundredth makes a
\* row too, of nothing: it is tested before the column rounds it.
NewVariance(r, id, e) ==
  LET v == ShiftTotals(e).paid - ShiftTotals(e).sale IN
  IF e.worker = None \/ v = 0 THEN {}
  ELSE {[by |-> r, n |-> 0, src |-> id, worker |-> e.worker,
         amount |-> Hundredths(IF v < 0 THEN -v ELSE v), type |-> IF v < 0 THEN "credit" ELSE "excess"]}

\* _apply_write, the flush of the entry, and _apply_side_effects or, for a draft,
\* _queue_unclaimed_bills.  The payment lines' foreign keys share-lock their customers
\* and fail when one is gone; what follows inserts rows that refer to the same ones.
Post(r) ==
  /\ pc[r] = "post"
  /\ LET id == job[r].entry
         e == BuildEntry(job[r], seen[r].lines)
         named == {seen[r].lines[i].who : i \in DOMAIN seen[r].lines} \cap Customers
         on == {<<"cust", c>> : c \in named}
         charges == IF e.final THEN NewCharges(r, id, e, seen[r].bills) ELSE <<>>
         taken == {charges[row].bill : row \in DOMAIN charges}
         unclaimed == (UNION Range(seen[r].bills)) \ taken
     IN
     /\ Free(r, on, "share")
     /\ \/ ~(named \subseteq Known) /\ Refuse(r)
        \/ /\ named \subseteq Known
           /\ Hold(r, on, "share")
           /\ Write(r, [txn[r] EXCEPT
                !.entry = {e}, !.new = charges,
                !.due = IF e.final THEN NewAdvances(r, id, e) \cup NewVariance(r, id, e) ELSE {},
                !.queue = unclaimed \cup RemovedKeys(seen[r].entry, job[r].bills)])
           /\ Goto(r, "commit")
           /\ UNCHANGED seen /\ Database

\* DELETE of the entry; of one already deleted it deletes nothing, which is a warning.
\* Its foreign key sets the source of the rows that are left to NULL.
DropEntry(r) ==
  /\ pc[r] = "dropEntry"
  /\ LET e == job[r].entry
         on == {<<"entry", e>>} \cup {<<"row", i>> : i \in Sourced(e)}
     IN
     /\ Free(r, on, "update") /\ Hold(r, on, "update")
     /\ Write(r, [txn[r] EXCEPT !.entry = {None}, !.queue = @ \cup seen[r].entry.bills])
     /\ Goto(r, "countScope")
     /\ UNCHANGED seen /\ Database

\* Mutation of LeftInScope: only the entry's own id is counted.
LeftOfEntry(e, scope) == {}

\* count_for_date_scope, in a transaction that has deleted e
LeftInScope(e, scope) == {x \in OnRecord \ {e} : entries[x].scope = scope}

\* Without the last entry of its scope a checkpoint stands on nothing: the one found goes.
CountScope(r) ==
  /\ pc[r] = "countScope"
  /\ LET scope == seen[r].entry.scope IN
     Write(r, [txn[r] EXCEPT
       !.log = IF LeftInScope(job[r].entry, scope) = {} THEN {scope} \cap checkpoints ELSE {}])
  /\ Goto(r, "commit")
  /\ UNCHANGED seen /\ Private(r)
-----------------------------------------------------------------------------
(***************************************************************************)
(* Customers and their ledgers                                             *)
(***************************************************************************)
\* A row an entry made is only removed with it.
LoadRow(r) ==
  /\ pc[r] = "loadRow"
  /\ LET i == job[r].row
         there == ledger[i] # None /\ (job[r].op = "deleteRow" => ledger[i].src = None)
     IN
     \/ ~there /\ Refuse(r)
     \/ /\ there
        /\ Remember(r, ledger[i].bill)
        /\ Goto(r, "writeRow")
        /\ UNCHANGED txn /\ Private(r)

\* UPDATE waits for the row, and one that finds it gone raises StaleDataError.
WriteBill(r) ==
  /\ pc[r] = "writeRow" /\ job[r].op = "attach"
  /\ LET i == job[r].row
         key == IF job[r].bills = {} THEN None ELSE r
     IN
     /\ Free(r, {<<"row", i>>}, "update")
     /\ \/ ledger[i] = None /\ Refuse(r)
        \/ /\ ledger[i] # None
           /\ Hold(r, {<<"row", i>>}, "update")
           /\ Write(r, [txn[r] EXCEPT
                !.bill = IF key = seen[r] THEN {} ELSE {[row |-> i, key |-> key]},
                !.queue = {seen[r]} \ {None, key}])
           /\ Goto(r, "commit")
           /\ UNCHANGED seen /\ Database

DeleteRow(r) ==
  /\ pc[r] = "writeRow" /\ job[r].op = "deleteRow"
  /\ Free(r, {<<"row", job[r].row>>}, "update")
  /\ Hold(r, {<<"row", job[r].row>>}, "update")
  /\ Write(r, [txn[r] EXCEPT !.gone = {job[r].row}, !.queue = {seen[r]} \ {None}])
  /\ Goto(r, "commit")
  /\ UNCHANGED seen /\ Database

\* Mutation of LockCustomer: the customer is only read.
OnlyReadCustomer(r) ==
  /\ pc[r] = "lockCustomer"
  /\ Goto(r, "checkTwin")
  /\ UNCHANGED <<seen, txn>> /\ Private(r)

\* lock_for_update, before the check for a duplicate; of no row it locks nothing.
LockCustomer(r) ==
  /\ pc[r] = "lockCustomer"
  /\ Free(r, {<<"cust", job[r].cust>>}, "update")
  /\ Hold(r, IF job[r].cust \in Known THEN {<<"cust", job[r].cust>>} ELSE {}, "update")
  /\ Goto(r, "checkTwin")
  /\ UNCHANGED <<seen, txn>> /\ Database

\* created_at is the moment the row's transaction began.
Twins(c, form) ==
  {i \in OfCustomer(c) : ledger[i].type = form.type /\ ledger[i].amount = form.amount /\ i[1] \in young}

CheckTwin(r) ==
  /\ pc[r] = "checkTwin"
  /\ LET refused == job[r].cust \notin Known \/ Twins(job[r].cust, job[r].form) # {} IN
     \/ refused /\ Refuse(r)
     \/ /\ ~refused
        /\ Goto(r, "insertRow")
        /\ UNCHANGED <<seen, txn>> /\ Private(r)

InsertRow(r) ==
  /\ pc[r] = "insertRow"
  /\ LET form == job[r].form IN
     Write(r, [txn[r] EXCEPT !.new =
       [row \in {<<r, 1>>} |->
          [cust |-> job[r].cust, type |-> form.type, amount |-> form.amount, src |-> None,
           bill |-> IF job[r].bills = {} THEN None ELSE r]]])
  /\ Goto(r, "commit")
  /\ UNCHANGED seen /\ Private(r)

\* Mutation of MayGo: left to the foreign key, which cascades.
AlwaysMayGo(c) == TRUE

MayGo(c) == \A i \in OfCustomer(c) : ledger[i].src = None

LoadCustomer(r) ==
  /\ pc[r] = "loadCustomer"
  /\ LET c == job[r].cust
         refused == c \notin Known \/ (job[r].op = "deleteCustomer" /\ ~MayGo(c))
     IN
     \/ refused /\ Refuse(r)
     \/ /\ ~refused
        /\ Remember(r, [bills |-> custs[c], rows |-> BillsOf(OfCustomer(c))])
        /\ Goto(r, "writeCustomer")
        /\ UNCHANGED txn /\ Private(r)

\* The bills that are new go in, those that were not sent back go; a new customer's all
\* go in.
WriteCustomer(r) ==
  /\ pc[r] = "writeCustomer" /\ job[r].op # "deleteCustomer"
  /\ LET c == job[r].cust
         was == IF job[r].op = "addCustomer" THEN {} ELSE seen[r].bills
     IN
     /\ Free(r, {<<"cust", c>>}, "share")
     /\ \/ job[r].op = "saveCustomer" /\ c \notin Known /\ Refuse(r)
        \/ /\ c \in Known <=> job[r].op = "saveCustomer"
           /\ Hold(r, {<<"cust", c>>}, IF c \in Known THEN "share" ELSE "update")
           /\ Write(r, [txn[r] EXCEPT
                !.cust = {[out |-> was \ job[r].bills, in |-> job[r].bills \ was]},
                !.queue = was \ job[r].bills])
           /\ Goto(r, "commit")
           /\ UNCHANGED seen /\ Database

\* The rows that were loaded go, and by the foreign key those added since.
DeleteCustomer(r) ==
  /\ pc[r] = "writeCustomer" /\ job[r].op = "deleteCustomer"
  /\ LET on == {<<"cust", job[r].cust>>} \cup {<<"row", i>> : i \in OfCustomer(job[r].cust)} IN
     /\ Free(r, on, "update") /\ Hold(r, on, "update")
     /\ Write(r, [txn[r] EXCEPT !.cust = {None}, !.queue = seen[r].bills \cup seen[r].rows])
     /\ Goto(r, "commit")
     /\ UNCHANGED seen /\ Database
-----------------------------------------------------------------------------
(***************************************************************************)
(* The end of a request                                                    *)
(***************************************************************************)
Deleted(r, what) == None \in txn[r][what]

\* What each table holds once r is committed, foreign keys included.
EntriesAfter(r) ==
  [e \in EntryIds |->
     IF txn[r].entry # {} /\ e = job[r].entry THEN CHOOSE x \in txn[r].entry : TRUE
     ELSE IF entries[e] = None \/ ~Deleted(r, "cust") THEN entries[e]
     ELSE [entries[e] EXCEPT !.lines =
            [i \in DOMAIN @ |-> IF @[i].who = job[r].cust THEN [@[i] EXCEPT !.who = None] ELSE @[i]]]]

LedgerAfter(r) ==
  [i \in RowIds |->
     IF i \in DOMAIN txn[r].new THEN txn[r].new[i]
     ELSE IF i \in txn[r].gone \/ ledger[i] = None THEN None
     ELSE IF Deleted(r, "cust") /\ ledger[i].cust = job[r].cust THEN None
     ELSE IF Deleted(r, "entry") /\ ledger[i].src = job[r].entry THEN [ledger[i] EXCEPT !.src = None]
     ELSE IF \E b \in txn[r].bill : b.row = i
          THEN [ledger[i] EXCEPT !.bill = (CHOOSE b \in txn[r].bill : TRUE).key]
     ELSE ledger[i]]

CustsAfter(r) ==
  [c \in Customers |->
     IF txn[r].cust = {} \/ c # job[r].cust THEN custs[c]
     ELSE IF Deleted(r, "cust") THEN None
     ELSE LET new == CHOOSE x \in txn[r].cust : TRUE
              was == IF custs[c] = None THEN {} ELSE custs[c]
          IN  (was \ new.out) \cup new.in]

\* A row that was to go has gone although it has lost its source since.
Undone(r, d) == \E u \in txn[r].undue : d \in {u, [u EXCEPT !.src = None]}

DuesAfter(r) ==
  LET left == {d \in dues : ~Undone(r, d)} \cup txn[r].due IN
  IF ~Deleted(r, "entry") THEN left
  ELSE {IF d.src = job[r].entry THEN [d EXCEPT !.src = None] ELSE d : d \in left}

Commit(r) ==
  /\ pc[r] = "commit"
  /\ entries' = EntriesAfter(r)
  /\ ledger' = LedgerAfter(r)
  /\ custs' = CustsAfter(r)
  /\ dues' = DuesAfter(r)
  /\ checkpoints' = checkpoints \ txn[r].log
  /\ pc' = [pc EXCEPT ![r] = "cleanup"]
  /\ holds' = [holds EXCEPT ![r] = {}]
  /\ job' = [job EXCEPT ![r] = None]
  /\ seen' = [seen EXCEPT ![r] = None]
  /\ txn' = [txn EXCEPT ![r] = [NothingWritten EXCEPT !.queue = txn[r].queue]]
  /\ UNCHANGED <<files, kind, young>>

\* delete_object of each queued key, with the commit confirmed; one that fails is logged.
CleanUp(r) ==
  /\ pc[r] = "cleanup"
  /\ \E left \in SUBSET txn[r].queue : files' = files \ (txn[r].queue \ left)
  /\ End(r, "done")
  /\ UNCHANGED young

\* get_db rolls back; the queue goes with the session.
Abort(r) == Running(r) /\ Refuse(r)

\* The process stops: every open transaction is rolled back, and what was queued by a
\* committed one is forgotten.
Restart ==
  LET hit == {r \in Req : Running(r) \/ pc[r] = "cleanup"} IN
  /\ hit # {}
  /\ pc' = [r \in Req |-> IF r \in hit THEN "failed" ELSE pc[r]]
  /\ job' = [r \in Req |-> None]
  /\ seen' = [r \in Req |-> None]
  /\ txn' = [r \in Req |-> NothingWritten]
  /\ holds' = [r \in Req |-> {}]
  /\ young' = {r \in young : pc[r] \in {"cleanup", "done"}}
  /\ UNCHANGED <<committed, files, kind>>

\* Ten seconds have passed since r began; only adding looks at it.
Age(r) ==
  /\ r \in young /\ \E q \in Req : kind[q] = "add"
  /\ young' = young \ {r}
  /\ UNCHANGED <<committed, files, kind, pc, job, seen, txn, holds>>

\* FuelStockLogService: a checkpoint is put in or revised, or taken out by hand.
ByHand(r, now) ==
  /\ pc[r] = "idle"
  /\ checkpoints' = now
  /\ Goto(r, "done")
  /\ UNCHANGED <<entries, custs, ledger, dues, files, seen, txn, holds, young>>

SaveCheckpoint(r, s) ==
  /\ kind[r] = "saveCheckpoint"
  /\ "delete" \in Avoid =>
       \A q \in Req : ~(job[q] # None /\ job[q].op = "deleteEntry" /\ job[q].scope = s)
  /\ ByHand(r, checkpoints \cup {s})

DeleteCheckpoint(r, s) ==
  kind[r] = "deleteCheckpoint" /\ s \in checkpoints /\ ByHand(r, checkpoints \ {s})

Next ==
  \/ \E r \in Req :
       \/ Upload(r) \/ DeleteUpload(r) \/ Send(r)
       \/ LoadForSave(r) \/ LoadForDelete(r) \/ ReadRows(r) \/ DropRows(r)
       \/ CheckCustomers(r) \/ Post(r) \/ DropEntry(r) \/ CountScope(r)
       \/ LoadRow(r) \/ WriteBill(r) \/ DeleteRow(r)
       \/ LockCustomer(r) \/ CheckTwin(r) \/ InsertRow(r)
       \/ LoadCustomer(r) \/ WriteCustomer(r) \/ DeleteCustomer(r)
       \/ Commit(r) \/ CleanUp(r) \/ Abort(r) \/ Age(r)
       \/ \E s \in Scopes : SaveCheckpoint(r, s) \/ DeleteCheckpoint(r, s)
  \/ Restart

Spec == Init /\ [][Next]_vars
-----------------------------------------------------------------------------
(***************************************************************************)
(* Properties                                                              *)
(***************************************************************************)
\* Every row has its shape; in particular what an employee owes or is owed is no negative
\* amount, and a charge is for something.
TypeOK ==
  /\ entries \in [EntryIds -> Entry \cup {None}]
  /\ custs \in [Customers -> (SUBSET Keys) \cup {None}]
  /\ ledger \in [RowIds -> Charge \cup {None}]
  /\ dues \subseteq Due
  /\ checkpoints \subseteq Scopes
  /\ files \subseteq Keys

\* Every photo that a row names is in storage: an entry's bills, a customer's documents,
\* the bill of a charge.
NamedFilesExist == Named \subseteq files

\* The rows an entry has made, and the charges of one amount to one customer: those made,
\* and those its lines ask for.
MadeBy(rows, e) == {i \in RowIds : rows[i] # None /\ rows[i].src = e}
Charging(rows, e, c, n) == {i \in MadeBy(rows, e) : rows[i].cust = c /\ rows[i].amount = n}
Owing(x, c, n) == {i \in ChargeLines(x) : x.final /\ x.lines[i].who = c /\ x.lines[i].amount = n}

ChargesMatch(es, rows) ==
  \A e \in {x \in EntryIds : es[x] # None}, c \in Customers :
    \A n \in {rows[i].amount : i \in MadeBy(rows, e)} \cup {es[e].lines[i].amount : i \in DOMAIN es[e].lines} :
      Cardinality(Charging(rows, e, c, n)) = Cardinality(Owing(es[e], c, n))

\* What a row on record gives its worker, and the two figures the screen shows of an entry.
Given(d) == IF d.type = "credit" THEN -d.amount ELSE d.amount
AdvancesShown(x) == {<<i, x.lines[i].who, x.lines[i].amount>> : i \in AdvanceLines(x)}

\* To the nearest hundredth, and no shortage as an excess.
Records(d, x) ==
  LET shown == ExcessShortage(x) IN
  /\ d.worker = x.worker
  /\ 2 * (Given(d) * Unit - shown) \in -Unit .. Unit
  /\ d.type = IF shown < 0 THEN "credit" ELSE "excess"

Settles(of, x) ==
  LET variance == {d \in of : d.n = 0} IN
  /\ x.final => /\ IF ExcessShortage(x) = 0 THEN variance = {}
                   ELSE \E d \in variance : variance = {d} /\ Records(d, x)
                /\ {<<d.n, d.worker, d.amount>> : d \in of \ variance} = AdvancesShown(x)
  /\ ~x.final => of = {}

DuesMatch(es, owed) ==
  \A e \in {x \in EntryIds : es[x] # None} : Settles({d \in owed : d.src = e}, es[e])

ASSUME DatabasesMatch ==
  \A d \in Databases : ChargesMatch(d.entries, d.ledger) /\ DuesMatch(d.entries, d.dues)

\* What customers owe for final entries is in their ledgers exactly once per credit line
\* (_remove_credit_ledger_by_source, _apply_credit_ledger), and drafts charge nobody.
ChargesMatchEntries == ChargesMatch(entries, ledger)

\* The shortage or excess on the screen (_serialize) is, to the nearest hundredth, what the
\* worker of a final entry owes or is owed on record (_apply_shift_variance_credit), in one
\* row, and his advances are there; a draft leaves nothing owing.
DuesMatchShown == DuesMatch(entries, dues)

\* One payment or sale that two people enter within ten seconds is recorded once
\* (add_ledger_entry's check under the customer's lock).
NoRecentTwins ==
  \A i, j \in {k \in Rows : k[1] \in young /\ kind[k[1]] = "add"} :
    (ledger[i].cust = ledger[j].cust /\ ledger[i].type = ledger[j].type
       /\ ledger[i].amount = ledger[j].amount) => i = j

\* A charge made by an entry only goes away by a save or the deletion of that entry,
\* never with its customer or by hand.
SourcedChargesStay ==
  [][\A i \in Rows :
       ledger[i].src # None /\ ledger'[i] = None =>
         \E r \in Req : /\ pc[r] = "commit"
                        /\ job[r].op \in {"save", "deleteEntry"}
                        /\ job[r].entry = ledger[i].src]_vars

\* A bill attached to a charge survives every save of its entry that leaves the customer
\* as many charges as there were bills.
BillsSurvive ==
  [][\A r \in Req : pc[r] = "commit" /\ job[r].op = "save" /\ pc'[r] = "cleanup" =>
       \A c \in Customers :
         LET of(l) == {i \in MadeBy(l, job[r].entry) : l[i].cust = c}
             old == {ledger[i].bill : i \in of(ledger)} \ {None}
         IN  Cardinality(of(ledger')) >= Cardinality(old) =>
               old \subseteq {ledger'[i].bill : i \in of(ledger')}]_vars

InScope(es, s) == {e \in EntryIds : es[e] # None /\ es[e].scope = s}

\* When the last entry of a scope is deleted its checkpoint goes with it, and no deletion
\* of another entry takes it (count_for_date_scope in delete).
CheckpointsFollowEntries ==
  [][\A s \in Scopes :
       /\ (\E e \in InScope(entries, s) : entries'[e] = None) /\ InScope(entries', s) = {} =>
            s \notin checkpoints'
       /\ entries' # entries /\ s \in checkpoints \ checkpoints' => InScope(entries', s) = {}]_vars

\* A scope that loses its last entry, in whatever way, loses its checkpoint.
NoCheckpointOrphaned ==
  [][\A s \in Scopes :
       InScope(entries, s) # {} /\ InScope(entries', s) = {} => s \notin checkpoints']_vars

\* The figure on record is the very figure the screen shows.
VarianceIsShown ==
  \A d \in dues : d.n = 0 /\ d.src # None => Given(d) * Unit = ExcessShortage(entries[d.src])

\* Photos and the rows that name them behave like the abstract store: nothing is named
\* before it is stored, nothing is deleted while it is named.  It takes clients that keep
\* clear of every overlap, name what they have just been shown and remove only their own.
ClientsTakeCare ==
  Avoid = {"attach", "customer", "delete", "forms"} /\ Stale = {} /\ Removable = {}
Store == INSTANCE BillStore WITH named <- Named, stored <- files
ImplementsBillStore == Store!Spec
=============================================================================
