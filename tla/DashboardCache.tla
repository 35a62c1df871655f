--------------------------- MODULE DashboardCache ---------------------------
(***************************************************************************)
(* The dashboard's monthly summary, its in-process cache, and the writes   *)
(* that invalidate it: fuel entries, expense days, commission rates.       *)
(*                                                                         *)
(* A miss reads three tables one after the other, computes and stores; a   *)
(* write invalidates the months it believes it touches and only then is    *)
(* committed, by get_db.  Every await between these is a step boundary.    *)
(*                                                                         *)
(* A day is a number; every month has DaysPerMonth of them.  Time is not   *)
(* counted: a cached value may expire at any moment.  The check for a      *)
(* closed month can only refuse a write, which is an Abort here.           *)
(***************************************************************************)
EXTENDS Integers, FiniteSets, FiniteSetsExt

CONSTANTS
  Req,           \* the HTTP requests that may arrive
  OldRows,       \* ids of the rows that may exist before any of them
  LastMonth,     \* the months are 1 .. LastMonth
  DaysPerMonth,
  Amounts,       \* litres of an entry, amount of an expense, rate per litre
  None,          \* "no row", "not cached"
  Bodies,        \* the rows a client may ask for
  Databases,     \* what may be on record before the requests arrive
  Loads          \* which kinds of request arrive together: functions of Req

Months == 1 .. LastMonth
Days == 1 .. LastMonth * DaysPerMonth
MonthOf(d) == (d - 1) \div DaysPerMonth + 1
LastDay(m) == m * DaysPerMonth

RowIds == OldRows \cup Req
Tables == {"entry", "expense", "rate"}

\* What a client sends, and a row: the litres of an entry and the amounts of an expense
\* day are rows of their own, written anew at every save by some request.
Body == [what : Tables, day : Days, n : Amounts, final : BOOLEAN]
Row  == [what : Tables, day : Days, items : SUBSET [by : RowIds, n : Amounts], final : BOOLEAN]
Kinds == {"add", "change", "remove", "show", "none"}

ASSUME CalendarIsNat == LastMonth \in Nat \ {0} /\ DaysPerMonth \in Nat \ {0}

ASSUME InputsTyped ==
  /\ Amounts \subseteq Nat
  /\ Bodies \subseteq Body
  /\ Databases \subseteq [RowIds -> Row \cup {None}]
  /\ \A d \in Databases, r \in Req : d[r] = None
  /\ Loads \subseteq [Req -> Kinds]

\* A table has finitely many rows, so that amounts can be summed.
ASSUME RowsAreFinite == IsFiniteSet(RowIds) /\ IsFiniteSet(Amounts)

\* The unique constraints hold before any request arrives.
ASSUME DaysAreUnique ==
  \A d \in Databases : \A i, j \in RowIds :
    i # j /\ d[i] # None /\ d[j] # None /\ d[i].what # "entry"
    => <<d[i].what, d[i].day>> # <<d[j].what, d[j].day>>

\* What a request carries: an amount it loaded is a sum of such as clients send.
WriteBody == [what : Tables, day : Days, n : Nat, final : BOOLEAN]

Figure == [litres : Int, profit : Int, rated : BOOLEAN]

ASSUME NoneIsNoValue == None \notin Row \cup WriteBody \cup Figure

VARIABLES
  rows,       \* committed: Fuel_Entries, Expense_Days, Commission_Rate_History
  cache,      \* dashboard_cache, by month
  \* one per request
  kind,       \* what it asks for
  pc,         \* the statement it is at
  job,        \* the row or month it is about, and the row it was sent
  old,        \* the row as it loaded it
  got,        \* what a summary has read so far, by table
  holds,      \* FOR UPDATE locks on entries
  \* history
  disturbed,  \* requests for a summary that ran while a write ran
  clean       \* months whose cached value was stored by one that did not

private == <<kind, pc, job, old, got, holds>>
history == <<disturbed, clean>>
vars    == <<rows, cache, private, history>>

Running(r) == pc[r] \notin {"idle", "done", "failed"}
Writes(r) == kind[r] \in {"add", "change", "remove"}
-----------------------------------------------------------------------------
(***************************************************************************)
(* The summary                                                             *)
(***************************************************************************)
Of(what) == [i \in RowIds |-> IF rows[i] # None /\ rows[i].what = what THEN rows[i] ELSE None]

InMonth(table, m) == {i \in RowIds : table[i] # None /\ MonthOf(table[i].day) = m}

Amount(x) == MapThenSumSet(LAMBDA t : t.n, x.items)

\* _rate_for_date: the latest rate effective on or before d.
RateAt(rates, d) ==
  LET sofar == {i \in RowIds : rates[i] # None /\ rates[i].day <= d} IN
  IF sofar = {} THEN None
  ELSE Amount(rates[CHOOSE i \in sofar : \A j \in sofar : rates[j].day <= rates[i].day])

Commission(x, rates) ==
  LET rate == RateAt(rates, x.day) IN IF rate = None THEN 0 ELSE Amount(x) * rate

Summary(entries, expenses, rates, m) ==
  LET final == {i \in InMonth(entries, m) : entries[i].final}
      spent == MapThenSumSet(LAMBDA i : Amount(expenses[i]), InMonth(expenses, m))
      earned == MapThenSumSet(LAMBDA i : Commission(entries[i], rates), final)
  IN  [litres |-> MapThenSumSet(LAMBDA i : Amount(entries[i]), final),
       profit |-> earned - spent,
       rated |-> RateAt(rates, LastDay(m)) # None]

\* What the dashboard should show for m.
Figures(m) == Summary(Of("entry"), Of("expense"), Of("rate"), m)
-----------------------------------------------------------------------------
Init ==
  /\ rows \in Databases
  /\ cache = [m \in Months |-> None]
  /\ kind \in Loads
  /\ pc = [r \in Req |-> "idle"]
  /\ job = [r \in Req |-> None]
  /\ old = [r \in Req |-> None]
  /\ got = [r \in Req |-> [what \in {} |-> None]]
  /\ holds = [r \in Req |-> {}]
  /\ disturbed = {}
  /\ clean = {}

Goto(r, at) == pc' = [pc EXCEPT ![r] = at] /\ UNCHANGED kind

\* The session is closed and its locks are gone.
End(r, outcome) ==
  /\ Goto(r, outcome)
  /\ job' = [job EXCEPT ![r] = None]
  /\ old' = [old EXCEPT ![r] = None]
  /\ got' = [got EXCEPT ![r] = [what \in {} |-> None]]
  /\ holds' = [holds EXCEPT ![r] = {}]
  /\ disturbed' = disturbed \ {r}

Reject(r) == End(r, "failed") /\ UNCHANGED <<rows, cache, clean>>

MayHold(r, i) == \A q \in Req \ {r} : i \notin holds[q]
-----------------------------------------------------------------------------
(***************************************************************************)
(* GET /dashboard/summary                                                  *)
(***************************************************************************)
\* A hit answers at once.
Show(r) ==
  /\ pc[r] = "idle"
  /\ kind[r] = "show"
  /\ \E m \in Months :
       \/ /\ cache[m] # None
          /\ End(r, "done")
          /\ UNCHANGED <<rows, cache, clean>>
       \/ /\ cache[m] = None
          /\ Goto(r, "entries")
          /\ job' = [job EXCEPT ![r] = [id |-> m, body |-> None]]
          /\ disturbed' = IF \E q \in Req : Running(q) /\ Writes(q)
                          THEN disturbed \cup {r} ELSE disturbed
          /\ UNCHANGED <<rows, cache, old, got, holds, clean>>

ReadTable(r, what) ==
  /\ got' = [got EXCEPT ![r] = [t \in DOMAIN got[r] \cup {what} |->
                                  IF t = what THEN Of(what) ELSE got[r][t]]]
  /\ UNCHANGED <<rows, cache, job, old, holds, history>>

\* list_final_in_range
ReadEntries(r) == pc[r] = "entries" /\ Goto(r, "expenses") /\ ReadTable(r, "entry")

\* list_with_items_in_range
ReadExpenses(r) == pc[r] = "expenses" /\ Goto(r, "rates") /\ ReadTable(r, "expense")

\* list_all_ascending; then, with no await, the computation and dashboard_cache.set.
ReadRatesAndStore(r) ==
  /\ pc[r] = "rates"
  /\ LET m == job[r].id IN
     /\ cache' = [cache EXCEPT ![m] = Summary(got[r]["entry"], got[r]["expense"], Of("rate"), m)]
     /\ clean' = IF r \in disturbed THEN clean \ {m} ELSE clean \cup {m}
     /\ End(r, "done")
     /\ UNCHANGED rows
-----------------------------------------------------------------------------
(***************************************************************************)
(* Writes                                                                  *)
(***************************************************************************)
\* delete() of an entry and delete_expense_day invalidate before they delete.
InvalidatesFirst(r) == kind[r] = "remove" /\ job[r].body.what # "rate"

Start(r, k, id, w, at) ==
  /\ pc[r] = "idle"
  /\ kind[r] = k
  /\ Goto(r, at)
  /\ job' = [job EXCEPT ![r] = [id |-> id, body |-> w]]
  /\ disturbed' = disturbed \cup {q \in Req : kind[q] = "show" /\ Running(q)}
  /\ UNCHANGED <<rows, cache, got, clean>>

\* Mutation of DayTaken: no unique constraint.
NeverTaken(w, i) == FALSE

\* Expense days and rates have one row per day.
DayTaken(w, i) ==
  /\ w.what # "entry"
  /\ \E j \in RowIds \ {i} : rows[j] # None /\ rows[j].what = w.what /\ rows[j].day = w.day

\* FuelEntryService.create, create_expense_day, and create_or_revise of a new rate.
Add(r) ==
  /\ \E w \in Bodies : ~DayTaken(w, r) /\ Start(r, "add", r, w, "flush")
  /\ UNCHANGED <<old, holds>>

\* FuelEntryService.update (the entry locked as it is read), update_expense_day, and
\* create_or_revise of a rate that is on record for that day.
Change(r) ==
  \E i \in RowIds, w \in Bodies :
    /\ rows[i] # None
    /\ w.what = rows[i].what
    /\ w.what = "rate" => w.day = rows[i].day
    /\ ~DayTaken(w, i)
    /\ w.what = "entry" => MayHold(r, i)
    /\ Start(r, "change", i, w, "flush")
    /\ old' = [old EXCEPT ![r] = rows[i]]
    /\ holds' = [holds EXCEPT ![r] = IF w.what = "entry" THEN {i} ELSE {}]

Sent(x) == [what |-> x.what, day |-> x.day, n |-> Amount(x), final |-> x.final]

\* FuelEntryService.delete, delete_expense_day, CommissionRateService.delete.
Remove(r) ==
  \E i \in RowIds :
    /\ rows[i] # None
    /\ Start(r, "remove", i, Sent(rows[i]), IF rows[i].what = "rate" THEN "flush" ELSE "invalidate")
    /\ old' = [old EXCEPT ![r] = rows[i]]
    /\ UNCHANGED holds

\* The unique keys a request's statement has written but not committed.
Keys(r) == IF job[r].body.what = "entry" THEN {}
           ELSE {<<x.what, x.day>> : x \in {job[r].body, old[r]} \ {None}}
MayUseKeys(r) == \A q \in Req \ {r} : holds[q] # {} => Keys(q) \cap Keys(r) = {}

\* The INSERT, UPDATE or DELETE: it waits for a row or a key another transaction has
\* written; an UPDATE of a row that is gone fails, a DELETE of it is only a warning.
Flush(r) ==
  /\ pc[r] = "flush"
  /\ MayHold(r, job[r].id)
  /\ MayUseKeys(r)
  /\ LET i == job[r].id
         gone == kind[r] = "change" /\ rows[i] = None
         taken == kind[r] # "remove" /\ DayTaken(job[r].body, i)
     IN  \/ /\ gone \/ taken
            /\ Reject(r)
         \/ /\ ~gone /\ ~taken
            /\ Goto(r, IF InvalidatesFirst(r) THEN "commit" ELSE "invalidate")
            /\ holds' = [holds EXCEPT ![r] = {i}]
            /\ UNCHANGED <<rows, cache, job, old, got, history>>

\* Mutation of MonthsTouched: an entry or an expense is moved, the month it leaves is not.
NewMonthOnly(was, w) ==
  IF w.what = "rate" THEN {m \in Months : m >= MonthOf(w.day)} ELSE {MonthOf(w.day)}

\* invalidate_dashboard_month of the day it had and of the day it gets, or
\* invalidate_dashboard_from_month: a rate counts in every later month.
MonthsTouched(was, w) ==
  IF w.what = "rate"
  THEN {m \in Months : m >= MonthOf(w.day)}
  ELSE {MonthOf(w.day)} \cup (IF was = None THEN {} ELSE {MonthOf(was.day)})

Invalidate(r) ==
  /\ pc[r] = "invalidate"
  /\ LET gone == MonthsTouched(old[r], job[r].body) IN
     /\ cache' = [m \in Months |-> IF m \in gone THEN None ELSE cache[m]]
     /\ clean' = clean \ gone
  /\ Goto(r, IF InvalidatesFirst(r) THEN "flush" ELSE "commit")
  /\ UNCHANGED <<rows, job, old, got, holds, disturbed>>

NewRow(r, w) == [what |-> w.what, day |-> w.day, final |-> w.final,
                 items |-> {[by |-> r, n |-> w.n]}]

\* The items that were loaded are deleted and the new ones inserted: items another request
\* has written since stay beside them.  Of the row itself, and of a rate, only the columns
\* that differ from what was loaded are written.
Merged(r, now, was, w) ==
  LET new == NewRow(r, w) IN
  [now EXCEPT !.day = IF w.day = was.day THEN @ ELSE w.day,
              !.final = IF w.final = was.final THEN @ ELSE w.final,
              !.items = IF w.what # "rate" THEN (@ \ was.items) \cup new.items
                        ELSE IF w.n = Amount(was) THEN @ ELSE new.items]

\* The commit of get_db makes the write visible.
Commit(r) ==
  /\ pc[r] = "commit"
  /\ LET i == job[r].id
         w == job[r].body
     IN rows' = [rows EXCEPT ![i] = CASE kind[r] = "add" -> NewRow(r, w)
                                      [] kind[r] = "change" -> Merged(r, @, old[r], w)
                                      [] kind[r] = "remove" -> None]
  /\ End(r, "done")
  /\ UNCHANGED <<cache, clean>>

\* A lost connection, or an exception from a part that is not modelled here.
Abort(r) == Running(r) /\ Reject(r)

\* TTLCache.get drops what is older than its ttl.
Expire(m) ==
  /\ cache[m] # None
  /\ cache' = [cache EXCEPT ![m] = None]
  /\ clean' = clean \ {m}
  /\ UNCHANGED <<rows, private, disturbed>>

\* The process restarts: every request under way is cut off, the cache is empty.
Restart ==
  /\ \E r \in Req : Running(r)
  /\ pc' = [r \in Req |-> IF Running(r) THEN "failed" ELSE pc[r]]
  /\ cache' = [m \in Months |-> None]
  /\ job' = [r \in Req |-> None]
  /\ old' = [r \in Req |-> None]
  /\ got' = [r \in Req |-> [what \in {} |-> None]]
  /\ holds' = [r \in Req |-> {}]
  /\ disturbed' = {}
  /\ clean' = {}
  /\ UNCHANGED <<rows, kind>>

Quiet == (\A r \in Req : ~Running(r)) /\ UNCHANGED vars

Next ==
  \/ \E r \in Req :
       \/ Show(r) \/ ReadEntries(r) \/ ReadExpenses(r) \/ ReadRatesAndStore(r)
       \/ Add(r) \/ Change(r) \/ Remove(r) \/ Flush(r) \/ Invalidate(r) \/ Commit(r)
       \/ Abort(r)
  \/ \E m \in Months : Expire(m)
  \/ Restart
  \/ Quiet

Spec == Init /\ [][Next]_vars
-----------------------------------------------------------------------------
(***************************************************************************)
(* Properties                                                              *)
(***************************************************************************)
\* The shape of the tables, with their unique days, of the cache and of every request's private state.
TypeOK ==
  /\ rows \in [RowIds -> Row \cup {None}]
  /\ \A i, j \in RowIds :
       i # j /\ rows[i] # None /\ rows[j] # None /\ rows[i].what # "entry"
       => <<rows[i].what, rows[i].day>> # <<rows[j].what, rows[j].day>>
  /\ cache \in [Months -> Figure \cup {None}]
  /\ kind \in [Req -> Kinds]
  /\ pc \in [Req -> {"idle", "entries", "expenses", "rates", "flush", "invalidate",
                     "commit", "done", "failed"}]
  /\ job \in [Req -> [id : RowIds \cup Months, body : WriteBody \cup {None}] \cup {None}]
  /\ old \in [Req -> Row \cup {None}]
  /\ holds \in [Req -> SUBSET RowIds]
  /\ DOMAIN got = Req
  /\ \A r \in Req : /\ DOMAIN got[r] \subseteq {"entry", "expense"}
                   /\ got[r] \in [DOMAIN got[r] -> [RowIds -> Row \cup {None}]]
  /\ disturbed \subseteq Req
  /\ clean \subseteq {m \in Months : cache[m] # None}

(***************************************************************************)
(* A summary that was computed while nothing was being written is right    *)
(* for as long as it is cached: whatever is written later, to whatever day *)
(* and from whatever day, reaches the cache before it is committed.        *)
(***************************************************************************)
CleanFiguresAreRight == \A m \in clean : cache[m] = Figures(m)

(***************************************************************************)
(* What cache.py and create_or_revise say: a write is on the dashboard     *)
(* once it is saved.  A summary that read before the commit and is stored  *)
(* after the invalidation breaks this: nothing invalidates it again.       *)
(***************************************************************************)
NothingStaleAtRest ==
  (\A r \in Req : ~Running(r)) => \A m \in Months : cache[m] # None => cache[m] = Figures(m)

(***************************************************************************)
(* What update_expense_day's comment says: a save replaces the whole item  *)
(* list, so a day holds the items of one save.  Two saves that have both   *)
(* loaded the old items each delete those and insert their own.            *)
(***************************************************************************)
SavesReplaceAll ==
  \A i \in RowIds :
    rows[i] # None /\ rows[i].what = "expense" => Cardinality({t.by : t \in rows[i].items}) <= 1
=============================================================================
