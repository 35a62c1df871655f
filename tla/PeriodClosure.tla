---------------------------- MODULE PeriodClosure ----------------------------
(***************************************************************************)
(* Closing a payroll month, and every request that asks whether a month is *)
(* closed before it writes: salary revisions, employee credits, payments,  *)
(* attendance, expense days, commission rates, final fuel entries, and     *)
(* deleting an employee with all of these.                                 *)
(*                                                                         *)
(* The check is a plain SELECT of the closure row, made some awaits before *)
(* the write.  close_period and reopen_period lock the closure row; the    *)
(* check does not.  So a step here is one read that another request can    *)
(* make stale, and the flush with the commit that follows it is one step:  *)
(* nothing is read in between, and a flush is invisible until the commit.  *)
(***************************************************************************)
EXTENDS Integers, FiniteSets

CONSTANTS
  Req,        \* the HTTP requests that may arrive
  Staff,      \* employees that exist before any of them
  OldRows,    \* ids of the payroll rows that may exist before
  Months,     \* (period_year, period_month), as numbers in their order
  Days,       \* of a month
  Values,     \* amounts, rates, statuses: whatever else a row says
  None,       \* SQL NULL, "no row"
  Bodies,     \* the rows a client may ask for
  Databases,  \* what may be on record before the requests arrive
  Loads       \* which kinds of request arrive together: functions of Req

Dates == Months \X Days
MonthOf(d) == d[1]

\* A uuid4 is fresh: a request that creates an employee or a row names it.
Emps == Staff \cup Req
RowIds == OldRows \cup Req

(***************************************************************************)
(* One kind of row per table.  A credit or a payment counts in its own     *)
(* month; a revision or a rate is in force from its date until superseded, *)
(* so it counts in every later month as well.  An "entry" is a fuel entry  *)
(* together with the employee credit it makes once it is final; nothing    *)
(* else can be a draft.  Expenses and rates are the station's.             *)
(***************************************************************************)
OfMonth == {"credit", "payment", "attendance", "expense", "entry"}
Onward == {"revision", "rate"}
Row == {x \in [what : OfMonth \cup Onward, emp : Emps \cup {None}, date : Dates,
               value : Values, final : BOOLEAN] :
          /\ x.what # "entry" => x.final
          /\ x.what \in {"expense", "rate"} => x.emp = None}

Kinds == {"add", "change", "remove", "hire", "dismiss", "close", "reopen", "none"}
Statuses == {"never", "open", "closed"}   \* "never": no closure row

ASSUME MonthsAreOrdered == Months \subseteq Int

ASSUME NoneIsNoRow == None \notin Row /\ None \notin Emps

\* The locks of rows and of closures are locks of different tables.
ASSUME RowsAreNotMonths == RowIds \cap Months = {}

ASSUME InputsTyped ==
  /\ Bodies \subseteq Row
  /\ Loads \subseteq [Req -> Kinds]
  /\ \A d \in Databases :
       /\ d.closure \in [Months -> Statuses]
       /\ d.hired \subseteq Staff
       /\ d.rows \in [RowIds -> Row \cup {None}]
       /\ \A r \in Req : d.rows[r] = None
       /\ \A i \in RowIds : d.rows[i] # None => d.rows[i].emp \in d.hired \cup {None}

VARIABLES
  \* committed
  closure,  \* Salary_Period_Closures.status
  hired,    \* Employees
  rows,     \* the payroll rows
  \* one per request
  kind,     \* what it asks for
  pc,       \* the statement it is at
  job,      \* the employee, row or month it is about, and the row it was sent
  old,      \* the rows its session has loaded
  todo,     \* months it has yet to look at
  holds,    \* the FOR UPDATE row locks it holds, on entries and on closures
  \* history
  settled   \* months closed since before the last moment when nothing ran

committed == <<closure, hired, rows>>
private   == <<kind, pc, job, old, todo, holds>>
vars      == <<committed, private, settled>>

Running(r) == pc[r] \notin {"idle", "done", "failed"}
Closed(m) == closure[m] = "closed"

Affects(x, m) ==
  /\ x # None
  /\ x.final
  /\ IF x.what \in Onward THEN MonthOf(x.date) <= m ELSE MonthOf(x.date) = m

\* Everything month m's figures are calculated from.
Books(rs, m) == [i \in RowIds |-> IF Affects(rs[i], m) THEN rs[i] ELSE None]

NoRows == [i \in RowIds |-> None]
Only(i) == [NoRows EXCEPT ![i] = rows[i]]
Entries == {i \in RowIds : rows[i] # None /\ rows[i].what = "entry"}
RowsOf(e, what) == {i \in RowIds : rows[i] # None /\ rows[i].emp = e /\ rows[i].what \in what}

Init ==
  /\ \E d \in Databases : closure = d.closure /\ hired = d.hired /\ rows = d.rows
  /\ kind \in Loads
  /\ pc = [r \in Req |-> "idle"]
  /\ job = [r \in Req |-> None]
  /\ old = [r \in Req |-> NoRows]
  /\ todo = [r \in Req |-> {}]
  /\ holds = [r \in Req |-> {}]
  /\ settled = {m \in Months : Closed(m)}
-----------------------------------------------------------------------------
(***************************************************************************)
(* Requests arrive, with the first thing they read                         *)
(***************************************************************************)
Begin(r, k, at, j, loaded, months) ==
  /\ pc[r] = "idle"
  /\ kind[r] = k
  /\ pc' = [pc EXCEPT ![r] = at]
  /\ job' = [job EXCEPT ![r] = j]
  /\ old' = [old EXCEPT ![r] = loaded]
  /\ todo' = [todo EXCEPT ![r] = months]
  /\ UNCHANGED <<committed, kind, holds, settled>>

\* Months whose closure a row has to be checked against.
MonthsOf(x) == IF x.final THEN {MonthOf(x.date)} ELSE {}

Guard(x) == IF x.what \in Onward THEN "ripple" ELSE "ensure"

\* add_credit, add_payment, mark_attendance, create_expense_day, FuelEntryService.create,
\* add_salary_revision (which has loaded the employee's history), create_or_revise.
AddRow(r) ==
  \E w \in Bodies :
    LET history == IF w.what = "revision" THEN RowsOf(w.emp, {"revision"}) ELSE {} IN
    /\ w.emp \in hired \cup {None}
    /\ Begin(r, "add", Guard(w), [id |-> r, body |-> w],
             [i \in RowIds |-> IF i \in history THEN rows[i] ELSE None], MonthsOf(w))

\* Mutation of MonthsToCheck: only where the row goes, not where it was.
NewMonthOnly(was, w) == MonthsOf(w)

MonthsToCheck(was, w) == MonthsOf(was) \cup MonthsOf(w)

\* update_credit, update_payment, update_attendance, update_expense_day.
ChangeRow(r) ==
  \E i \in RowIds, w \in Bodies :
    /\ rows[i] # None
    /\ w.what = rows[i].what
    /\ w.what \in OfMonth \ {"entry"}
    /\ w.what = "attendance" => w.date = rows[i].date
    /\ w.emp = rows[i].emp
    /\ Begin(r, "change", "ensure", [id |-> i, body |-> w], Only(i), MonthsToCheck(rows[i], w))

\* FuelEntryService.update reads the entry only once it holds its lock.
ChangeEntry(r) ==
  \E i \in RowIds, w \in Bodies :
    /\ w.what = "entry"
    /\ w.emp \in hired \cup {None}
    /\ Begin(r, "change", "lock", [id |-> i, body |-> w], NoRows, {})

\* delete_credit, delete_payment, delete_attendance, delete_expense_day,
\* FuelEntryService.delete, CommissionRateService.delete.
RemoveRow(r) ==
  \E i \in RowIds :
    /\ rows[i] # None
    /\ rows[i].what # "revision"
    /\ Begin(r, "remove", Guard(rows[i]), [id |-> i, body |-> rows[i]], Only(i), MonthsOf(rows[i]))

\* delete_salary_revision: never the last one of the history it has loaded.
RemoveRevision(r) ==
  \E i \in RowIds :
    /\ rows[i] # None
    /\ rows[i].what = "revision"
    /\ Cardinality(RowsOf(rows[i].emp, {"revision"})) > 1
    /\ Begin(r, "remove", "ripple", [id |-> i, body |-> rows[i]], Only(i), {})

\* create_employee: the starting salary is a revision from the join date on.
Hire(r) ==
  \E w \in Bodies :
    /\ w.what = "revision"
    /\ Begin(r, "hire", "ripple", [id |-> r, body |-> [w EXCEPT !.emp = r]], NoRows, {})

\* delete_employee: get_employee loads the history, the credits and the payments.
Dismiss(r) ==
  \E e \in hired :
    LET loaded == RowsOf(e, {"revision", "credit", "entry", "payment"}) IN
    Begin(r, "dismiss", "deletable", [id |-> e, body |-> None],
          [i \in RowIds |-> IF i \in loaded THEN rows[i] ELSE None], {})

ClosePeriod(r) ==
  \E m \in Months : Begin(r, "close", "lock", [id |-> m, body |-> None], NoRows, {})

ReopenPeriod(r) ==
  \E m \in Months : Begin(r, "reopen", "lock", [id |-> m, body |-> None], NoRows, {})
-----------------------------------------------------------------------------
(***************************************************************************)
(* The end of a request                                                    *)
(***************************************************************************)
\* The session is closed.  If it was the last one, every month that is closed now settles.
End(r, outcome) ==
  /\ pc' = [pc EXCEPT ![r] = outcome]
  /\ job' = [job EXCEPT ![r] = None]
  /\ old' = [old EXCEPT ![r] = NoRows]
  /\ todo' = [todo EXCEPT ![r] = {}]
  /\ holds' = [holds EXCEPT ![r] = {}]
  /\ settled' = {m \in Months : /\ closure'[m] = "closed"
                                /\ m \in settled \/ \A q \in Req \ {r} : ~Running(q)}
  /\ UNCHANGED kind

\* ConflictError, NotFoundError, IntegrityError, StaleDataError: get_db rolls back.
Reject(r) == UNCHANGED committed /\ End(r, "failed")

Proceed(r, at, months) ==
  /\ pc' = [pc EXCEPT ![r] = at]
  /\ todo' = [todo EXCEPT ![r] = months]
  /\ UNCHANGED <<committed, kind, job, old, holds, settled>>

\* Mutation of MayHold: the row is read without a lock.
NoLock(r, x) == TRUE

MayHold(r, x) == \A q \in Req \ {r} : x \notin holds[q]
-----------------------------------------------------------------------------
(***************************************************************************)
(* The checks                                                              *)
(***************************************************************************)
\* ensure_period_open, once for each month the change touches.
EnsurePeriodOpen(r) ==
  /\ pc[r] = "ensure"
  /\ \/ todo[r] = {} /\ Proceed(r, "write", {})
     \/ \E m \in todo[r] :
          IF Closed(m) THEN Reject(r) ELSE Proceed(r, "ensure", todo[r] \ {m})

\* Mutation of RippleOpen: a revision is checked like a credit.
OwnMonthOpen(m) == ~Closed(m)

RippleOpen(m) == \A n \in Months : n >= m => ~Closed(n)

\* ensure_no_closed_period_on_or_after
EnsureNoClosedOnOrAfter(r) ==
  /\ pc[r] = "ripple"
  /\ IF RippleOpen(MonthOf(job[r].body.date)) THEN Proceed(r, "write", {}) ELSE Reject(r)

\* ensure_employee_deletable: first what the employee has loaded, ...
EnsureDeletable(r) ==
  /\ pc[r] = "deletable"
  /\ LET closed == {m \in Months : Closed(m)} IN
     IF \E m \in closed, i \in RowIds : Affects(old[r][i], m)
     THEN Reject(r)
     ELSE Proceed(r, "attendance", closed)

\* ... then the attendance of each month that was closed, from the database.
EnsureNoAttendance(r) ==
  /\ pc[r] = "attendance"
  /\ \/ todo[r] = {} /\ Proceed(r, "write", {})
     \/ \E m \in todo[r] :
          IF \E i \in RowsOf(job[r].id, {"attendance"}) : MonthOf(rows[i].date) = m
          THEN Reject(r)
          ELSE Proceed(r, "attendance", todo[r] \ {m})

\* get_with_details_for_update
LockEntry(r) ==
  /\ pc[r] = "lock"
  /\ kind[r] = "change"
  /\ LET i == job[r].id IN
     /\ MayHold(r, i)
     /\ \/ i \notin Entries /\ Reject(r)
        \/ /\ i \in Entries
           /\ holds' = [holds EXCEPT ![r] = {i}]
           /\ old' = [old EXCEPT ![r] = Only(i)]
           /\ todo' = [todo EXCEPT ![r] = MonthsToCheck(rows[i], job[r].body)]
           /\ pc' = [pc EXCEPT ![r] = "ensure"]
           /\ UNCHANGED <<committed, kind, job, settled>>

\* lock_for_update of the closure row: of a month never closed there is nothing to lock.
LockPeriod(r) ==
  /\ pc[r] = "lock"
  /\ kind[r] \in {"close", "reopen"}
  /\ LET m == job[r].id IN
     /\ MayHold(r, m)
     /\ holds' = [holds EXCEPT ![r] = IF closure[m] = "never" THEN {} ELSE {m}]
     /\ pc' = [pc EXCEPT ![r] = "status"]
     /\ UNCHANGED <<committed, kind, job, old, todo, settled>>

\* get_by_period: whether there is a row, and its status.
ReadStatus(r) ==
  /\ pc[r] = "status"
  /\ LET status == closure[job[r].id] IN
     \/ kind[r] = "close" /\ status = "closed" /\ Reject(r)
     \/ kind[r] = "reopen" /\ status # "closed" /\ Reject(r)
     \/ kind[r] = "close" /\ status = "never" /\ Proceed(r, "insert", {})
     \/ kind[r] = "close" /\ status = "open" /\ Proceed(r, "write", {})
     \/ kind[r] = "reopen" /\ status = "closed" /\ Proceed(r, "write", {})
-----------------------------------------------------------------------------
(***************************************************************************)
(* The flush and the commit                                                *)
(***************************************************************************)
\* uq_attendance_records_employee_date, uq_employee_salary_history, and the unique dates
\* of expense days and commission rates.
Unique(x) ==
  x.what \in {"attendance", "revision", "expense", "rate"} =>
    ~\E j \in RowIds : /\ rows[j] # None
                       /\ rows[j].what = x.what /\ rows[j].emp = x.emp /\ rows[j].date = x.date

Install(i, x) == rows' = [rows EXCEPT ![i] = x] /\ UNCHANGED <<closure, hired>>

\* An INSERT: its foreign key and its unique constraint decide.
Insert(r, x) ==
  \/ ~(x.emp \in hired \cup {None} /\ Unique(x)) /\ Reject(r)
  \/ /\ x.emp \in hired \cup {None} /\ Unique(x)
     /\ Install(r, x)
     /\ End(r, "done")

\* An UPDATE by id of what differs from what was loaded; StaleDataError if the row is gone.
Update(r, i, was, w) ==
  LET now == rows[i]
      x == [now EXCEPT !.date = IF w.date = was.date THEN @ ELSE w.date,
                       !.value = IF w.value = was.value THEN @ ELSE w.value,
                       !.final = IF w.final = was.final THEN @ ELSE w.final,
                       !.emp = IF w.emp = was.emp THEN @ ELSE w.emp]
  IN
  \/ now = None /\ Reject(r)
  \/ /\ now # None
     /\ x.date # now.date /\ ~Unique(x)
     /\ Reject(r)
  \/ /\ now # None
     /\ x.date # now.date => Unique(x)
     /\ x.emp \in hired \cup {None}
     /\ Install(i, x)
     /\ End(r, "done")
  \/ /\ now # None
     /\ x.emp \notin hired \cup {None}
     /\ Reject(r)

\* The row an upsert finds: in the loaded history, or by a fresh query for a rate.
Upserted(r, w) ==
  {i \in RowIds : LET x == IF w.what = "rate" THEN rows[i] ELSE old[r][i] IN
                  x # None /\ x.what = w.what /\ x.date = w.date}

SaveNew(r) ==
  /\ pc[r] = "write"
  /\ kind[r] = "add"
  /\ LET w == job[r].body
         found == IF w.what \in Onward THEN Upserted(r, w) ELSE {}
     IN
     \/ found = {} /\ Insert(r, w)
     \/ \E i \in found :
          Update(r, i, IF w.what = "rate" THEN rows[i] ELSE old[r][i], w)

SaveChange(r) ==
  /\ pc[r] = "write"
  /\ kind[r] = "change"
  /\ MayHold(r, job[r].id)
  /\ Update(r, job[r].id, old[r][job[r].id], job[r].body)

\* A DELETE of a row that is gone by now deletes nothing, which is only a warning.
SaveRemoval(r) ==
  /\ pc[r] = "write"
  /\ kind[r] = "remove"
  /\ MayHold(r, job[r].id)
  /\ Install(job[r].id, None)
  /\ End(r, "done")

SaveHire(r) ==
  /\ pc[r] = "write"
  /\ kind[r] = "hire"
  /\ hired' = hired \cup {r}
  /\ rows' = [rows EXCEPT ![r] = job[r].body]
  /\ UNCHANGED closure
  /\ End(r, "done")

\* Mutation of Left: the entry still names the employee.
LeftAlone(x) == IF x.what = "entry" THEN x ELSE None

\* What the foreign keys leave of a row whose employee goes: ON DELETE CASCADE, and SET
\* NULL on a fuel entry.
Left(x) == IF x.what = "entry" THEN [x EXCEPT !.emp = None] ELSE None

SaveDismissal(r) ==
  /\ pc[r] = "write"
  /\ kind[r] = "dismiss"
  /\ LET e == job[r].id
         its == RowsOf(e, OfMonth \cup Onward)
     IN
     /\ \A i \in its : MayHold(r, i)
     /\ hired' = hired \ {e}
     /\ rows' = [i \in RowIds |->
                   IF i \in its THEN Left(rows[i]) ELSE rows[i]]
     /\ UNCHANGED closure
     /\ End(r, "done")

\* A first close inserts the row, under uq_salary_period_closures_period.
SaveFirstClose(r) ==
  /\ pc[r] = "insert"
  /\ LET m == job[r].id IN
     \/ closure[m] # "never" /\ Reject(r)
     \/ /\ closure[m] = "never"
        /\ closure' = [closure EXCEPT ![m] = "closed"]
        /\ UNCHANGED <<hired, rows>>
        /\ End(r, "done")

SaveToggle(r) ==
  /\ pc[r] = "write"
  /\ kind[r] \in {"close", "reopen"}
  /\ MayHold(r, job[r].id)
  /\ closure' = [closure EXCEPT ![job[r].id] = IF kind[r] = "close" THEN "closed" ELSE "open"]
  /\ UNCHANGED <<hired, rows>>
  /\ End(r, "done")

\* A lost connection, a restart, an error in a part that is not modelled here.
Abort(r) == Running(r) /\ Reject(r)

Arrive(r) ==
  \/ AddRow(r) \/ ChangeRow(r) \/ ChangeEntry(r) \/ RemoveRow(r) \/ RemoveRevision(r)
  \/ Hire(r) \/ Dismiss(r) \/ ClosePeriod(r) \/ ReopenPeriod(r)

Check(r) ==
  \/ EnsurePeriodOpen(r) \/ EnsureNoClosedOnOrAfter(r) \/ EnsureDeletable(r)
  \/ EnsureNoAttendance(r) \/ LockEntry(r) \/ LockPeriod(r) \/ ReadStatus(r)

Save(r) ==
  \/ SaveNew(r) \/ SaveChange(r) \/ SaveRemoval(r) \/ SaveHire(r) \/ SaveDismissal(r)
  \/ SaveFirstClose(r) \/ SaveToggle(r)

\* Nobody is being served: the server waits for the next request.
Quiet == (\A r \in Req : ~Running(r)) /\ UNCHANGED vars

Next == (\E r \in Req : Arrive(r) \/ Check(r) \/ Save(r) \/ Abort(r)) \/ Quiet

Spec == Init /\ [][Next]_vars
-----------------------------------------------------------------------------
(***************************************************************************)
(* Properties                                                              *)
(***************************************************************************)
\* The shape of the tables and of every request's private state; no row names an employee
\* who is not on record.
TypeOK ==
  /\ closure \in [Months -> Statuses]
  /\ hired \subseteq Emps
  /\ rows \in [RowIds -> Row \cup {None}]
  /\ \A i \in RowIds : rows[i] # None => rows[i].emp \in hired \cup {None}
  /\ kind \in [Req -> Kinds]
  /\ pc \in [Req -> {"idle", "lock", "status", "ensure", "ripple", "deletable", "attendance",
                     "insert", "write", "done", "failed"}]
  /\ job \in [Req -> [id : RowIds \cup Emps \cup Months, body : Row \cup {None}] \cup {None}]
  /\ old \in [Req -> [RowIds -> Row \cup {None}]]
  /\ todo \in [Req -> SUBSET Months]
  /\ holds \in [Req -> SUBSET (RowIds \cup Months)]
  /\ settled \subseteq {m \in Months : Closed(m)}

(***************************************************************************)
(* Once a month has been closed and the requests that were under way have  *)
(* ended, nothing its figures are calculated from changes until it is      *)
(* reopened: whatever a request does, to whatever date, through whatever   *)
(* screen, and whatever it had loaded before others changed it.            *)
(***************************************************************************)
SettledMonthsKept ==
  [][\A m \in settled \cap settled' : Books(rows', m) = Books(rows, m)]_vars

(***************************************************************************)
(* Of two closes, or two reopens, of a month that has a closure row only   *)
(* one succeeds: whoever holds the row's lock at the end changes a status  *)
(* that is still the one it read.                                          *)
(***************************************************************************)
TogglesTakeTurns ==
  [][\A r \in Req, m \in Months :
       m \in holds[r] /\ pc[r] = "write" /\ pc'[r] = "done" => closure'[m] # closure[m]]_vars

(***************************************************************************)
(* What SalaryPeriodClosure's docstring says: a closed month is locked     *)
(* against further salary-affecting changes.  A request that looked before *)
(* the close and writes after it breaks this.                              *)
(***************************************************************************)
ClosedMonthsFrozen ==
  [][\A m \in Months : Closed(m) /\ closure'[m] = "closed" => Books(rows', m) = Books(rows, m)]_vars

(***************************************************************************)
(* What delete_salary_revision's comment says: an employee always needs at *)
(* least one revision.  Two deletions that each see two break this.        *)
(***************************************************************************)
EmployeesKeepARevision == \A e \in hired : RowsOf(e, {"revision"}) # {}
=============================================================================
