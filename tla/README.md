# Formal model of the Petrol Bunk Manager API

The repository is the backend of a petrol bunk's bookkeeping: FastAPI handlers,
SQLAlchemy's async session, Postgres. This directory holds TLA+
models of the parts where requests can disturb each other, the TLC runs that
check them on small instances, and the TLAPS proofs of what matters most.

    tlc -workers 2 -config MCFuelEntryStock.cfg MCFuelEntryStock
    tlapm FuelEntryLedger_proofs.tla        # and every other *_proofs module

`PROJECT.json` names every run, the lines each definition models, the hazards
of the code and the property that covers each.

## The system

Every handler works the same way. `get_db` (core/database.py) gives one request
one session and one transaction; the handler reads rows, checks, changes
objects, flushes; `get_db` commits when it returns and rolls everything back
when it raises. Postgres runs at READ COMMITTED, so each statement sees what is
committed when it starts. There is one event loop: a handler gives way to the
others at every `await`, which is at every statement and nowhere else. What one
request knows may therefore be stale at its next statement, unless it holds a
row lock (`SELECT ... FOR UPDATE`) or the database refuses the write (unique
keys, foreign keys).

| Component | State | Operations | Meets others through | What makes it correct |
|---|---|---|---|---|
| Fuel entries | `Fuel_Entries` and their readings, oil rows, bills | create, update (locks the entry), delete (does not) | product stock, employee credits, credit ledger, stock log, dashboard cache, closures | the side effects of a final entry are applied exactly once and taken back exactly once |
| Lubricants | `Lubricant_Products.stock`, purchases, prices | products and purchases added, corrected, deleted | fuel entries, through the running total and the "sold at this cost" queries | the total is what was bought less what was sold; a sold purchase is not corrected away |
| Salary period closures | one row per (year, month) ever closed | close, reopen; three checks for everybody else | every payroll writer | a closed month's figures do not change |
| Employees, attendance, commission, expenses | their rows | add, change, remove; deleting an employee cascades | closures; commission and expenses also the dashboard | closed months; one row per day or date; an employee keeps a revision |
| Dashboard | `dashboard_cache`, in the process | summary on a miss; invalidation by the writers | entries, expenses, rates | what it shows is what is on record |
| Sign-in | `Users`, `Refresh_Tokens`, `Login_Attempts`, the code store in the process | password step, code step, refresh, log out, change of password, deactivation | every other handler, which only asks for a valid access token | one session per code; a spent token stays spent; a lockout that counts every failure; no session outlives the password |
| Credit customers | `Credit_Customers`, ledger, documents, stored photos | customers, ledger entries and bills added, changed, removed | fuel entries make ledger rows; photos are deleted after the commit | a row never names a deleted photo; an entry's rows follow the entry |
| Offers and reminders | sends and their recipients | send, remind; delivery status by webhook | WhatsApp; the list of recipients; the station's name | one row per recipient that says what became of his message |
| Audit mail | `Audit_Email_Sends` | mail, then record | the mail server | what is on record was sent |
| Fuel stock log | one row per (date, third shift) | upsert, delete | the last entry of a scope takes its row along | no row is left without entries |
| Fuel rates, station, list of recipients | single rows | upsert by date; upsert; add, change, delete | offers read the last two | one station |

Hard behaviours, in the order of what they can cost: read-modify-write of a
running total without or before its lock; a check (closed month, last revision,
sold count) whose answer is stale when the write is made; two transactions that
wait for each other; a save that is rolled back after it has changed memory
outside the transaction (the cache, the stored files); an answer of the outside
world (delivery status, a retry) that comes early, late or twice.

## Modules

| Module | Models |
|---|---|
| `StockRecords` | the rows the oil stock is made of, and the repository's queries of them |
| `StockLedger` | the abstract specification: every accepted change is one step that keeps total and record together |
| `FuelEntryStock` | fuel entry, purchase and product requests as concurrent transactions with row locks |
| `FuelEntryStock_proofs` | types, locks and private stock values |
| `FuelEntryLedger_proofs` | the running total is the record, and the refinement of `StockLedger` |
| `PeriodClosure` | closing and reopening a month, and every payroll change that asks whether one is closed |
| `PeriodClosure_proofs` | its theorems |
| `DashboardCache` | the summary's three reads, the cache, the writes that invalidate it |
| `DashboardCache_proofs` | its theorems |
| `ShiftFigures` | the arithmetic of a shift, in both forms the code has it |
| `BillStore` | the abstract specification of photos: nothing is named before it is stored or deleted while it is named |
| `CreditLedger` | what a fuel entry writes elsewhere, customers, ledgers, bills, and the deletions after a commit |
| `CreditLedger_proofs` | its theorems |
| `SignIn` | passwords, codes, attempts, tokens and users |
| `SignIn_proofs` | types (no handler reads a row, code or user that is not there), codes and sessions, lockout, tokens |
| `Messaging` | offers, reminders and audit mails, delivery reports, the list of recipients, the station |
| `Messaging_proofs` | its theorems |
| `SumTheorems` | sums over finite sets: what the proofs about totals cite |
| `MC*` | small instances for TLC |

### FuelEntryStock

Committed state is the tables (`live`, `stock`, `entry`, `batch`). Each request
has a program counter, what it has read (`old`, `job`, `todo`), its session's
private value of a product's stock (`view`), and its Postgres locks: `owns`
(FOR UPDATE on a product), `shares` (the FOR KEY SHARE an oil row's foreign key
takes), `locked` (FOR UPDATE on an entry). An action is the work from one
statement that may wait, or whose result can change, to the next; the `Commit`
makes a request's work visible in one step and frees its locks, `Reject` throws
it away. `AdjustStock` is `_adjust_stock` for one oil row: lock, then read, add,
refuse if it would go negative. A cycle of waiting transactions is broken by
`DetectDeadlock`, as Postgres does. `Abort` stands for a lost connection and for
an exception from a part that is not modelled here.

`StockLedger` has no requests or locks. `ImplementsLedger` says that each commit
is one of its steps and everything else is invisible: the transactions behave as
if each ran alone.

### PeriodClosure

`rows` is every row a month's figures are computed from: credits, payments,
attendance, expense days and final fuel entries count in their month, revisions
and rates in every month from theirs on. A request reads (an `Arrive` action),
looks at the closures of the months it thinks it touches (`EnsurePeriodOpen`,
one SELECT per month; `EnsureNoClosedOnOrAfter`; `EnsureDeletable` and
`EnsureNoAttendance`), and writes. The flush and the commit are one step:
nothing is read between them, and a flush is invisible. Close and reopen lock
the closure row if there is one, read it, and write. `settled` is history: the
months that were closed at some moment when no request was under way and have
not been reopened since.

### DashboardCache

`Show` answers from the cache or begins the three reads, each a step; the
computation and the store follow the last without an await. A write reads
(`Add`, `Change`, `Remove`), flushes, invalidates, commits; delete of an entry
or an expense day invalidates before it flushes, as the code does. The cache can
expire at any moment (time is not counted) and is lost when the process
restarts. `clean` is history: months whose cached value was stored by a summary
that ran while nothing was being written. The cache is that of one process: where
Cloud Run starts several instances of the container (Dockerfile:28-33), a write
invalidates its own and the others show what they have until it expires.

### CreditLedger

The tables are `entries` (with their readings, oil rows, payment lines, bills),
`custs`, `ledger`, `dues` (employee credits an entry made) and `checkpoints`;
`files` is the storage. A request is a transaction: `txn` is what it has flushed,
`holds` its row locks, and `Commit` makes `txn` visible together with what the
foreign keys do on their own (`EntriesAfter`, `LedgerAfter`, ...): a deleted
customer's charges go, his payment lines lose him. `CleanUp` is the loop after
the commit in `get_db` that deletes the queued photos one by one, which a
`Restart` may cut off. A save is `LoadForSave`, `ReadRows` and `DropRows` (the two
halves of `_remove_credit_ledger_by_source`, between which others run),
`CheckCustomers`, `Post`. The amounts come from `ShiftFigures`, which has
`_shift_totals` (what the worker is charged) and `_serialize` (what the screen
shows) as separate definitions; `DuesMatchShown` says that they agree to the nearest
hundredth. Money with two decimals counts hundredths; the product of litres and rate,
three decimals each, counts parts of which `Unit` make a hundredth, and `Hundredths` is
what Numeric(10, 2) keeps of it. A save may move its entry to any scope.

`ImplementsBillStore` maps all of this to two sets, the photos rows name and the
photos stored.

The server lets some requests do harm. What clients have to keep clear of is in three
constants, so that each property says what it needs of them and each harm has a
configuration of `MCCreditLedger` that shows it:

| Constant | Clients | Otherwise | Configuration |
|---|---|---|---|
| `"attach" \in Avoid` | do not attach a bill to a charge while its entry is saved | the bill read before is carried over after it was replaced | `MCCreditLedger_files` |
| `"customer" \in Avoid` | do not delete a customer while an entry that names him is saved | the new charge goes by the foreign key | `MCCreditLedger_customers` |
| `"delete" \in Avoid` | do not delete an entry while others of its scope are saved or deleted, or its checkpoint is put in, nor an entry that is being saved | two deletions count each other and the checkpoint stays; one that is being saved is not counted and the checkpoint goes. The charges a save makes while its entry is deleted stay on the customer without a source, and their bills may lose the photo | `MCCreditLedger_deletes` |
| `"forms" \in Avoid` | do not send two forms for one entry or customer at once, of which the second does not know the first | the second names a photo the first has dropped | as `MCCreditLedger_stale` |
| `Stale` = {} | send back only bills that the row has when the form is sent | a save puts back a row whose photo is gone | `MCCreditLedger_stale` |
| `Removable` = {} | take only their own upload out of storage, before they save | a row names a photo that is gone | `MCCreditLedger_uploads` |

`Avoid`, `Stale` and `Removable` restrict what is sent (`Send`, `Resent`,
`DeleteUpload`, `SaveCheckpoint`), never what the server does with it. `Stale` and
`Removable` are any sets of photos: those that a form may name although its row does
not, and those that `DELETE /uploads/{key}` may be asked for.

| Property | Needs |
|---|---|
| `TypeOK`, `ChargesMatchEntries`, `DuesMatchShown`, `NoRecentTwins` | nothing |
| `SourcedChargesStay` | `"customer"` |
| `BillsSurvive` | `"attach"` |
| `CheckpointsFollowEntries` | `"delete"` |
| `ImplementsBillStore`, `NamedFilesExist` | `ClientsTakeCare`: all of the above |

So two saves of one entry, which fuel_entry_repository.py:27-36 says arrive together,
and a save beside the deletion of its entry overlap in the run `ledger` and in every
theorem but that of the photos (and of checkpoints, for the deletion): the charges,
dues and carried bills of the entries on record are safe from them by the entry's row
lock. `ChargesMatchEntries` says nothing of an entry that is gone: a save that overlaps
the deletion of its entry may make charges that the deletion did not read, and that
outlive the entry with their source set to null. The run leaves out what
`SourcedChargesStay` and `BillsSurvive` need; the theorems about charges, dues and
double submissions leave out nothing. A customer who is deleted beside a save takes his
charges along, and his payment lines lose him, so that `ChargesMatchEntries` holds of
what is left; what is lost is what `SourcedChargesStay` says. `BillsSurvive` is about
final saves; a draft deletes the bills together with the charges
(fuel_entry_service.py:699-703), and the model does the same. `NoRecentTwins` speaks of
two additions that are both recent: `created_at` is the time at which a transaction
began, so that a twin that waited more than ten seconds for the lock gets through.

### SignIn

`users`, `tokens` and `attempts` are tables, `otp_store` the dictionary in the
process. A login looks at the lockout, finds a user by e-mail or by a name others
may share, records the attempt (`Record`, which commits, also for a refusal), then
makes the code and mails it. An answer is compared and counted in one step
(`AnswerCode`: nothing is awaited there), so that only one of several answers
gets the code. Refresh reads the token without a lock (`LoadToken`), then revokes
it and inserts the next (`Spend`). A change of password flushes the user, reads
the open sessions (`ReadTokens`), revokes them one by one (`RevokeNext`) and
commits with its attempt. A flush waits for row locks. `Restart` forgets codes
and requests. `met` is history: what was on record when a request arrived, which
is what the properties compare its outcome with.

### Messaging

Meta is outside: `send_template` is the set of outcomes a call may have, where a
message may be accepted although the caller gets an error. Status posts are not
authenticated (whatsapp_webhook_controller.py:65-70 says so), so `Posts` are reports
by anyone, of any status, on any id in `KnownIds`, accepted, still to be sent or never
sent, in any order, several in a post. What the code keeps is therefore less than
"the status is Meta's": `StatusesArePosted` says that a row only ever gets a status
that the sending gave or that somebody posted for this very message. An
offer loads its recipients and the station, calls the provider for one after the
other (`Dispatch`) and commits all rows at the end (`SaveOffer`). A report's row is
looked up and written in two steps with a commit for each (`FindRow`,
`WriteReport`); `Abort` of a post drops what is left of it and answers 200. A
reminder leaves no row, so a report on it matches none. The station shows that
two first saves make two rows: nothing but the search keeps it single.

## Runs

Bounds are named in the MC modules. `Loads` says which kinds of request arrive
together, `Databases` what is on record, `Bodies` (`EntryWrites`, `BatchWrites`)
what a client sends.

| Run | Checks | Result |
|---|---|---|
| `stock` | `TypeOK`, `StockConserved`, `StockNonNegative`, `NoLostUpdate`, `EditsStayCovered`, `RequestsAnswered`, `ImplementsLedger` | hold |
| `stock_deletes` | `StockConserved` with two deletes of one entry | violated: both give the sales back |
| `periods` | `TypeOK`, `SettledMonthsKept`, `TogglesTakeTurns` | hold |
| `periods_race` | `ClosedMonthsFrozen` | violated: check, close, write |
| `dashboard` | `TypeOK`, `CleanFiguresAreRight` | hold |
| `dashboard_race` | `NothingStaleAtRest` | violated: a read between invalidation and commit is cached |
| `expense_saves` | `SavesReplaceAll` | violated: two saves of a day leave both item lists |
| `ledger` | `TypeOK`, `ChargesMatchEntries`, `DuesMatchShown`, `NoRecentTwins`, `SourcedChargesStay`, `BillsSurvive`, with `Avoid = {"attach", "customer"}` | hold |
| `ledger_careful` | `ImplementsBillStore`, `CheckpointsFollowEntries`, under `ClientsTakeCare` | hold |
| `ledger_files` | `NamedFilesExist`, bills attached beside saves | violated: a save carries over the key of a photo that another request replaced |
| `sign_in` | `TypeOK`, `OneSessionPerCode`, `FewWrongAnswers`, `LockoutComesFirst`, `SessionsOnRecord`, `RefusalsOnRecord`, `SpentTokensStaySpent`, `EndedSessionsAreOver`, `EveryRequestIsAnswered` | hold |
| `messaging` | `TypeOK`, `OneOutcomeEach`, `RowsMatchMessages`, `StatusesArePosted`, `ReportsAreShown`, `AuditLogIsTrue`, `HistoryOutlivesRecipients` | hold |

Seven more configurations ask what the code does not promise. They are kept to be run by
hand and each ends in the violation named:

| Configuration | Property | What happens |
|---|---|---|
| `MCPeriodClosure_revisions` | `EmployeesKeepARevision` | two deletions each see two revisions |
| `MCCreditLedger_customers` | `SourcedChargesStay`, customers deleted beside saves | the charge made meanwhile goes with its customer |
| `MCCreditLedger_deletes` | `CheckpointsFollowEntries`, entries deleted beside saves | an entry that is being saved is not counted |
| `MCCreditLedger_moves` | `NoCheckpointOrphaned` | one save moves the last entry out of its scope |
| `MCCreditLedger_uploads` | `NamedFilesExist`, any photo deleted by its key | a row names a photo that is gone |
| `MCCreditLedger_stale` | `NamedFilesExist`, a form older than the last save | the row of a deleted photo comes back |
| `MCCreditLedger_cents` | `VarianceIsShown` | the record is rounded, the screen is not |

- `stock`: two requests of every pair of kinds and four triples; two products,
  so that entries can lock them crosswise; one entry on record, final or draft;
  quantities such that one sale is just covered and one is not. Conflicts on a
  product are between two requests at a time, and a third only adds a waiting
  place; the triples add a purchase deletion to two entries. The run leaves out
  two deletes, and a delete with an update, of one entry: there the property is
  false, which is what `stock_deletes` shows.
- `periods`: two months, one before the other, so that a ripple and a move in
  both directions exist; an employee with a revision and two further rows, one
  of each table over four databases, and two more in which his only revision is dated
  after the closed month that has his attendance or credit, so that it is these that
  forbid his deletion; every kind of change with a close, a
  reopen, and a change, and triples in which a month is closed while two changes
  are under way.
- `dashboard`: two months of two days, an entry, an expense day and a rate; two
  writes of every pair of kinds and a summary; a change, a removal and two
  summaries.

- `ledger`, `ledger_careful`: any two kinds of request, two entries
  of two scopes, two customers, a worker; four forms: a shortage of less than a
  hundredth with two charges of one customer, an offer above the cane oil sold with an
  advance and an excess that rounds to nothing, a draft whose meter runs backwards, and
  the same made final, which is refused. Three payment lines are enough for two
  charges of one customer with something between. Four parts make a hundredth
  (`Unit`), so that some amounts round up, some down and some not at all. One of the
  three photos on record may be named by an old form and one deleted by its key, but
  not in `ledger_careful`. Checkpoints are saved and deleted by hand beside them. The
  other configurations take a pair of kinds or two, with what they need left out of
  `Avoid`.
- `sign_in`: two users with one display name, one of them deactivated; two
  sessions, a pending code and a failure in the window; limits of two. Any two of
  the eight kinds, and five triples: three answers to one code at a limit of two, a
  login whose code is answered and then refreshed or the user deactivated, and a
  session opened, refreshed or closed beside a change of password.
- `messaging`: an active recipient, one without a number, an inactive one with the
  number of the first; offers to two of them and to one twice, posts of up to two
  reports. Three statuses: two that are recognized and can overtake each other,
  one that is not. Two posts of two reports are more than are needed for a report
  that is overtaken, repeated, or lost behind a failure.

`sign_in` assumes `WF_vars(\E r \in Req : Step(r))`: the event loop and the database
go on as long as there is a request that need not wait. That is less than
fairness to each request, and enough to show that none waits for ever and no two
for each other: users are locked before tokens, and nobody who holds a token's
lock waits for more than another token.

The other fairness is in `stock`. `WF_vars(Proceed(r))`: asyncio resumes a
handler whose statement has returned, and Postgres grants a free lock to a
waiting statement; no request is assumed to arrive. `WF_vars(DetectDeadlock)`:
Postgres' deadlock detector runs whenever a statement has waited long enough.
Deadlock is checked in the runs of the first three modules, whose `Quiet` steps
stand for a server that waits for the next request. In `ledger`, `sign_in` and
`messaging` a behaviour ends when all requests are answered; `EveryRequestIsAnswered`
shows that nothing ends earlier in `sign_in`, and a victim of a deadlock is an
`Abort` in `ledger`.

## What the runs found

1. `FuelEntryService.delete` reads the entry without a lock, update does not:
   two overlapping deletes return the sales twice (`stock_deletes`).
2. The closed-month checks are not protected against a close that commits before
   the write (`periods_race`). What does hold is `SettledMonthsKept`: once the
   requests that were under way have ended, a closed month is closed.
3. The last-revision check counts without a lock (`MCPeriodClosure_revisions`).
4. Dashboard invalidation comes after the flush but before the commit, so the
   gap that commission_service.py:78-81 describes is still there
   (`dashboard_race`). What does hold is `CleanFiguresAreRight`.
5. `update_expense_day` replaces the items it has loaded without locking the
   day, so that two overlapping saves leave the items of both (`expense_saves`).
6. `update` of a fuel entry reads the bills of its ledger rows before it waits for
   the rows: a bill replaced in between is deleted from storage and carried over
   to the new row all the same (`ledger_files`).
7. A customer's deletion looks at the charges it has loaded; one that a save makes
   after that is taken along by the cascade (`MCCreditLedger_customers`).
8. The count of what is left in a scope does not see an entry that is being saved:
   the checkpoint is deleted although its scope has an entry (`MCCreditLedger_deletes`).
9. `update` may move the last entry out of a scope and leaves the checkpoint, which
   only `delete` looks at (`MCCreditLedger_moves`). The form disables the date while editing;
   the server does not (schemas/fuel_entry.py:18-20 says so).
10. `delete_upload` deletes any key, named or not (`MCCreditLedger_uploads`), and a form that
   is older than the last save brings back the row of a deleted photo
   (`MCCreditLedger_stale`): a row then names nothing.
11. A variance has up to six decimals, its column two: the record is the nearest
   hundredth, possibly a row of 0.00, while the screen shows the exact figure
   (`MCCreditLedger_cents`). What does hold is `DuesMatchShown`.
12. Shown by the models without a run of its own: two refreshes of one token that
   are under way together are both answered, and a session opened while the
   password is being changed survives it (`SpentTokensStaySpent` and
   `EndedSessionsAreOver` speak of what was on record when a request arrived);
   the revocation of an idle session is rolled back with its refusal, and the
   token stays unusable only because it is idle; a delivery report that comes
   before the commit of its offer is answered 200 and lost; an older report may
   overwrite a newer one (`ReportsAreShown` says some report, not the last).

## What is proved

Everything here is for any set of requests, rows, users, months and bodies that
satisfies the `ASSUME`s of the module: the constants have the types of the tables
and of the request schemas, ids of different origin differ, tables are finite where
something is counted or summed, and what is on record before the first request
obeys the constraints of the database. TLC evaluates these on every run.

| Module | Theorem | States |
|---|---|---|
| `FuelEntryStock_proofs` | `TypeCorrect`, `UpdatesNotLost`, `NeverNegative` | `TypeOK`, `NoLostUpdate`, `StockNonNegative` |
| `FuelEntryLedger_proofs` | `StockConservedHolds`, `EditsStayCoveredHolds`, `ImplementsLedgerHolds` | each of `StockConserved`, `EditsStayCovered`, `ImplementsLedger` under `[]DeletesAlone` |
| | `LoneDeletesAreSafe` | all three, for loads in which a delete meets no other update or delete |
| `PeriodClosure_proofs` | `TypesHold`, `SettledMonthsKeptHolds`, `TogglesTakeTurnsHolds` | `TypeOK`, `SettledMonthsKept`, `TogglesTakeTurns` |
| `DashboardCache_proofs` | `TypesHold`, `CleanFiguresAreRightHolds` | `TypeOK`, `CleanFiguresAreRight` |
| `SignIn_proofs` | `TypesHold`, `OneSessionPerCodeHolds`, `SessionsOnRecordHolds`, `FewWrongAnswersHolds`, `LockoutComesFirstHolds`, `SpentTokensStaySpentHolds`, `EndedSessionsAreOverHolds`, `RefusalsOnRecordHolds` | `TypeOK` and every other safety property of `sign_in` |
| `Messaging_proofs` | `TypesHold`, `OneOutcomeEachHolds`, `RowsMatchMessagesHolds`, `StatusesArePostedHolds`, `ReportsAreShownHolds`, `AuditLogTrue`, `HistoryOutlivesRecipientsHolds` | every property of `messaging` |
| `CreditLedger_proofs` | `TypesHold` | `TypeOK` |
| | `LocksHold`, `InvHolds` | the invariants below |
| | `ChargesMatchHolds`, `DuesMatchHolds`, `NoRecentTwinsHolds` | `ChargesMatchEntries`, `DuesMatchShown`, `NoRecentTwins`, without any assumption on clients |
| | `SourcedChargesStayHolds` | `SourcedChargesStay`, if `"customer" \in Avoid` |
| | `BillsSurviveHolds` | `BillsSurvive`, if `"attach" \in Avoid` |
| | `CheckpointsFollow` | `CheckpointsFollowEntries`, if `"delete" \in Avoid` |
| | `ImplementsBillStoreHolds` | `ImplementsBillStore` and `NamedFilesExist`, under `ClientsTakeCare` |
| `SumTheorems` | `SubsetInduction`, `SumUnion`, `SumChange`, `SumBijection`, `SumFilter` | sums over any finite set |

No property is inductive by itself. What each proof adds, and its argument:

**Stock, types and locks** (`IInv`). No two requests own one product
(`OwnersExclusive`), a product made by a request is not yet on record
(`ProductsFresh`), a running request's job has the shape its kind implies
(`JobsFit`), private values are not negative (`ViewsNonNegative`). A private
value is read under the lock and the lock is held to the end, so the committed
value at commit is the one the change started from, and a guard that held for
the private value holds for what is committed.

**Stock, totals** (`LInv`). A request that works on an entry says, row by row,
what it has given back and taken (`Session`): at each statement its private
values differ from the committed ones by the rows it has done so far, so that at
commit the total moves by the difference between the old and the new entry. This
needs that the entry on record is the one it read. An update has it locked; a
delete has not, since `delete()` reads without `lock_for_update`. `DeletesAlone`
says what is then left to the clients: nobody else saves or deletes an entry
while it is being deleted. It is a hypothesis on states, not a fact: without it
`StockConserved` is false, which `stock_deletes` shows. `LoneDeletesAreSafe` has
no hypothesis on states, only on which kinds of request arrive together. The
refinement uses the same invariant with the foreign keys (`KeysHold`): a commit is
the step of `StockLedger` its kind names, and every other step leaves the tables
alone.

**Sums.** The library's induction theorems cannot be instantiated by the provers,
so `SubsetInduction` is proved from them once, about a set of subsets instead of an
operator, and the facts about sums from it. The model's own sums
(`MapThenSumSet`) are shown equal to the ones of `SumTheorems` where they are used.

**Closures** (`Inv`). Of a month that is settled, a request that is under way has
loaded what is still on record (`Fresh`); past its check it writes nothing that
counts there (`Checked`), and if it deletes an employee it has found nothing of his
there (`Spared`). All three hold trivially when a month becomes settled, since
nothing is under way then. `TogglesTakeTurns` is from the lock on the closure row,
or its key.

**Dashboard** (`IInv`). A summary that no write has met has read what is still on
record (`Undisturbed`); the months a write touches are not clean from its
invalidation to its commit, nor is the month to which another request has moved the
row meanwhile (`Reached`). Row locks and unique keys keep the writes of one row or
day apart (`RowsApart`, `KeysApart`).

**Sign-in.** `TypeInv` also says that what a request will make is not there before
(`NotYetMade`). `SessionInv`: what opened a session was recorded as a success, its
code is not pending any more, and no two sessions came of one code. `GuessInv`: the
counter of a pending code is at least the number of wrong answers on record or
about to be; the counter is raised before the record is made, and the code is gone
before it has reached the limit. `RequestInv`: what was on record when a request
arrived is still there when its outcome is decided, and the locks it has passed
say who can have changed what (`Arrived`, `PassedOn`, `Lockout`, `Unspent`, `Ending`).

**Messages** (`IInv`). What an offer has sent is what it was asked, in its order
(`Asked`, `Listed`, `Making`); what is saved is what was made (`Sent`, `Saved`); a
report in hand was posted for the message whose row it has found (`Reporting`).
`DistinctNames` is about the operator that drops repeated names.

**Charges, dues, bills, checkpoints** (`LockInv`, `Inv`). `TypeInv` and
`NothingYet`: what a request will make is not on record before it has committed, so
that the rows it inserts replace none. `SourcesOld`: what names an entry as its source
names one on record, or a commit would leave rows behind. `LockInv`: a row lock is held
by one request or shared by all its holders, a save that has loaded its entry and a
deletion that has dropped it have it locked, so that of two requests that change one
entry only one is between its load and its end. `Right` says of each request what its
`txn` will do when it commits. Of a save it says, whoever is beside it: the rows its
entry has are those it has read, less those that went with a customer or by hand, and
what its people owe is what it has read; of a deletion, that the rows it has read
are still its entry's, have lost their source or are gone. What clients avoid adds to
that: `NoClash` carries each overlap that is avoided from the moment a request is sent
to its end, and with `"customer"` all rows a save has read are still there and a
customer is deleted with no charge of an entry, with `"attach"` their bills are those
it has read, with `"delete"` a deletion has found all rows of its entry and counted what
is left of its scope. From it a `Commit` is, for every property, either a change of one
entry together with all its rows or no change of either.
`ChargesMatchHolds` counts: `NewCharges` is a bijection from the credit lines to the
new rows, and a customer who is deleted takes as many rows as lines.
`DuesMatchHolds` shows that `_shift_totals` and `_serialize` come to one variance, the
first a sum over rows, the second over fuels and nozzles, each with its floor
(`FuelAgrees`, `VarianceAgrees`), and that what is stored is the nearest hundredth of
it; it needs that no fuel has two readings.
`BillsSurviveHolds`: the charges of one customer have the ranks from one on
(`EveryRank`), so that the n-th bill has an n-th charge to take it over.
Each assumption is necessary: the configurations in the table under CreditLedger break
the property without it.

**Photos** (`FilesInv`, with `Inv`, under `ClientsTakeCare`). A photo is named in one
place at most, an entry, a customer or a charge, and is then in storage (`NamedOnce`);
what a request has uploaded is in storage for as long as it may come to name it
(`Uploaded`). What a request is going to have deleted is named nowhere but in the place
whose name its own commit takes away (`EntryHeld`, `RowHeld`, `CustomerHeld`), so that
what is queued by a committed request is named nowhere at all (`QueueFree`) and
`CleanUp` may delete it, or part of it, at any time. A form sends back only photos it
was shown (`Resends`). The heart of it is `Origin`: a name that is there after a commit
was in that very place before, or is carried over from a row the commit removes to one
it makes, or is the request's own upload; `CarriedApart` shows that one photo is carried
to one row. The proof found an assumption that `Databases` had left out:
`DatabasesNameOnce`, that no two rows on record name one photo, which every key being a
uuid4 of its own (core/s3.py:51) gives. `StepOfStore` then maps each step to one of
`BillStore`: an upload to `Store`, a commit to `Name`, the deletion by the client or
after a commit to `Discard`.

**Double submissions** (`TwinInv`, with `LockInv` and `Inv`). Who adds to a ledger holds its customer's from
before the look for a twin to the commit, and since that look no recent row like his
own has come (`AddHolds`): the only commit that could bring one is that of another
addition for the same customer, which would hold the same lock. A lock of a row that is
not there locks nothing, and so it matters that a customer who is gone does not come back:
who saves him holds him against deletion (`CustomerHolds`).

Only model-checked: `RequestsAnswered` and `EveryRequestIsAnswered` (liveness under
fairness, which needs ENABLED).

## Abstractions

- Decimals are integers: the code adds, subtracts and compares exact values. The one
  column that rounds what was computed, a shift's variance, is `Hundredths` in
  `CreditLedger`; all other amounts come in with the decimals their columns have.
- A SELECT and the selectinload queries that complete it are one read.
- A unique key that no property depends on is left out where it only refuses: an
  entry's (date, pump, shift) is in `FuelEntryStock` and not in the others.
- A uuid4 is the request that makes it: a request makes at most one row a table.
- Checks that can only refuse a request (closed month in `FuelEntryStock` and
  `DashboardCache`, future and pre-joining attendance dates, names, sane rates)
  are an `Abort` or left out; they remove behaviours and add none.
- In `PeriodClosure` the join date an employee is updated to is no row a figure
  is computed from on the server; `update_employee` is left out.
- `CreditLedger`: all rows are of one date, amounts are integers, the set of
  employees is constant, which of a customer's bills is carried to which of his
  charges is arbitrary. Checks that only refuse
  (closed months, names already taken, oil not in stock, the unique date and
  shift of an entry) are an `Abort`; the last two are in `FuelEntryStock`. A
  checkpoint is put in or out in one step.
- `SignIn`: time is not counted; a code or token ages, and a failure leaves the
  lockout's window, just before it is looked at. Two codes are never equal digits.
  Several processes would not share the code store. The lockout counts failures of one
  identifier as it was typed, as the code does, while the look-up of the user strips
  it and puts an e-mail in lower case (user_repository.py:29-31): one user may be tried
  under several identifiers.
  Roles, rate limits by address, password strength and access tokens are left out.
- `Messaging`: names are compared as they are, a balance, a template and a preview
  are wording, and what the provider is asked is only to whom and whether.
- Reports, formatting, authorisation, presigned URLs and message texts are not
  modelled.

## Not modelled

- Fuel rates: an upsert by date that no other operation reads on the server; the
  same operation, without check or cache, as commission rates in `PeriodClosure`.
- The HTTP surface (routing, headers, error formats, configuration, rate limits):
  the framework's.
- Migrations and scripts: not part of the running program; the constraints they
  create are modelled where a module relies on them.
- `update_product` and `update_employee` (names, phones, dates): single rows behind
  a check for a name, without effect on anything else that is modelled. These
  components are therefore "partly".

## Plan

Done: all modules above, and a proof of every safety property that the runs check.
What is left is outside the model: the operations listed under Not modelled, and the
hazards that no property covers because the code allows them, each with its reason in
`PROJECT.json`. Should the code take the locks and make the checks that are missing
(findings 1 and 6 to 10), `DeletesAlone`, `Avoid`, `Stale` and `Removable` are the
hypotheses to drop.
