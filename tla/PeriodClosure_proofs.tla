------------------------ MODULE PeriodClosure_proofs ------------------------
(***************************************************************************)
(* What is proved of PeriodClosure: every table and every request keeps    *)
(* its type; of two requests that close, or reopen, a month under the lock *)
(* of its closure row only one succeeds; and once a month is closed and    *)
(* the requests that were under way have ended, nothing its figures are    *)
(* calculated from changes until it is reopened.                           *)
(*                                                                         *)
(* The last one needs to know, of every request that is under way and of   *)
(* every settled month, that what the request has loaded of that month is  *)
(* still what is on record, and that a request past its checks touches no  *)
(* settled month.  A step of another request keeps this because that step  *)
(* changes no settled month either: the two are proved together.           *)
(***************************************************************************)
EXTENDS PeriodClosure, TLAPS

Body == Row \cup {None}
Job == [id : RowIds \cup Emps \cup Months, body : Body]

\* The kinds of request, by what their job is about.
Saving == {"add", "change", "remove", "hire"}
Toggling == {"close", "reopen"}

Tables ==
  /\ closure \in [Months -> Statuses]
  /\ hired \subseteq Emps
  /\ rows \in [RowIds -> Body]
  /\ \A i \in RowIds : rows[i] # None => rows[i].emp \in hired \cup {None}
  /\ settled \subseteq {m \in Months : Closed(m)}

Requests ==
  /\ kind \in [Req -> Kinds]
  /\ pc \in [Req -> {"idle", "lock", "status", "ensure", "ripple", "deletable", "attendance",
                     "insert", "write", "done", "failed"}]
  /\ job \in [Req -> Job \cup {None}]
  /\ old \in [Req -> [RowIds -> Body]]
  /\ todo \in [Req -> SUBSET Months]
  /\ holds \in [Req -> SUBSET (RowIds \cup Months)]

\* A request that has not written has made no row, and nobody has loaded one of its.
Unmade == \A r \in Req : pc[r] # "done" => rows[r] = None /\ \A q \in Req : old[q][r] = None

\* A row stays in its table.
SameTable ==
  \A q \in Req, i \in RowIds :
    old[q][i] # None /\ rows[i] # None => rows[i].what = old[q][i].what

(***************************************************************************)
(* What a request of each kind knows of its job at each of its statements. *)
(***************************************************************************)
Adds(r) ==
  /\ pc[r] \in {"ensure", "ripple", "write"}
  /\ job[r].id = r
  /\ job[r].body \in Row
  /\ pc[r] = "ensure" => job[r].body.what \in OfMonth
  /\ pc[r] = "ripple" => job[r].body.what \in Onward
  /\ holds[r] = {}

Moves(r) ==
  /\ pc[r] \in {"lock", "ensure", "write"}
  /\ job[r].id \in RowIds
  /\ job[r].body \in Row
  /\ job[r].body.what \in OfMonth
  /\ pc[r] = "lock" => holds[r] = {} /\ job[r].body.what = "entry"
  /\ pc[r] # "lock" =>
       LET was == old[r][job[r].id] IN
       /\ was \in Row
       /\ was.what = job[r].body.what
       /\ IF was.what = "entry" THEN holds[r] = {job[r].id} /\ rows[job[r].id] = was
          ELSE holds[r] = {} /\ was.emp = job[r].body.emp

Removes(r) ==
  /\ pc[r] \in {"ensure", "ripple", "write"}
  /\ job[r].id \in RowIds
  /\ job[r].body \in Row
  /\ job[r].body = old[r][job[r].id]
  /\ pc[r] = "ensure" => job[r].body.what \in OfMonth
  /\ pc[r] = "ripple" => job[r].body.what \in Onward
  /\ holds[r] = {}

Hires(r) ==
  /\ pc[r] \in {"ripple", "write"}
  /\ job[r].body \in Row
  /\ job[r].body.what = "revision"
  /\ job[r].body.emp = r
  /\ holds[r] = {}

Dismisses(r) ==
  /\ pc[r] \in {"deletable", "attendance", "write"}
  /\ job[r].id \in Emps
  /\ holds[r] = {}

\* Under the lock of the closure row the status that was read is still its status.
Toggles(r) ==
  LET m == job[r].id IN
  /\ pc[r] \in {"lock", "status", "insert", "write"}
  /\ m \in Months
  /\ holds[r] \in {{}, {m}}
  /\ pc[r] = "insert" => kind[r] = "close"
  /\ holds[r] = {m} =>
       /\ closure[m] # "never"
       /\ pc[r] = "write" => closure[m] = IF kind[r] = "close" THEN "open" ELSE "closed"

Works(r) ==
  Running(r) =>
    /\ job[r] \in Job
    /\ \/ kind[r] = "add" /\ Adds(r)
       \/ kind[r] = "change" /\ Moves(r)
       \/ kind[r] = "remove" /\ Removes(r)
       \/ kind[r] = "hire" /\ Hires(r)
       \/ kind[r] = "dismiss" /\ Dismisses(r)
       \/ kind[r] \in Toggling /\ Toggles(r)

\* What has ended holds no lock, nor does what has not begun.
Rests(r) == ~Running(r) => holds[r] = {}

TypeInv ==
  /\ Tables /\ Requests /\ Unmade /\ SameTable
  /\ \A r \in Req : Works(r) /\ Rests(r)

(***************************************************************************)
(* What a request that is under way knows of a settled month.              *)
(***************************************************************************)
\* The months a save of a month's own rows counts in.
Touched(r) ==
  (IF kind[r] = "add" THEN {} ELSE MonthsOf(old[r][job[r].id])) \cup MonthsOf(job[r].body)

\* What it has loaded of the month is what is on record.
Fresh(r, m) ==
  \A i \in RowIds :
    old[r][i] # None /\ (Affects(old[r][i], m) \/ Affects(rows[i], m)) => rows[i] = old[r][i]

\* Past its check it writes nothing that counts in the month.
Checked(r, m) ==
  kind[r] \in Saving =>
    /\ pc[r] = "ensure" /\ m \in Touched(r) => m \in todo[r]
    /\ pc[r] = "write" =>
         IF job[r].body.what \in Onward THEN ~(MonthOf(job[r].body.date) <= m)
         ELSE m \notin Touched(r)

\* The rows ensure_employee_deletable looks at in memory.
InMemory == {"revision", "credit", "entry", "payment"}

\* Whoever deletes an employee has loaded their part of the month, and past its checks found
\* nothing there.
Spared(r, m) ==
  kind[r] = "dismiss" =>
    /\ \A i \in RowIds :
         Affects(rows[i], m) /\ rows[i].emp = job[r].id /\ rows[i].what \in InMemory
         => old[r][i] = rows[i]
    /\ pc[r] \in {"attendance", "write"} => \A i \in RowIds : ~Affects(old[r][i], m)
    /\ pc[r] = "write" \/ (pc[r] = "attendance" /\ m \notin todo[r]) =>
         \A i \in RowIds :
           ~(Affects(rows[i], m) /\ rows[i].emp = job[r].id /\ rows[i].what = "attendance")

SettledInv ==
  \A r \in Req, m \in settled : Running(r) => Fresh(r, m) /\ Checked(r, m) /\ Spared(r, m)

-----------------------------------------------------------------------------
(***************************************************************************)
(* Rows and their months                                                   *)
(***************************************************************************)
LEMMA RowFields ==
  ASSUME NEW x \in Row
  PROVE  /\ x # None
         /\ x.what \in OfMonth \cup Onward /\ x.emp \in Emps \cup {None} /\ x.date \in Dates
         /\ x.final \in BOOLEAN
         /\ MonthOf(x.date) \in Months /\ MonthOf(x.date) \in Int
         /\ x.what # "entry" => x.final
         /\ x.what \in {"expense", "rate"} => x.emp = None
BY NoneIsNoRow, MonthsAreOrdered DEF Row, Dates, MonthOf

LEMMA MergedRow ==
  ASSUME NEW x \in Row, NEW w \in Row, NEW d \in {x.date, w.date}, NEW v \in {x.value, w.value},
         NEW f \in {x.final, w.final}, NEW e \in {x.emp, w.emp},
         x.what = w.what
  PROVE  [x EXCEPT !.date = d, !.value = v, !.final = f, !.emp = e] \in Row
<1> DEFINE y == [x EXCEPT !.date = d, !.value = v, !.final = f, !.emp = e]
<1>1. y \in [what : OfMonth \cup Onward, emp : Emps \cup {None}, date : Dates,
             value : Values, final : BOOLEAN]
  BY DEF Row
<1>2. y.what # "entry" => y.final
  BY DEF Row
<1>3. y.what \in {"expense", "rate"} => y.emp = None
  BY DEF Row
<1> QED
  BY <1>1, <1>2, <1>3 DEF Row

LEMMA AffectsRow == \A m : ~Affects(None, m)
BY DEF Affects

\* A row of a month's own counts in that month only.
LEMMA AffectsOwn ==
  ASSUME NEW x \in Row, x.what \in OfMonth, NEW m
  PROVE  Affects(x, m) <=> m \in MonthsOf(x)
BY RowFields DEF Affects, MonthsOf, OfMonth, Onward

\* A revision or a rate counts from its month on.
LEMMA AffectsOnward ==
  ASSUME NEW x \in Row, x.what \in Onward, NEW m
  PROVE  Affects(x, m) <=> MonthOf(x.date) <= m
BY RowFields DEF Affects, OfMonth, Onward

-----------------------------------------------------------------------------
(***************************************************************************)
(* What a step of one request leaves of the others                         *)
(***************************************************************************)
\* The step is r's: no other request moves.
Frame(r) ==
  /\ kind' = kind
  /\ \A q \in Req \ {r} : /\ pc'[q] = pc[q] /\ job'[q] = job[q] /\ old'[q] = old[q]
                          /\ todo'[q] = todo[q] /\ holds'[q] = holds[q]

\* What it does to row i: it respects the locks and the settled months.
Writes(r, i) ==
  /\ \A q \in Req \ {r} : i \notin holds[q]
  /\ \/ i = r /\ pc[r] # "done" /\ pc'[r] = "done"
     \/ rows'[i] = None
     \/ rows[i] # None /\ rows'[i] # None /\ rows'[i].what = rows[i].what

Unsettling(i) == \A m \in settled : ~Affects(rows[i], m) /\ ~Affects(rows'[i], m)

RowStep(r) == \A i \in RowIds : rows'[i] # rows[i] => Writes(r, i) /\ Unsettling(i)

\* It changes no closure whose row another request has locked.
ClosureStep(r) == \A q \in Req \ {r}, m \in Months : m \in holds[q] => closure'[m] = closure[m]

\* A month settles only where no other request is left.
SettledStep(r) == \A q \in Req \ {r} : Running(q) => settled' \subseteq settled

LEMMA LockedRow ==
  ASSUME TypeInv, NEW q \in Req, NEW i \in RowIds, i \in holds[q]
  PROVE  /\ Running(q) /\ kind[q] = "change" /\ pc[q] # "lock"
         /\ job[q].id = i /\ rows[i] = old[q][i] /\ rows[i] \in Row
BY RowsAreNotMonths DEF TypeInv, Works, Rests, Adds, Moves, Removes, Hires, Dismisses, Toggles

\* The tables a step leaves, whoever made it.
LEMMA TablesMade ==
  ASSUME TypeInv, NEW r \in Req, Frame(r), RowStep(r),
         Requests',
         old'[r] # old[r] => \A i \in RowIds : old'[r][i] # None => old'[r][i] = rows[i],
         old'[r] # old[r] => rows' = rows,
         pc'[r] # "done" => pc[r] # "done"
  PROVE  Unmade' /\ SameTable'
<1> USE DEF TypeInv, Unmade
<1>1. ASSUME NEW p \in Req, pc'[p] # "done"
      PROVE  rows'[p] = None /\ \A q \in Req : old'[q][p] = None
  <2>1. pc[p] # "done" /\ rows[p] = None /\ \A q \in Req : old[q][p] = None
    BY <1>1 DEF Frame
  <2>2. p \in RowIds
    BY DEF RowIds
  <2>3. rows'[p] = None
    BY <1>1, <2>1, <2>2 DEF RowStep, Writes
  <2>4. old'[r][p] = None
    BY <2>1, <2>2
  <2> QED
    BY <2>1, <2>3, <2>4 DEF Frame
<1>2. ASSUME NEW q \in Req, NEW i \in RowIds, old'[q][i] # None, rows'[i] # None
      PROVE  rows'[i].what = old'[q][i].what
  <2>1. CASE old'[q] # old[q]
    BY <2>1, <1>2 DEF Frame
  <2>2. CASE old'[q] = old[q]
    <3>1. CASE rows'[i] = rows[i]
      BY <2>2, <3>1, <1>2 DEF SameTable
    <3>2. CASE rows'[i] # rows[i]
      BY <2>2, <3>2, <1>2 DEF SameTable, RowStep, Writes
    <3> QED
      BY <3>1, <3>2
  <2> QED
    BY <2>1, <2>2
<1> QED
  BY <1>1, <1>2 DEF SameTable

LEMMA OthersWork ==
  ASSUME TypeInv, NEW r \in Req, Frame(r), RowStep(r), ClosureStep(r), NEW q \in Req \ {r}
  PROVE  Works(q)' /\ Rests(q)'
<1>1. Rests(q)'
  BY DEF TypeInv, Rests, Frame, Running
<1>2. ASSUME Running(q)
      PROVE  /\ job[q] \in Job
             /\ \/ kind[q] = "add" /\ Adds(q)'
                \/ kind[q] = "change" /\ Moves(q)'
                \/ kind[q] = "remove" /\ Removes(q)'
                \/ kind[q] = "hire" /\ Hires(q)'
                \/ kind[q] = "dismiss" /\ Dismisses(q)'
                \/ kind[q] \in Toggling /\ Toggles(q)'
  <2>0. Works(q)
    BY DEF TypeInv
  <2>1. CASE kind[q] = "add" /\ Adds(q)
    BY <2>0, <2>1, <1>2 DEF Works, Frame, Adds
  <2>2. CASE kind[q] = "change" /\ Moves(q)
    <3>1. job[q].id \in holds[q] => rows'[job[q].id] = rows[job[q].id]
      BY <2>2 DEF RowStep, Writes, Moves
    <3> QED
      BY <2>0, <2>2, <3>1, <1>2 DEF Works, Frame, Moves
  <2>3. CASE kind[q] = "remove" /\ Removes(q)
    BY <2>0, <2>3, <1>2 DEF Works, Frame, Removes
  <2>4. CASE kind[q] = "hire" /\ Hires(q)
    BY <2>0, <2>4, <1>2 DEF Works, Frame, Hires
  <2>5. CASE kind[q] = "dismiss" /\ Dismisses(q)
    BY <2>0, <2>5, <1>2 DEF Works, Frame, Dismisses
  <2>6. CASE kind[q] \in Toggling /\ Toggles(q)
    <3>1. holds[q] = {job[q].id} => closure'[job[q].id] = closure[job[q].id]
      BY <2>6 DEF ClosureStep, Toggles
    <3> QED
      BY <2>0, <2>6, <3>1, <1>2 DEF Works, Frame, Toggles
  <2> QED
    BY <2>0, <2>1, <2>2, <2>3, <2>4, <2>5, <2>6, <1>2 DEF Works
<1> QED
  BY <1>1, <1>2 DEF Works, Frame, Running

\* What another request knows of a settled month survives the step.
LEMMA OthersSettled ==
  ASSUME TypeInv, SettledInv, NEW r \in Req, Frame(r), RowStep(r), SettledStep(r),
         NEW q \in Req \ {r}, NEW m \in settled', Running(q)'
  PROVE  Fresh(q, m)' /\ Checked(q, m)' /\ Spared(q, m)'
<1>1. Running(q) /\ m \in settled
  BY DEF Frame, Running, SettledStep
<1>2. Fresh(q, m) /\ Checked(q, m) /\ Spared(q, m)
  BY <1>1 DEF SettledInv
<1>3. \A i \in RowIds : Affects(rows[i], m) \/ Affects(rows'[i], m) => rows'[i] = rows[i]
  BY <1>1 DEF RowStep, Unsettling
<1>4. Fresh(q, m)'
  <2>1. ASSUME NEW i \in RowIds, old[q][i] # None, Affects(old[q][i], m) \/ Affects(rows'[i], m)
        PROVE  rows'[i] = old[q][i]
    <3>1. CASE rows'[i] = rows[i]
      BY <1>2, <2>1, <3>1 DEF Fresh
    <3>2. CASE rows'[i] # rows[i]
      <4>1. Affects(old[q][i], m)
        BY <1>3, <2>1, <3>2
      <4>2. rows[i] = old[q][i]
        BY <1>2, <2>1, <4>1 DEF Fresh
      <4> QED
        BY <1>3, <4>1, <4>2
    <3> QED
      BY <3>1, <3>2
  <2> QED
    BY <2>1 DEF Fresh, Frame
<1>5. Checked(q, m)'
  BY <1>2 DEF Checked, Frame, Touched
<1>6. Spared(q, m)'
  BY <1>2, <1>3 DEF Spared, Frame
<1> QED
  BY <1>4, <1>5, <1>6

\* All that a step of r has to see to for the others.
Stepping(r) ==
  /\ Frame(r) /\ RowStep(r) /\ ClosureStep(r) /\ SettledStep(r)
  /\ old'[r] # old[r] => rows' = rows /\ \A i \in RowIds : old'[r][i] # None => old'[r][i] = rows[i]
  /\ pc'[r] # "done" => pc[r] # "done"
  /\ Tables' /\ Requests' /\ Rests(r)'

Knows(r) == \A m \in settled : Running(r) => Fresh(r, m) /\ Checked(r, m) /\ Spared(r, m)

Inv == TypeInv /\ SettledInv

\* The step is r's, and nothing that counts in a settled month changes.
Keeps(r) ==
  /\ Frame(r)
  /\ \A i \in RowIds, m \in settled :
       rows'[i] # rows[i] => ~Affects(rows[i], m) /\ ~Affects(rows'[i], m)

LEMMA StepKeeps ==
  ASSUME Inv, NEW r \in Req, Stepping(r), Works(r)', Knows(r)'
  PROVE  Inv' /\ Keeps(r)
<1>1. Unmade' /\ SameTable'
  BY TablesMade DEF Inv, Stepping
<1>2. \A q \in Req : Works(q)' /\ Rests(q)'
  <2>1. ASSUME NEW q \in Req \ {r}
        PROVE  Works(q)' /\ Rests(q)'
    BY OthersWork DEF Inv, Stepping
  <2> QED
    BY <2>1 DEF Stepping
<1>3. SettledInv'
  <2>1. ASSUME NEW q \in Req \ {r}, NEW m \in settled', Running(q)'
        PROVE  Fresh(q, m)' /\ Checked(q, m)' /\ Spared(q, m)'
    BY <2>1, OthersSettled DEF Inv, Stepping
  <2> QED
    BY <2>1 DEF Knows, SettledInv
<1>4. Keeps(r)
  BY DEF Stepping, RowStep, Unsettling, Keeps
<1> QED
  BY <1>1, <1>2, <1>3, <1>4 DEF Inv, TypeInv, Stepping

LEMMA InitInv == Init => Inv
<1> SUFFICES ASSUME Init PROVE Inv
  OBVIOUS
<1>1. PICK d \in Databases : closure = d.closure /\ hired = d.hired /\ rows = d.rows
  BY DEF Init
<1>2. Tables
  BY <1>1, InputsTyped DEF Init, Tables, Body, Emps
<1>3. Requests
  BY InputsTyped DEF Init, Requests, NoRows, Body
<1>4. Unmade /\ SameTable
  BY <1>1, InputsTyped DEF Init, Unmade, SameTable, NoRows, RowIds
<1>5. \A r \in Req : ~Running(r) /\ holds[r] = {}
  BY DEF Init, Running
<1> QED
  BY <1>2, <1>3, <1>4, <1>5 DEF Inv, TypeInv, SettledInv, Works, Rests
-----------------------------------------------------------------------------
(***************************************************************************)
(* Requests arrive                                                         *)
(***************************************************************************)
Loaded(old_) == \A i \in RowIds : old_[i] # None => old_[i] = rows[i]

LEMMA BeginSteps ==
  ASSUME Inv, NEW r \in Req, NEW k \in Kinds,
         NEW at \in {"lock", "ensure", "ripple", "deletable"}, NEW j \in Job,
         NEW loaded \in [RowIds -> Body], NEW months \in SUBSET Months,
         Begin(r, k, at, j, loaded, months), Loaded(loaded)
  PROVE  /\ Stepping(r)
         /\ \A m \in settled' : Fresh(r, m)'
         /\ pc[r] = "idle" /\ kind[r] = k /\ kind'[r] = k /\ pc'[r] = at /\ job'[r] = j
         /\ old'[r] = loaded /\ todo'[r] = months /\ holds'[r] = {}
         /\ rows' = rows /\ closure' = closure /\ settled' = settled
<1> USE DEF Inv, TypeInv, Begin, committed
<1>1. /\ pc[r] = "idle" /\ kind[r] = k /\ kind' = kind /\ pc'[r] = at /\ job'[r] = j
      /\ old'[r] = loaded /\ todo'[r] = months /\ holds' = holds
      /\ rows' = rows /\ closure' = closure /\ settled' = settled /\ hired' = hired
  BY DEF Requests
<1>2. holds[r] = {}
  BY <1>1 DEF Rests, Running
<1>3. Requests'
  BY <1>1 DEF Requests
<1>4. Tables'
  BY <1>1 DEF Tables, Closed
<1>5. Frame(r)
  BY <1>1 DEF Frame, Requests
<1>6. RowStep(r) /\ ClosureStep(r) /\ SettledStep(r)
  BY <1>1 DEF RowStep, ClosureStep, SettledStep
<1>7. \A m \in settled' : Fresh(r, m)'
  BY <1>1 DEF Fresh, Loaded
<1> QED
  BY <1>1, <1>2, <1>3, <1>4, <1>5, <1>6, <1>7 DEF Stepping, Loaded, Rests

LEMMA OnlyLoaded ==
  ASSUME Inv, NEW i \in RowIds
  PROVE  /\ Only(i) \in [RowIds -> Body] /\ Loaded(Only(i))
         /\ Only(i)[i] = rows[i]
         /\ \A j \in RowIds \ {i} : Only(i)[j] = None
BY DEF Inv, TypeInv, Tables, Only, NoRows, Loaded, Body

LEMMA NoneLoaded == NoRows \in [RowIds -> Body] /\ Loaded(NoRows)
BY DEF NoRows, Body, Loaded

LEMMA MonthsTyped ==
  ASSUME NEW x \in Row
  PROVE  MonthsOf(x) \subseteq Months
BY RowFields DEF MonthsOf

LEMMA AddArrives ==
  ASSUME Inv, NEW r \in Req, AddRow(r)
  PROVE  Inv' /\ Keeps(r)
<1>1. PICK w \in Bodies :
        LET history == IF w.what = "revision" THEN RowsOf(w.emp, {"revision"}) ELSE {} IN
        Begin(r, "add", Guard(w), [id |-> r, body |-> w],
              [i \in RowIds |-> IF i \in history THEN rows[i] ELSE None], MonthsOf(w))
  BY DEF AddRow
<1> DEFINE history == IF w.what = "revision" THEN RowsOf(w.emp, {"revision"}) ELSE {}
           loaded == [i \in RowIds |-> IF i \in history THEN rows[i] ELSE None]
<1>2. w \in Row
  BY InputsTyped
<1>3. loaded \in [RowIds -> Body] /\ Loaded(loaded)
  BY DEF Inv, TypeInv, Tables, Body, Loaded
<1>4. [id |-> r, body |-> w] \in Job
  BY <1>2 DEF Job, Body, RowIds
<1>5. Begin(r, "add", Guard(w), [id |-> r, body |-> w], loaded, MonthsOf(w))
  BY <1>1
<1> HIDE DEF loaded, history
<1>6. Guard(w) \in {"ensure", "ripple"} /\ (Guard(w) = "ensure" <=> w.what \in OfMonth)
      /\ (Guard(w) = "ripple" <=> w.what \in Onward)
  BY <1>2, RowFields DEF Guard, OfMonth, Onward
<1>7. /\ Stepping(r)
      /\ \A m \in settled' : Fresh(r, m)'
      /\ kind'[r] = "add" /\ pc'[r] = Guard(w) /\ job'[r] = [id |-> r, body |-> w]
      /\ todo'[r] = MonthsOf(w) /\ holds'[r] = {}
  BY <1>2, <1>3, <1>4, <1>5, <1>6, BeginSteps, MonthsTyped DEF Kinds
<1>8. Works(r)'
  BY <1>2, <1>4, <1>6, <1>7 DEF Works, Adds, Running
<1>9. Knows(r)'
  BY <1>6, <1>7 DEF Knows, Checked, Spared, Touched, Saving
<1> QED
  BY <1>7, <1>8, <1>9, StepKeeps

LEMMA ChangeArrives ==
  ASSUME Inv, NEW r \in Req, ChangeRow(r)
  PROVE  Inv' /\ Keeps(r)
<1>1. PICK i \in RowIds, w \in Bodies :
        /\ rows[i] # None
        /\ w.what = rows[i].what
        /\ w.what \in OfMonth \ {"entry"}
        /\ w.emp = rows[i].emp
        /\ Begin(r, "change", "ensure", [id |-> i, body |-> w], Only(i), MonthsToCheck(rows[i], w))
  BY DEF ChangeRow
<1>2. w \in Row /\ rows[i] \in Row
  BY <1>1, InputsTyped DEF Inv, TypeInv, Tables, Body
<1>3. MonthsToCheck(rows[i], w) \in SUBSET Months
  BY <1>2, MonthsTyped DEF MonthsToCheck
<1>4. [id |-> i, body |-> w] \in Job
  BY <1>2 DEF Job, Body
<1>5. /\ Stepping(r)
      /\ \A m \in settled' : Fresh(r, m)'
      /\ kind'[r] = "change" /\ pc'[r] = "ensure" /\ job'[r] = [id |-> i, body |-> w]
      /\ old'[r] = Only(i) /\ todo'[r] = MonthsToCheck(rows[i], w) /\ holds'[r] = {}
  BY <1>1, <1>3, <1>4, OnlyLoaded, BeginSteps DEF Kinds
<1>6. old'[r][i] = rows[i]
  BY <1>5, OnlyLoaded
<1>7. Works(r)'
  BY <1>1, <1>2, <1>4, <1>5, <1>6 DEF Works, Moves, Running
<1>8. Knows(r)'
  BY <1>5, <1>6 DEF Knows, Checked, Spared, Touched, MonthsToCheck
<1> QED
  BY <1>5, <1>7, <1>8, StepKeeps

LEMMA EntryArrives ==
  ASSUME Inv, NEW r \in Req, ChangeEntry(r)
  PROVE  Inv' /\ Keeps(r)
<1>1. PICK i \in RowIds, w \in Bodies :
        /\ w.what = "entry"
        /\ Begin(r, "change", "lock", [id |-> i, body |-> w], NoRows, {})
  BY DEF ChangeEntry
<1>2. w \in Row /\ [id |-> i, body |-> w] \in Job
  BY InputsTyped DEF Job, Body
<1>3. /\ Stepping(r)
      /\ \A m \in settled' : Fresh(r, m)'
      /\ kind'[r] = "change" /\ pc'[r] = "lock" /\ job'[r] = [id |-> i, body |-> w]
      /\ holds'[r] = {}
  BY <1>1, <1>2, NoneLoaded, BeginSteps DEF Kinds
<1>4. Works(r)'
  BY <1>1, <1>2, <1>3 DEF Works, Moves, Running, OfMonth
<1>5. Knows(r)'
  BY <1>3 DEF Knows, Checked, Spared
<1> QED
  BY <1>3, <1>4, <1>5, StepKeeps

LEMMA RemovalArrives ==
  ASSUME Inv, NEW r \in Req, RemoveRow(r) \/ RemoveRevision(r)
  PROVE  Inv' /\ Keeps(r)
<1>1. PICK i \in RowIds :
        /\ rows[i] # None
        /\ \E months \in {MonthsOf(rows[i]), {}} :
             /\ Begin(r, "remove", Guard(rows[i]), [id |-> i, body |-> rows[i]], Only(i), months)
             /\ rows[i].what \in OfMonth => months = MonthsOf(rows[i])
  BY DEF RemoveRow, RemoveRevision, Guard, Onward, OfMonth
<1>2. PICK months \in {MonthsOf(rows[i]), {}} :
        /\ Begin(r, "remove", Guard(rows[i]), [id |-> i, body |-> rows[i]], Only(i), months)
        /\ rows[i].what \in OfMonth => months = MonthsOf(rows[i])
  BY <1>1
<1>3. rows[i] \in Row
  BY <1>1 DEF Inv, TypeInv, Tables, Body
<1>4. [id |-> i, body |-> rows[i]] \in Job /\ months \in SUBSET Months
  BY <1>3, MonthsTyped DEF Job, Body
<1>5. Guard(rows[i]) \in {"ensure", "ripple"} /\ (Guard(rows[i]) = "ensure" <=> rows[i].what \in OfMonth)
      /\ (Guard(rows[i]) = "ripple" <=> rows[i].what \in Onward)
  BY <1>3, RowFields DEF Guard, OfMonth, Onward
<1>6. /\ Stepping(r)
      /\ \A m \in settled' : Fresh(r, m)'
      /\ kind'[r] = "remove" /\ pc'[r] = Guard(rows[i]) /\ job'[r] = [id |-> i, body |-> rows[i]]
      /\ old'[r] = Only(i) /\ todo'[r] = months /\ holds'[r] = {}
  BY <1>2, <1>4, <1>5, OnlyLoaded, BeginSteps DEF Kinds
<1>7. old'[r][i] = rows[i]
  BY <1>6, OnlyLoaded
<1>8. Works(r)'
  BY <1>3, <1>4, <1>5, <1>6, <1>7 DEF Works, Removes, Running
<1>9. Knows(r)'
  BY <1>2, <1>5, <1>6, <1>7 DEF Knows, Checked, Spared, Touched
<1> QED
  BY <1>6, <1>8, <1>9, StepKeeps

LEMMA HireArrives ==
  ASSUME Inv, NEW r \in Req, Hire(r)
  PROVE  Inv' /\ Keeps(r)
<1>1. PICK w \in Bodies :
        /\ w.what = "revision"
        /\ Begin(r, "hire", "ripple", [id |-> r, body |-> [w EXCEPT !.emp = r]], NoRows, {})
  BY DEF Hire
<1> DEFINE x == [w EXCEPT !.emp = r]
<1>2. x \in Row /\ x.what = "revision" /\ x.emp = r
  BY <1>1, InputsTyped DEF Row, Emps
<1>3. [id |-> r, body |-> x] \in Job
  BY <1>2 DEF Job, Body, RowIds
<1>4. Begin(r, "hire", "ripple", [id |-> r, body |-> x], NoRows, {})
  BY <1>1
<1> HIDE DEF x
<1>5. /\ Stepping(r)
      /\ \A m \in settled' : Fresh(r, m)'
      /\ kind'[r] = "hire" /\ pc'[r] = "ripple" /\ job'[r] = [id |-> r, body |-> x]
      /\ holds'[r] = {}
  BY <1>3, <1>4, NoneLoaded, BeginSteps DEF Kinds
<1>6. Works(r)'
  BY <1>2, <1>3, <1>5 DEF Works, Hires, Running
<1>7. Knows(r)'
  BY <1>5 DEF Knows, Checked, Spared
<1> QED
  BY <1>5, <1>6, <1>7, StepKeeps

LEMMA DismissalArrives ==
  ASSUME Inv, NEW r \in Req, Dismiss(r)
  PROVE  Inv' /\ Keeps(r)
<1>1. PICK e \in hired :
        LET loaded == RowsOf(e, {"revision", "credit", "entry", "payment"}) IN
        Begin(r, "dismiss", "deletable", [id |-> e, body |-> None],
              [i \in RowIds |-> IF i \in loaded THEN rows[i] ELSE None], {})
  BY DEF Dismiss
<1> DEFINE its == RowsOf(e, InMemory)
           loaded == [i \in RowIds |-> IF i \in its THEN rows[i] ELSE None]
<1>2. Begin(r, "dismiss", "deletable", [id |-> e, body |-> None], loaded, {})
  BY <1>1 DEF InMemory
<1>3. loaded \in [RowIds -> Body] /\ Loaded(loaded)
  BY DEF Inv, TypeInv, Tables, Body, Loaded
<1>4. e \in Emps /\ [id |-> e, body |-> None] \in Job
  BY DEF Job, Body, Inv, TypeInv, Tables
<1>5. ASSUME NEW i \in RowIds, NEW m, Affects(rows[i], m), rows[i].emp = e, rows[i].what \in InMemory
      PROVE  loaded[i] = rows[i]
  BY <1>5 DEF RowsOf, Affects
<1> HIDE DEF loaded
<1>6. /\ Stepping(r)
      /\ \A m \in settled' : Fresh(r, m)'
      /\ kind'[r] = "dismiss" /\ pc'[r] = "deletable" /\ job'[r] = [id |-> e, body |-> None]
      /\ old'[r] = loaded /\ holds'[r] = {} /\ rows' = rows
  BY <1>2, <1>3, <1>4, BeginSteps DEF Kinds
<1>7. Works(r)'
  BY <1>4, <1>6 DEF Works, Dismisses, Running
<1>8. Knows(r)'
  BY <1>5, <1>6 DEF Knows, Checked, Spared, Saving
<1> QED
  BY <1>6, <1>7, <1>8, StepKeeps

LEMMA ToggleArrives ==
  ASSUME Inv, NEW r \in Req, ClosePeriod(r) \/ ReopenPeriod(r)
  PROVE  Inv' /\ Keeps(r)
<1>1. PICK m \in Months, k \in Toggling : Begin(r, k, "lock", [id |-> m, body |-> None], NoRows, {})
  BY DEF ClosePeriod, ReopenPeriod, Toggling
<1>2. [id |-> m, body |-> None] \in Job
  BY DEF Job, Body
<1>3. /\ Stepping(r)
      /\ \A n \in settled' : Fresh(r, n)'
      /\ kind'[r] = k /\ pc'[r] = "lock" /\ job'[r] = [id |-> m, body |-> None] /\ holds'[r] = {}
  BY <1>1, <1>2, NoneLoaded, BeginSteps DEF Kinds, Toggling
<1>4. Works(r)'
  BY <1>2, <1>3 DEF Works, Toggles, Running
<1>5. Knows(r)'
  BY <1>3 DEF Knows, Checked, Spared, Toggling, Saving
<1> QED
  BY <1>3, <1>4, <1>5, StepKeeps

-----------------------------------------------------------------------------
(***************************************************************************)
(* Requests end, or go on                                                  *)
(***************************************************************************)
LEMMA EndKeeps ==
  ASSUME Inv, NEW r \in Req, NEW outcome \in {"done", "failed"}, Running(r),
         End(r, outcome),
         pc' = [pc EXCEPT ![r] = outcome] => RowStep(r),
         ClosureStep(r),
         closure' \in [Months -> Statuses], hired' \subseteq Emps, rows' \in [RowIds -> Body],
         \A i \in RowIds : rows'[i] # None => rows'[i].emp \in hired' \cup {None}
  PROVE  Inv' /\ Keeps(r)
<1> USE DEF Inv, TypeInv, End
<1>1. Requests'
  BY DEF Requests, NoRows, Body
<1>2. Tables'
  BY DEF Tables, Closed
<1>3. Frame(r)
  BY DEF Frame, Requests
<1>4. SettledStep(r)
  BY DEF SettledStep
<1>5. ~Running(r)' /\ holds'[r] = {}
  BY DEF Running, Requests
<1>6. old'[r] # old[r] => \A i \in RowIds : old'[r][i] = None
  BY DEF Requests, NoRows
<1>7. Unmade' /\ SameTable'
  <2>1. RowStep(r)
    OBVIOUS
  <2>2. ASSUME NEW p \in Req, pc'[p] # "done"
        PROVE  rows'[p] = None /\ \A q \in Req : old'[q][p] = None
    <3>1. pc[p] # "done"
      BY <2>2 DEF Requests, Running
    <3>2. rows[p] = None /\ \A q \in Req : old[q][p] = None
      BY <3>1 DEF Unmade
    <3>3. p \in RowIds
      BY DEF RowIds
    <3> QED
      BY <1>3, <1>6, <2>1, <2>2, <3>2, <3>3 DEF RowStep, Writes, Frame
  <2>3. ASSUME NEW q \in Req, NEW i \in RowIds, old'[q][i] # None, rows'[i] # None
        PROVE  rows'[i].what = old'[q][i].what
    <3>1. old'[q] = old[q]
      BY <2>3, <1>3, <1>6 DEF Frame
    <3>2. CASE rows'[i] = rows[i]
      BY <2>3, <3>1, <3>2 DEF SameTable
    <3>3. CASE rows'[i] # rows[i]
      <4>1. Writes(r, i)
        BY <2>1, <3>3 DEF RowStep
      <4>2. i # r \/ pc[r] = "done"
        BY <2>3, <3>1 DEF Unmade
      <4> QED
        BY <2>3, <3>1, <4>1, <4>2 DEF SameTable, Writes
    <3> QED
      BY <3>2, <3>3
  <2> QED
    BY <2>2, <2>3 DEF Unmade, SameTable
<1>8. \A q \in Req : Works(q)' /\ Rests(q)'
  <2>1. ASSUME NEW q \in Req \ {r}
        PROVE  Works(q)' /\ Rests(q)'
    BY <1>3, OthersWork
  <2> QED
    BY <2>1, <1>5 DEF Works, Rests
<1>9. SettledInv'
  <2>1. ASSUME NEW q \in Req \ {r}, NEW m \in settled', Running(q)'
        PROVE  Fresh(q, m)' /\ Checked(q, m)' /\ Spared(q, m)'
    BY <1>3, <1>4, <2>1, OthersSettled
  <2> QED
    BY <2>1, <1>5 DEF SettledInv
<1>10. Keeps(r)
  BY <1>3 DEF Keeps, RowStep, Unsettling
<1> QED
  BY <1>1, <1>2, <1>7, <1>8, <1>9, <1>10

LEMMA RejectKeeps ==
  ASSUME Inv, NEW r \in Req, Running(r), Reject(r)
  PROVE  Inv' /\ Keeps(r)
<1>1. rows' = rows /\ closure' = closure /\ hired' = hired /\ End(r, "failed")
  BY DEF Reject, committed
<1>2. RowStep(r) /\ ClosureStep(r)
  BY <1>1 DEF RowStep, ClosureStep
<1> QED
  BY <1>1, <1>2, EndKeeps DEF Inv, TypeInv, Tables

\* A step that commits nothing and does not end the request.
LEMMA GoesOnKeeps ==
  ASSUME Inv, NEW r \in Req, Running(r), Running(r)', Frame(r), Requests',
         UNCHANGED <<committed, settled>>,
         old'[r] # old[r] => \A i \in RowIds : old'[r][i] # None => old'[r][i] = rows[i],
         Works(r)', Knows(r)'
  PROVE  Inv' /\ Keeps(r)
<1>1. rows' = rows /\ closure' = closure /\ hired' = hired /\ settled' = settled
  BY DEF committed
<1>2. Tables'
  BY <1>1 DEF Inv, TypeInv, Tables, Closed
<1>3. Stepping(r)
  BY <1>1, <1>2 DEF Stepping, RowStep, ClosureStep, SettledStep, Rests, Running
<1> QED
  BY <1>3, StepKeeps

LEMMA ProceedKeeps ==
  ASSUME Inv, NEW r \in Req, NEW at \in {"ensure", "attendance", "insert", "write"},
         NEW months \in SUBSET Months, Running(r), Proceed(r, at, months),
         pc' = [pc EXCEPT ![r] = at] /\ todo' = [todo EXCEPT ![r] = months] => Works(r)',
         \A m \in settled : Checked(r, m)' /\ Spared(r, m)'
  PROVE  Inv' /\ Keeps(r)
<1> USE DEF Inv, TypeInv, Proceed, committed
<1>1. Frame(r) /\ Requests' /\ Running(r)'
  BY DEF Frame, Requests, Running
<1>2. Knows(r)'
  <2>1. \A m \in settled : Fresh(r, m)'
    BY DEF SettledInv, Fresh, Requests
  <2> QED
    BY <2>1 DEF Knows
<1> QED
  BY <1>1, <1>2, GoesOnKeeps

-----------------------------------------------------------------------------
(***************************************************************************)
(* The checks                                                              *)
(***************************************************************************)
LEMMA SettledClosed == ASSUME Inv, NEW m \in settled PROVE m \in Months /\ Closed(m)
BY DEF Inv, TypeInv, Tables

\* What a request that is under way is about, by the statement it is at.
LEMMA AtStatement ==
  ASSUME Inv, NEW r \in Req, Running(r)
  PROVE  /\ job[r] \in Job
         /\ pc[r] = "ensure" => \/ kind[r] = "add" /\ Adds(r)
                                \/ kind[r] = "change" /\ Moves(r)
                                \/ kind[r] = "remove" /\ Removes(r)
         /\ pc[r] = "ripple" => \/ kind[r] = "add" /\ Adds(r)
                                \/ kind[r] = "remove" /\ Removes(r)
                                \/ kind[r] = "hire" /\ Hires(r)
         /\ pc[r] \in {"deletable", "attendance"} => kind[r] = "dismiss" /\ Dismisses(r)
         /\ pc[r] \in {"status", "insert"} => kind[r] \in Toggling /\ Toggles(r)
<1>1. /\ job[r] \in Job
      /\ \/ kind[r] = "add" /\ Adds(r)
         \/ kind[r] = "change" /\ Moves(r)
         \/ kind[r] = "remove" /\ Removes(r)
         \/ kind[r] = "hire" /\ Hires(r)
         \/ kind[r] = "dismiss" /\ Dismisses(r)
         \/ kind[r] \in Toggling /\ Toggles(r)
  BY DEF Inv, TypeInv, Works
<1>2. Adds(r) => pc[r] \in {"ensure", "ripple", "write"}
  BY DEF Adds
<1>3. Moves(r) => pc[r] \in {"lock", "ensure", "write"}
  BY DEF Moves
<1>4. Removes(r) => pc[r] \in {"ensure", "ripple", "write"}
  BY DEF Removes
<1>5. Hires(r) => pc[r] \in {"ripple", "write"}
  BY DEF Hires
<1>6. Dismisses(r) => pc[r] \in {"deletable", "attendance", "write"}
  BY DEF Dismisses
<1>7. Toggles(r) => pc[r] \in {"lock", "status", "insert", "write"}
  BY DEF Toggles
<1>8. ASSUME pc[r] = "ensure"
      PROVE  \/ kind[r] = "add" /\ Adds(r)
             \/ kind[r] = "change" /\ Moves(r)
             \/ kind[r] = "remove" /\ Removes(r)
  BY <1>1, <1>5, <1>6, <1>7, <1>8
<1>9. ASSUME pc[r] = "ripple"
      PROVE  \/ kind[r] = "add" /\ Adds(r)
             \/ kind[r] = "remove" /\ Removes(r)
             \/ kind[r] = "hire" /\ Hires(r)
  BY <1>1, <1>3, <1>6, <1>7, <1>9
<1>10. ASSUME pc[r] \in {"deletable", "attendance"}
       PROVE  kind[r] = "dismiss" /\ Dismisses(r)
  BY <1>1, <1>2, <1>3, <1>4, <1>5, <1>7, <1>10
<1>11. ASSUME pc[r] \in {"status", "insert"}
       PROVE  kind[r] \in Toggling /\ Toggles(r)
  BY <1>1, <1>2, <1>3, <1>4, <1>5, <1>6, <1>11
<1> QED
  BY <1>1, <1>8, <1>9, <1>10, <1>11

LEMMA EnsureKeeps ==
  ASSUME Inv, NEW r \in Req, EnsurePeriodOpen(r)
  PROVE  Inv' /\ Keeps(r)
<1>1. pc[r] = "ensure" /\ Running(r)
  BY DEF EnsurePeriodOpen, Running
<1>2. \/ kind[r] = "add" /\ Adds(r)
      \/ kind[r] = "change" /\ Moves(r)
      \/ kind[r] = "remove" /\ Removes(r)
  BY <1>1, AtStatement
<1>3. job[r].body.what \in OfMonth /\ job[r].body.what \notin Onward
  BY <1>1, <1>2 DEF Adds, Moves, Removes, OfMonth, Onward
<1>4. job[r] \in Job /\ todo[r] \in SUBSET Months
  BY <1>1, AtStatement DEF Inv, TypeInv, Requests
<1>5. \A m \in settled : m \in Touched(r) => m \in todo[r]
  BY <1>1, <1>2 DEF Inv, SettledInv, Checked, Saving
<1>6. CASE todo[r] = {} /\ Proceed(r, "write", {})
  <2>1. pc' = [pc EXCEPT ![r] = "write"] => Works(r)'
    BY <1>1, <1>2, <1>4, <1>6
       DEF Works, Adds, Moves, Removes, Running, Proceed, committed, Inv, TypeInv, Requests
  <2>2. \A m \in settled : Checked(r, m)' /\ Spared(r, m)'
    BY <1>2, <1>3, <1>5, <1>6 DEF Checked, Spared, Touched, Proceed, Inv, TypeInv, Requests
  <2> QED
    BY <1>1, <1>6, <2>1, <2>2, ProceedKeeps
<1>7. ASSUME NEW m \in todo[r], Closed(m), Reject(r)
      PROVE  Inv' /\ Keeps(r)
  BY <1>1, <1>7, RejectKeeps
<1>8. ASSUME NEW m \in todo[r], ~Closed(m), Proceed(r, "ensure", todo[r] \ {m})
      PROVE  Inv' /\ Keeps(r)
  <2>1. pc' = [pc EXCEPT ![r] = "ensure"] => Works(r)'
    BY <1>1, <1>2, <1>4, <1>8
       DEF Works, Adds, Moves, Removes, Running, Proceed, committed, Inv, TypeInv, Requests
  <2>2. \A n \in settled : n # m
    BY <1>8, SettledClosed
  <2>3. \A n \in settled : Checked(r, n)' /\ Spared(r, n)'
    BY <1>2, <1>5, <1>8, <2>2 DEF Checked, Spared, Touched, Proceed, Inv, TypeInv, Requests
  <2> QED
    BY <1>1, <1>4, <1>8, <2>1, <2>3, ProceedKeeps
<1> QED
  BY <1>6, <1>7, <1>8 DEF EnsurePeriodOpen

LEMMA RippleKeeps ==
  ASSUME Inv, NEW r \in Req, EnsureNoClosedOnOrAfter(r)
  PROVE  Inv' /\ Keeps(r)
<1>1. pc[r] = "ripple" /\ Running(r)
  BY DEF EnsureNoClosedOnOrAfter, Running
<1>2. \/ kind[r] = "add" /\ Adds(r)
      \/ kind[r] = "remove" /\ Removes(r)
      \/ kind[r] = "hire" /\ Hires(r)
  BY <1>1, AtStatement
<1>3. job[r] \in Job /\ job[r].body.what \in Onward
  BY <1>1, <1>2, AtStatement DEF Adds, Removes, Hires, Onward
<1>4. CASE Reject(r)
  BY <1>1, <1>4, RejectKeeps
<1>5. CASE RippleOpen(MonthOf(job[r].body.date)) /\ Proceed(r, "write", {})
  <2>1. pc' = [pc EXCEPT ![r] = "write"] => Works(r)'
    BY <1>1, <1>2, <1>3, <1>5
       DEF Works, Adds, Removes, Hires, Running, Proceed, committed, Inv, TypeInv, Requests
  <2>2. \A m \in settled : ~(MonthOf(job[r].body.date) <= m)
    BY <1>2, <1>5, SettledClosed, RowFields, MonthsAreOrdered DEF RippleOpen, Adds, Removes, Hires
  <2>3. \A m \in settled : Checked(r, m)' /\ Spared(r, m)'
    BY <1>2, <1>3, <1>5, <2>2 DEF Checked, Spared, Touched, Proceed, Inv, TypeInv, Requests
  <2> QED
    BY <1>1, <1>5, <2>1, <2>3, ProceedKeeps
<1> QED
  BY <1>4, <1>5 DEF EnsureNoClosedOnOrAfter

LEMMA DeletableKeeps ==
  ASSUME Inv, NEW r \in Req, EnsureDeletable(r)
  PROVE  Inv' /\ Keeps(r)
<1>1. pc[r] = "deletable" /\ Running(r)
  BY DEF EnsureDeletable, Running
<1>2. kind[r] = "dismiss" /\ Dismisses(r) /\ job[r] \in Job
  BY <1>1, AtStatement
<1> DEFINE closed == {m \in Months : Closed(m)}
<1>3. CASE Reject(r)
  BY <1>1, <1>3, RejectKeeps
<1>4. CASE /\ \A m \in closed, i \in RowIds : ~Affects(old[r][i], m)
           /\ Proceed(r, "attendance", closed)
  <2>1. pc' = [pc EXCEPT ![r] = "attendance"] => Works(r)'
    BY <1>1, <1>2, <1>4
       DEF Works, Dismisses, Running, Proceed, committed, Inv, TypeInv, Requests
  <2>2. ASSUME NEW m \in settled
        PROVE  Checked(r, m)' /\ Spared(r, m)'
    <3>1. m \in closed
      BY SettledClosed
    <3>2. Spared(r, m)
      BY <1>1 DEF Inv, SettledInv
    <3>3. kind' = kind /\ pc'[r] = "attendance" /\ todo'[r] = closed /\ rows' = rows /\ old' = old /\ job' = job
      BY <1>4 DEF Proceed, committed, Inv, TypeInv, Requests
    <3> HIDE DEF closed
    <3> QED
      BY <1>2, <1>4, <3>1, <3>2, <3>3 DEF Checked, Spared, Saving
  <2> QED
    BY <1>1, <1>4, <2>1, <2>2, ProceedKeeps
<1> QED
  BY <1>3, <1>4 DEF EnsureDeletable

LEMMA AttendanceKeeps ==
  ASSUME Inv, NEW r \in Req, EnsureNoAttendance(r)
  PROVE  Inv' /\ Keeps(r)
<1>1. pc[r] = "attendance" /\ Running(r)
  BY DEF EnsureNoAttendance, Running
<1>2. kind[r] = "dismiss" /\ Dismisses(r) /\ job[r] \in Job
  BY <1>1, AtStatement
<1>3. \A m \in settled : Spared(r, m)
  BY <1>1 DEF Inv, SettledInv
<1>4. todo[r] \in SUBSET Months
  BY DEF Inv, TypeInv, Requests
<1>5. CASE todo[r] = {} /\ Proceed(r, "write", {})
  <2>1. pc' = [pc EXCEPT ![r] = "write"] => Works(r)'
    BY <1>1, <1>2, <1>5
       DEF Works, Dismisses, Running, Proceed, committed, Inv, TypeInv, Requests
  <2>2. \A m \in settled : Checked(r, m)' /\ Spared(r, m)'
    BY <1>1, <1>2, <1>3, <1>5
       DEF Checked, Spared, Saving, Proceed, committed, Inv, TypeInv, Requests
  <2> QED
    BY <1>1, <1>5, <2>1, <2>2, ProceedKeeps
<1>6. CASE Reject(r)
  BY <1>1, <1>6, RejectKeeps
<1>7. ASSUME NEW m \in todo[r],
             \A i \in RowsOf(job[r].id, {"attendance"}) : MonthOf(rows[i].date) # m,
             Proceed(r, "attendance", todo[r] \ {m})
      PROVE  Inv' /\ Keeps(r)
  <2>1. pc' = [pc EXCEPT ![r] = "attendance"] => Works(r)'
    BY <1>1, <1>2, <1>7
       DEF Works, Dismisses, Running, Proceed, committed, Inv, TypeInv, Requests
  <2>2. \A i \in RowIds :
          ~(Affects(rows[i], m) /\ rows[i].emp = job[r].id /\ rows[i].what = "attendance")
    BY <1>7 DEF Affects, RowsOf, Onward
  <2>3. \A n \in settled : Checked(r, n)' /\ Spared(r, n)'
    BY <1>1, <1>2, <1>3, <1>7, <2>2
       DEF Checked, Spared, Saving, Proceed, committed, Inv, TypeInv, Requests
  <2> QED
    BY <1>1, <1>4, <1>7, <2>1, <2>3, ProceedKeeps
<1> QED
  BY <1>5, <1>6, <1>7 DEF EnsureNoAttendance

LEMMA OfKind ==
  ASSUME Inv, NEW r \in Req, Running(r)
  PROVE  /\ job[r] \in Job
         /\ kind[r] = "add" => Adds(r)
         /\ kind[r] = "change" => Moves(r)
         /\ kind[r] = "remove" => Removes(r)
         /\ kind[r] = "hire" => Hires(r)
         /\ kind[r] = "dismiss" => Dismisses(r)
         /\ kind[r] \in Toggling => Toggles(r)
<1>1. Works(r)
  BY DEF Inv, TypeInv
<1> QED
  BY <1>1 DEF Works, Toggling

LEMMA LockEntryKeeps ==
  ASSUME Inv, NEW r \in Req, LockEntry(r)
  PROVE  Inv' /\ Keeps(r)
<1> DEFINE i == job[r].id
<1>1. pc[r] = "lock" /\ kind[r] = "change" /\ Running(r)
  BY DEF LockEntry, Running
<1>2. Moves(r) /\ job[r] \in Job
  BY <1>1, OfKind
<1>3. CASE Reject(r)
  BY <1>1, <1>3, RejectKeeps
<1>4. CASE /\ i \in Entries
           /\ holds' = [holds EXCEPT ![r] = {i}]
           /\ old' = [old EXCEPT ![r] = Only(i)]
           /\ todo' = [todo EXCEPT ![r] = MonthsToCheck(rows[i], job[r].body)]
           /\ pc' = [pc EXCEPT ![r] = "ensure"]
           /\ UNCHANGED <<committed, kind, job, settled>>
  <2>1. i \in RowIds /\ rows[i] \in Row /\ rows[i].what = "entry"
    BY <1>4 DEF Entries, Inv, TypeInv, Tables, Body
  <2>2. MonthsToCheck(rows[i], job[r].body) \in SUBSET Months
    BY <1>2, <2>1, MonthsTyped DEF MonthsToCheck, Moves
  <2>3. /\ Only(i) \in [RowIds -> Body] /\ Loaded(Only(i)) /\ Only(i)[i] = rows[i]
    BY <2>1, OnlyLoaded
  <2>4. Requests'
    BY <1>4, <2>1, <2>2, <2>3 DEF Inv, TypeInv, Requests
  <2>5. Frame(r)
    BY <1>4 DEF Frame, Inv, TypeInv, Requests
  <2>6. /\ pc'[r] = "ensure" /\ old'[r] = Only(i) /\ holds'[r] = {i} /\ job' = job /\ kind' = kind
        /\ todo'[r] = MonthsToCheck(rows[i], job[r].body) /\ rows' = rows /\ settled' = settled
    BY <1>4 DEF Inv, TypeInv, Requests, committed
  <2>7. Works(r)'
    BY <1>1, <1>2, <2>1, <2>3, <2>6 DEF Works, Moves, Running
  <2>8. Knows(r)'
    BY <1>1, <2>3, <2>6 DEF Knows, Fresh, Loaded, Checked, Spared, Touched, MonthsToCheck
  <2> QED
    BY <1>1, <1>4, <2>3, <2>4, <2>5, <2>6, <2>7, <2>8, GoesOnKeeps DEF Loaded, Running
<1> QED
  BY <1>3, <1>4 DEF LockEntry

LEMMA LockPeriodKeeps ==
  ASSUME Inv, NEW r \in Req, LockPeriod(r)
  PROVE  Inv' /\ Keeps(r)
<1> DEFINE m == job[r].id
<1>1. pc[r] = "lock" /\ kind[r] \in Toggling /\ Running(r)
  BY DEF LockPeriod, Running, Toggling
<1>2. Toggles(r) /\ job[r] \in Job
  BY <1>1, OfKind
<1>3. /\ holds' = [holds EXCEPT ![r] = IF closure[m] = "never" THEN {} ELSE {m}]
      /\ pc' = [pc EXCEPT ![r] = "status"]
      /\ UNCHANGED <<committed, kind, job, old, todo, settled>>
  BY DEF LockPeriod
<1>4. m \in Months
  BY <1>2 DEF Toggles
<1>5. Requests'
  BY <1>3, <1>4 DEF Inv, TypeInv, Requests
<1>6. Frame(r)
  BY <1>3 DEF Frame, Inv, TypeInv, Requests
<1>7. /\ pc'[r] = "status" /\ job' = job /\ kind' = kind /\ closure' = closure /\ rows' = rows
      /\ holds'[r] = IF closure[m] = "never" THEN {} ELSE {m}
      /\ old' = old
  BY <1>3 DEF Inv, TypeInv, Requests, committed
<1>8. Works(r)'
  BY <1>1, <1>2, <1>7 DEF Works, Toggles, Running
<1>9. Knows(r)'
  BY <1>1, <1>3, <1>7 DEF Knows, Fresh, Checked, Spared, Toggling, Saving, Inv, SettledInv
<1> QED
  BY <1>1, <1>3, <1>5, <1>6, <1>7, <1>8, <1>9, GoesOnKeeps DEF Running

LEMMA StatusKeeps ==
  ASSUME Inv, NEW r \in Req, ReadStatus(r)
  PROVE  Inv' /\ Keeps(r)
<1> DEFINE status == closure[job[r].id]
<1>1. pc[r] = "status" /\ Running(r)
  BY DEF ReadStatus, Running
<1>2. kind[r] \in Toggling /\ Toggles(r) /\ job[r] \in Job
  BY <1>1, AtStatement
<1>3. CASE Reject(r)
  BY <1>1, <1>3, RejectKeeps
<1>4. ASSUME NEW at \in {"insert", "write"}, Proceed(r, at, {}),
             \/ kind[r] = "close" /\ status = "never" /\ at = "insert"
             \/ kind[r] = "close" /\ status = "open" /\ at = "write"
             \/ kind[r] = "reopen" /\ status = "closed" /\ at = "write"
      PROVE  Inv' /\ Keeps(r)
  <2>1. pc' = [pc EXCEPT ![r] = at] => Works(r)'
    BY <1>1, <1>2, <1>4
       DEF Works, Toggles, Toggling, Running, Proceed, committed, Inv, TypeInv, Requests
  <2>2. \A m \in settled : Checked(r, m)' /\ Spared(r, m)'
    BY <1>2, <1>4 DEF Checked, Spared, Toggling, Saving, Proceed, Inv, TypeInv, Requests
  <2> QED
    BY <1>1, <1>4, <2>1, <2>2, ProceedKeeps
<1> QED
  BY <1>3, <1>4 DEF ReadStatus

LEMMA CheckKeeps ==
  ASSUME Inv, NEW r \in Req, Check(r)
  PROVE  Inv' /\ Keeps(r)
BY EnsureKeeps, RippleKeeps, DeletableKeeps, AttendanceKeeps, LockEntryKeeps, LockPeriodKeeps,
   StatusKeeps DEF Check

LEMMA ArriveKeeps ==
  ASSUME Inv, NEW r \in Req, Arrive(r)
  PROVE  Inv' /\ Keeps(r)
BY AddArrives, ChangeArrives, EntryArrives, RemovalArrives, HireArrives, DismissalArrives,
   ToggleArrives DEF Arrive

-----------------------------------------------------------------------------
(***************************************************************************)
(* Saves                                                                   *)
(***************************************************************************)
\* Of the rows only row i changes.
LEMMA InstallKeeps ==
  ASSUME Inv, NEW r \in Req, Running(r), NEW i \in RowIds, NEW x \in Body,
         Install(i, x), End(r, "done"),
         x # None => x.emp \in hired \cup {None},
         pc[r] # "done" /\ pc'[r] = "done" => Writes(r, i),
         \A m \in settled : ~Affects(rows[i], m) /\ ~Affects(x, m)
  PROVE  Inv' /\ Keeps(r)
<1>1. closure' = closure /\ hired' = hired /\ rows' = [rows EXCEPT ![i] = x]
  BY DEF Install
<1>2. rows' \in [RowIds -> Body]
  BY <1>1 DEF Inv, TypeInv, Tables
<1>3. \A j \in RowIds : rows'[j] # None => rows'[j].emp \in hired' \cup {None}
  BY <1>1 DEF Inv, TypeInv, Tables
<1>4. ClosureStep(r)
  BY <1>1 DEF ClosureStep
<1>5. RowStep(r)
  <2>1. pc[r] # "done" /\ pc'[r] = "done"
    BY DEF End, Running, Inv, TypeInv, Requests
  <2>2. rows'[i] = x /\ \A j \in RowIds \ {i} : rows'[j] = rows[j]
    BY <1>1 DEF Inv, TypeInv, Tables
  <2> QED
    BY <2>1, <2>2 DEF RowStep, Unsettling
<1> QED
  BY <1>1, <1>2, <1>3, <1>4, <1>5, EndKeeps DEF Inv, TypeInv, Tables

\* Nobody has locked the row a request makes.
LEMMA NewRowFree ==
  ASSUME Inv, NEW r \in Req, Running(r)
  PROVE  r \in RowIds /\ rows[r] = None /\ \A q \in Req : r \notin holds[q]
<1>1. r \in RowIds /\ rows[r] = None
  BY DEF Inv, TypeInv, Unmade, Running, RowIds
<1> QED
  BY <1>1, LockedRow, NoneIsNoRow DEF Inv

LEMMA InsertKeeps ==
  ASSUME Inv, NEW r \in Req, Running(r), NEW x \in Row,
         \A m \in settled : ~Affects(x, m),
         Insert(r, x)
  PROVE  Inv' /\ Keeps(r)
<1>1. CASE Reject(r)
  BY <1>1, RejectKeeps
<1>2. CASE x.emp \in hired \cup {None} /\ Install(r, x) /\ End(r, "done")
  BY <1>2, NewRowFree, InstallKeeps, AffectsRow DEF Writes, Body
<1> QED
  BY <1>1, <1>2 DEF Insert

Merged(now, was, w) ==
  [now EXCEPT !.date = IF w.date = was.date THEN @ ELSE w.date,
              !.value = IF w.value = was.value THEN @ ELSE w.value,
              !.final = IF w.final = was.final THEN @ ELSE w.final,
              !.emp = IF w.emp = was.emp THEN @ ELSE w.emp]

LEMMA MergedFields ==
  ASSUME NEW now \in Row, NEW was, NEW w \in Row, now.what = w.what
  PROVE  /\ Merged(now, was, w) \in Row
         /\ Merged(now, was, w).what = now.what
         /\ Merged(now, was, w).date = IF w.date = was.date THEN now.date ELSE w.date
         /\ Merged(now, was, w).final = IF w.final = was.final THEN now.final ELSE w.final
<1> DEFINE d == IF w.date = was.date THEN now.date ELSE w.date
           v == IF w.value = was.value THEN now.value ELSE w.value
           f == IF w.final = was.final THEN now.final ELSE w.final
           e == IF w.emp = was.emp THEN now.emp ELSE w.emp
<1>1. d \in {now.date, w.date} /\ v \in {now.value, w.value} /\ f \in {now.final, w.final}
      /\ e \in {now.emp, w.emp}
  OBVIOUS
<1>2. Merged(now, was, w) = [now EXCEPT !.date = d, !.value = v, !.final = f, !.emp = e]
  BY DEF Merged
<1> HIDE DEF d, v, f, e
<1>3. [now EXCEPT !.date = d, !.value = v, !.final = f, !.emp = e] \in Row
  BY <1>1, MergedRow
<1>4. /\ [now EXCEPT !.date = d, !.value = v, !.final = f, !.emp = e].what = now.what
      /\ [now EXCEPT !.date = d, !.value = v, !.final = f, !.emp = e].date = d
      /\ [now EXCEPT !.date = d, !.value = v, !.final = f, !.emp = e].final = f
  BY DEF Row
<1> QED
  BY <1>2, <1>3, <1>4 DEF d, f

LEMMA UpdateKeeps ==
  ASSUME Inv, NEW r \in Req, Running(r), NEW i \in RowIds, NEW was, NEW w \in Row,
         rows[i] # None => rows[i].what = w.what,
         \A q \in Req \ {r} : i \notin holds[q],
         rows[i] # None =>
           \A m \in settled : ~Affects(rows[i], m) /\ ~Affects(Merged(rows[i], was, w), m),
         Update(r, i, was, w)
  PROVE  Inv' /\ Keeps(r)
<1>1. CASE Reject(r)
  BY <1>1, RejectKeeps
<1>2. CASE rows[i] # None /\ Merged(rows[i], was, w).emp \in hired \cup {None}
           /\ Install(i, Merged(rows[i], was, w)) /\ End(r, "done")
  <2>1. rows[i] \in Row
    BY <1>2 DEF Inv, TypeInv, Tables, Body
  <2>2. Merged(rows[i], was, w) \in Row /\ Merged(rows[i], was, w).what = rows[i].what
    BY <2>1, <1>2, MergedFields
  <2>3. rows'[i] = Merged(rows[i], was, w)
    BY <1>2 DEF Install, Inv, TypeInv, Tables
  <2>4. Writes(r, i)
    BY <1>2, <2>2, <2>3, NoneIsNoRow DEF Writes
  <2> QED
    BY <1>2, <2>2, <2>4, InstallKeeps DEF Body
<1> QED
  BY <1>1, <1>2 DEF Update, Merged

LEMMA LockedMonth ==
  ASSUME Inv, NEW q \in Req, NEW m \in Months, m \in holds[q]
  PROVE  /\ Running(q) /\ kind[q] \in Toggling /\ Toggles(q)
         /\ job[q].id = m /\ closure[m] # "never"
BY RowsAreNotMonths
   DEF Inv, TypeInv, Works, Rests, Adds, Moves, Removes, Hires, Dismisses, Toggles

LEMMA AtWrite ==
  ASSUME Inv, NEW r \in Req, pc[r] = "write", kind[r] \in Saving, NEW m \in settled
  PROVE  /\ Fresh(r, m)
         /\ job[r].body.what \in Onward => ~(MonthOf(job[r].body.date) <= m)
         /\ job[r].body.what \notin Onward => m \notin Touched(r)
BY DEF Inv, SettledInv, Checked, Running

LEMMA SaveNewKeeps ==
  ASSUME Inv, NEW r \in Req, SaveNew(r)
  PROVE  Inv' /\ Keeps(r)
<1> DEFINE w == job[r].body
<1>1. pc[r] = "write" /\ kind[r] = "add" /\ Running(r)
  BY DEF SaveNew, Running
<1>2. Adds(r) /\ w \in Row
  BY <1>1, OfKind DEF Adds
<1>3. \A m \in settled : ~Affects(w, m)
  BY <1>1, <1>2, AtWrite, AffectsOwn, AffectsOnward, RowFields DEF Touched, Saving, OfMonth, Onward
<1>4. CASE Insert(r, w)
  BY <1>1, <1>2, <1>3, <1>4, InsertKeeps
<1>5. ASSUME NEW i \in Upserted(r, w), w.what \in Onward,
             Update(r, i, IF w.what = "rate" THEN rows[i] ELSE old[r][i], w)
      PROVE  Inv' /\ Keeps(r)
  <2> DEFINE was == IF w.what = "rate" THEN rows[i] ELSE old[r][i]
  <2>1. i \in RowIds /\ was # None /\ was.what = w.what /\ was.date = w.date
    BY <1>5 DEF Upserted
  <2>2. was \in Row
    BY <2>1 DEF Inv, TypeInv, Tables, Requests, Body
  <2>3. rows[i] # None => rows[i] \in Row /\ rows[i].what = w.what
    BY <2>1 DEF Inv, TypeInv, SameTable, Tables, Body
  <2>4. \A q \in Req \ {r} : i \notin holds[q]
    <3>1. ASSUME NEW q \in Req \ {r}, i \in holds[q]
          PROVE  FALSE
      <4>1. Running(q) /\ kind[q] = "change" /\ pc[q] # "lock" /\ job[q].id = i /\ rows[i] = old[q][i]
            /\ rows[i] \in Row
        BY <2>1, <3>1, LockedRow DEF Inv
      <4>2. rows[i].what \in OfMonth
        BY <4>1, OfKind DEF Moves
      <4> QED
        BY <1>5, <2>3, <4>1, <4>2, RowFields DEF OfMonth, Onward
    <3> QED
      BY <3>1
  <2>5. ASSUME rows[i] # None, NEW m \in settled
        PROVE  ~Affects(rows[i], m) /\ ~Affects(Merged(rows[i], was, w), m)
    <3>1. ~(MonthOf(w.date) <= m) /\ Fresh(r, m)
      BY <1>1, <1>5, AtWrite DEF Saving
    <3>2. Affects(rows[i], m) => rows[i] = was
      BY <2>1, <3>1 DEF Fresh
    <3>3. ~Affects(rows[i], m)
      BY <1>5, <2>1, <2>2, <3>1, <3>2, AffectsOnward
    <3>4. /\ Merged(rows[i], was, w) \in Row
          /\ Merged(rows[i], was, w).what = w.what
          /\ Merged(rows[i], was, w).date = rows[i].date
      BY <1>2, <2>1, <2>3, <2>5, MergedFields
    <3> QED
      BY <1>5, <2>3, <2>5, <3>3, <3>4, AffectsOnward
  <2> HIDE DEF was
  <2> QED
    BY <1>1, <1>2, <1>5, <2>1, <2>3, <2>4, <2>5, UpdateKeeps DEF was
<1> QED
  BY <1>4, <1>5 DEF SaveNew

LEMMA SaveChangeKeeps ==
  ASSUME Inv, NEW r \in Req, SaveChange(r)
  PROVE  Inv' /\ Keeps(r)
<1> DEFINE i == job[r].id
           w == job[r].body
           was == old[r][i]
<1>1. pc[r] = "write" /\ kind[r] = "change" /\ Running(r) /\ MayHold(r, i) /\ Update(r, i, was, w)
  BY DEF SaveChange, Running
<1>2. Moves(r) /\ i \in RowIds /\ w \in Row /\ w.what \in OfMonth /\ was \in Row /\ was.what = w.what
  BY <1>1, OfKind DEF Moves
<1>3. rows[i] # None => rows[i] \in Row /\ rows[i].what = w.what
  BY <1>2, RowFields DEF Inv, TypeInv, SameTable, Tables, Body
<1>4. w.what \notin Onward
  BY <1>2 DEF OfMonth, Onward
<1>5. ASSUME rows[i] # None, NEW m \in settled
      PROVE  ~Affects(rows[i], m) /\ ~Affects(Merged(rows[i], was, w), m)
  <2> DEFINE x == Merged(rows[i], was, w)
  <2>1. Fresh(r, m) /\ m \notin MonthsOf(was) /\ m \notin MonthsOf(w)
    BY <1>1, <1>4, AtWrite DEF Saving, Touched
  <2>2. ~Affects(rows[i], m)
    BY <1>2, <2>1, RowFields, AffectsOwn DEF Fresh
  <2>3. x \in Row /\ x.what = w.what
        /\ x.date = (IF w.date = was.date THEN rows[i].date ELSE w.date)
        /\ x.final = (IF w.final = was.final THEN rows[i].final ELSE w.final)
    BY <1>2, <1>3, <1>5, MergedFields
  <2> HIDE DEF x
  <2>4. CASE was.what = "entry"
    <3>1. rows[i] = was
      BY <1>1, <1>2, <2>4 DEF Moves
    <3>2. x.date = w.date /\ x.final = w.final
      BY <2>3, <3>1
    <3>3. MonthsOf(x) = MonthsOf(w)
      BY <3>2 DEF MonthsOf
    <3> QED
      BY <1>2, <2>1, <2>2, <2>3, <3>3, AffectsOwn DEF x
  <2>5. CASE was.what # "entry"
    <3>1. rows[i].final /\ x.final /\ w.final
      BY <1>2, <1>3, <1>5, <2>3, <2>5, RowFields
    <3>2. m \notin MonthsOf(rows[i])
      BY <1>2, <1>3, <1>5, <2>2, AffectsOwn
    <3>3. m \notin MonthsOf(x)
      BY <2>1, <2>3, <3>1, <3>2 DEF MonthsOf
    <3> QED
      BY <1>2, <2>2, <2>3, <3>3, AffectsOwn DEF x
  <2> QED
    BY <2>4, <2>5
<1> QED
  BY <1>1, <1>2, <1>3, <1>5, UpdateKeeps DEF MayHold

LEMMA SaveRemovalKeeps ==
  ASSUME Inv, NEW r \in Req, SaveRemoval(r)
  PROVE  Inv' /\ Keeps(r)
<1> DEFINE i == job[r].id
           w == job[r].body
<1>1. pc[r] = "write" /\ kind[r] = "remove" /\ Running(r) /\ MayHold(r, i)
      /\ Install(i, None) /\ End(r, "done")
  BY DEF SaveRemoval, Running
<1>2. i \in RowIds /\ w \in Row /\ old[r][i] = w
  BY <1>1, OfKind DEF Removes
<1>3. ASSUME NEW m \in settled
      PROVE  ~Affects(rows[i], m)
  <2>1. /\ Fresh(r, m)
        /\ w.what \in Onward => ~(MonthOf(w.date) <= m)
        /\ w.what \notin Onward => m \notin MonthsOf(w)
    BY <1>1, <1>2, AtWrite DEF Saving, Touched
  <2>2. Affects(rows[i], m) => rows[i] = w
    BY <1>2, <2>1, RowFields DEF Fresh
  <2>3. ~Affects(w, m)
    BY <1>2, <2>1, RowFields, AffectsOwn, AffectsOnward
  <2> QED
    BY <2>2, <2>3
<1>4. rows'[i] = None
  BY <1>1, <1>2 DEF Install, Inv, TypeInv, Tables
<1>5. Writes(r, i)
  BY <1>1, <1>4 DEF Writes, MayHold
<1> QED
  BY <1>1, <1>2, <1>3, <1>5, AffectsRow, InstallKeeps DEF Body

LEMMA SaveHireKeeps ==
  ASSUME Inv, NEW r \in Req, SaveHire(r)
  PROVE  Inv' /\ Keeps(r)
<1> DEFINE x == job[r].body
<1>1. pc[r] = "write" /\ kind[r] = "hire" /\ Running(r) /\ End(r, "done")
      /\ hired' = hired \cup {r} /\ rows' = [rows EXCEPT ![r] = x] /\ closure' = closure
  BY DEF SaveHire, Running
<1>2. x \in Row /\ x.what = "revision" /\ x.emp = r
  BY <1>1, OfKind DEF Hires
<1>3. \A m \in settled : ~Affects(x, m)
  BY <1>1, <1>2, AtWrite, AffectsOnward DEF Saving, Onward
<1>4. r \in RowIds /\ rows[r] = None /\ \A q \in Req : r \notin holds[q]
  BY <1>1, NewRowFree
<1>5. rows'[r] = x /\ \A i \in RowIds \ {r} : rows'[i] = rows[i]
  BY <1>1, <1>4 DEF Inv, TypeInv, Tables
<1>6. rows' \in [RowIds -> Body] /\ hired' \subseteq Emps
  BY <1>1, <1>2 DEF Inv, TypeInv, Tables, Body, Emps
<1>7. \A i \in RowIds : rows'[i] # None => rows'[i].emp \in hired' \cup {None}
  BY <1>1, <1>2, <1>5 DEF Inv, TypeInv, Tables
<1>8. pc'[r] = "done" /\ pc[r] # "done"
  BY <1>1 DEF End, Inv, TypeInv, Requests
<1>9. RowStep(r)
  <2>1. Writes(r, r)
    BY <1>4, <1>8 DEF Writes
  <2>2. Unsettling(r)
    BY <1>3, <1>4, <1>5, AffectsRow DEF Unsettling
  <2> QED
    BY <1>5, <2>1, <2>2 DEF RowStep
<1>10. ClosureStep(r)
  BY <1>1 DEF ClosureStep
<1>11. closure' \in [Months -> Statuses]
  BY <1>1 DEF Inv, TypeInv, Tables
<1> QED
  BY <1>1, <1>6, <1>7, <1>9, <1>10, <1>11, EndKeeps

LEMMA LeftRow ==
  ASSUME NEW x \in Row
  PROVE  /\ Left(x) \in Body
         /\ Left(x) # None => Left(x).what = x.what /\ Left(x).emp = None
         /\ x.what # "entry" => Left(x) = None
         /\ \A m : ~Affects(x, m) => ~Affects(Left(x), m)
<1>1. CASE x.what # "entry"
  BY <1>1, AffectsRow DEF Left, Body
<1>2. CASE x.what = "entry"
  <2> DEFINE y == [x EXCEPT !.emp = None]
  <2>1. y \in Row /\ y.what = x.what /\ y.emp = None /\ y.date = x.date /\ y.final = x.final
    BY <1>2 DEF Row
  <2>2. Left(x) = y
    BY <1>2 DEF Left
  <2> HIDE DEF y
  <2>3. \A m : ~Affects(x, m) => ~Affects(y, m)
    BY <1>2, <2>1, AffectsOwn DEF MonthsOf, OfMonth
  <2> QED
    BY <1>2, <2>1, <2>2, <2>3 DEF Body
<1> QED
  BY <1>1, <1>2

LEMMA SaveDismissalKeeps ==
  ASSUME Inv, NEW r \in Req, SaveDismissal(r)
  PROVE  Inv' /\ Keeps(r)
<1> DEFINE e == job[r].id
           its == RowsOf(e, OfMonth \cup Onward)
<1>1. pc[r] = "write" /\ kind[r] = "dismiss" /\ Running(r) /\ End(r, "done")
      /\ (\A i \in its : MayHold(r, i)) /\ hired' = hired \ {e} /\ closure' = closure
      /\ rows' = [i \in RowIds |-> IF i \in its THEN Left(rows[i]) ELSE rows[i]]
  BY DEF SaveDismissal, Running
<1>2. e \in Emps /\ e # None
  BY <1>1, OfKind, NoneIsNoRow DEF Dismisses
<1>3. \A i \in its : i \in RowIds /\ rows[i] \in Row /\ rows[i].emp = e
  BY DEF RowsOf, Inv, TypeInv, Tables, Body
<1>4. \A i \in RowIds : rows[i] # None /\ rows[i].emp = e => i \in its
  BY RowFields DEF RowsOf, Inv, TypeInv, Tables, Body
<1> HIDE DEF its
<1>5. ASSUME NEW i \in its, NEW m \in settled
      PROVE  ~Affects(rows[i], m)
  <2>1. Spared(r, m)
    BY <1>1 DEF Inv, SettledInv
  <2>2. ~Affects(old[r][i], m)
    BY <1>1, <1>3, <2>1 DEF Spared
  <2>3. ~(Affects(rows[i], m) /\ rows[i].what \in InMemory)
    BY <1>1, <1>3, <2>1, <2>2 DEF Spared
  <2>4. ~(Affects(rows[i], m) /\ rows[i].what = "attendance")
    BY <1>1, <1>3, <2>1 DEF Spared
  <2>5. rows[i].what \in InMemory \/ rows[i].what = "attendance"
    BY <1>2, <1>3, RowFields DEF InMemory, OfMonth, Onward
  <2> QED
    BY <2>3, <2>4, <2>5
<1>6. rows' \in [RowIds -> Body]
  BY <1>1, <1>3, LeftRow DEF Inv, TypeInv, Tables
<1>7. \A i \in RowIds : rows'[i] # None => rows'[i].emp \in hired' \cup {None}
  <2>1. ASSUME NEW i \in RowIds, rows'[i] # None, i \in its
        PROVE  rows'[i].emp = None
    BY <1>1, <1>3, <2>1, LeftRow
  <2>2. ASSUME NEW i \in RowIds, rows'[i] # None, i \notin its
        PROVE  rows'[i].emp \in hired' \cup {None}
    BY <1>1, <1>4, <2>2 DEF Inv, TypeInv, Tables
  <2> QED
    BY <2>1, <2>2
<1>8. RowStep(r)
  <2>1. ASSUME NEW i \in RowIds, rows'[i] # rows[i]
        PROVE  Writes(r, i) /\ Unsettling(i)
    <3>1. i \in its /\ rows'[i] = Left(rows[i]) /\ rows[i] \in Row
      BY <1>1, <1>3, <2>1
    <3>2. Writes(r, i)
      BY <1>1, <3>1, LeftRow, RowFields DEF Writes, MayHold
    <3>3. Unsettling(i)
      BY <1>5, <3>1, LeftRow DEF Unsettling
    <3> QED
      BY <3>2, <3>3
  <2> QED
    BY <2>1 DEF RowStep
<1>9. ClosureStep(r) /\ closure' \in [Months -> Statuses] /\ hired' \subseteq Emps
  BY <1>1 DEF ClosureStep, Inv, TypeInv, Tables
<1> QED
  BY <1>1, <1>6, <1>7, <1>8, <1>9, EndKeeps

LEMMA SaveClosureKeeps ==
  ASSUME Inv, NEW r \in Req, SaveFirstClose(r) \/ SaveToggle(r)
  PROVE  Inv' /\ Keeps(r)
<1> DEFINE m == job[r].id
<1>1. Running(r) /\ kind[r] \in Toggling /\ Toggles(r)
  BY OfKind, AtStatement DEF SaveFirstClose, SaveToggle, Toggling, Running
<1>2. m \in Months
  BY <1>1 DEF Toggles
<1>3. CASE Reject(r)
  BY <1>1, <1>3, RejectKeeps
<1>4. ASSUME NEW s \in {"closed", "open"}, closure' = [closure EXCEPT ![m] = s],
             UNCHANGED <<hired, rows>>, End(r, "done"),
             closure[m] = "never" \/ MayHold(r, m)
      PROVE  Inv' /\ Keeps(r)
  <2>1. closure' \in [Months -> Statuses]
    BY <1>4 DEF Inv, TypeInv, Tables, Statuses
  <2>2. \A q \in Req \ {r} : m \notin holds[q]
    BY <1>2, <1>4, LockedMonth DEF MayHold
  <2>3. ClosureStep(r)
    BY <1>4, <2>2 DEF ClosureStep, Inv, TypeInv, Tables
  <2>4. RowStep(r)
    BY <1>4 DEF RowStep
  <2> QED
    BY <1>1, <1>4, <2>1, <2>3, <2>4, EndKeeps DEF Inv, TypeInv, Tables
<1> QED
  BY <1>3, <1>4 DEF SaveFirstClose, SaveToggle
-----------------------------------------------------------------------------
(***************************************************************************)
(* Every step                                                              *)
(***************************************************************************)
\* The steps of the requests, and of nobody.
Steps(r) == Arrive(r) \/ Check(r) \/ Save(r) \/ Abort(r)

LEMMA StepOf == [Next]_vars => UNCHANGED vars \/ \E r \in Req : Steps(r)
BY DEF Next, Quiet, Steps

LEMMA StepsKeep ==
  ASSUME Inv, NEW r \in Req, Steps(r)
  PROVE  Inv' /\ Keeps(r)
<1>1. CASE Arrive(r) \/ Check(r)
  BY <1>1, ArriveKeeps, CheckKeeps
<1>2. CASE Save(r)
  BY <1>2, SaveNewKeeps, SaveChangeKeeps, SaveRemovalKeeps, SaveHireKeeps, SaveDismissalKeeps,
     SaveClosureKeeps DEF Save
<1>3. CASE Abort(r)
  BY <1>3, RejectKeeps DEF Abort
<1> QED
  BY <1>1, <1>2, <1>3 DEF Steps

LEMMA NextKeeps == Inv /\ [Next]_vars => Inv'
<1> SUFFICES ASSUME Inv, [Next]_vars
             PROVE  Inv'
  OBVIOUS
<1>1. CASE UNCHANGED vars
  BY <1>1
     DEF vars, committed, private, Inv, TypeInv, SettledInv, Tables, Requests, Unmade, SameTable,
         Closed, Works, Rests, Running, Adds, Moves, Removes, Hires, Dismisses, Toggles,
         Fresh, Checked, Touched, Spared
<1> QED
  BY <1>1, StepOf, StepsKeep

\* What every request that is under way has checked and loaded stays true of the settled
\* months, together with the types.
THEOREM SettledKept == Spec => []Inv
BY InitInv, NextKeeps, PTL DEF Spec

\* Every variable keeps its type, and no row names an employee who is not on record: an
\* insert is refused by its foreign key, a dismissal takes or frees every row it has.
THEOREM TypesHold == Spec => []TypeOK
<1>1. Inv => TypeOK
  BY DEF Inv, TypeInv, Tables, Requests, TypeOK, Body, Job
<1> QED
  BY <1>1, SettledKept, PTL

\* Nothing a settled month's figures are calculated from changes: whoever writes has found
\* the month open, and what it had loaded of a settled month is what is on record.
THEOREM SettledMonthsKeptHolds == Spec => SettledMonthsKept
<1>1. ASSUME Inv, [Next]_vars, NEW m \in settled \cap settled'
      PROVE  Books(rows', m) = Books(rows, m)
  <2>1. ASSUME NEW r \in Req, Steps(r)
        PROVE  Books(rows', m) = Books(rows, m)
    <3>1. Keeps(r)
      BY <1>1, <2>1, StepsKeep
    <3>2. \A i \in RowIds : (IF Affects(rows'[i], m) THEN rows'[i] ELSE None)
                            = (IF Affects(rows[i], m) THEN rows[i] ELSE None)
      BY <3>1 DEF Keeps
    <3> QED
      BY <3>2 DEF Books
  <2>2. ASSUME UNCHANGED vars
        PROVE  Books(rows', m) = Books(rows, m)
    BY <2>2 DEF vars, committed, Books, Affects
  <2> QED
    BY <1>1, <2>1, <2>2, StepOf
<1>2. Inv /\ [Next]_vars => [\A m \in settled \cap settled' : Books(rows', m) = Books(rows, m)]_vars
  BY <1>1
<1> QED
  BY <1>2, SettledKept, PTL DEF Spec, SettledMonthsKept

\* Of two closes, or two reopens, that have locked the closure row only one succeeds: the
\* status each has read is still the status when it writes.
THEOREM TogglesTakeTurnsHolds == Spec => TogglesTakeTurns
<1>1. ASSUME Inv, [Next]_vars, NEW r \in Req, NEW m \in Months,
             m \in holds[r], pc[r] = "write", pc'[r] = "done"
      PROVE  closure'[m] # closure[m]
  <2>1. /\ kind[r] \in Toggling /\ job[r].id = m
        /\ closure[m] = IF kind[r] = "close" THEN "open" ELSE "closed"
    BY <1>1, LockedMonth DEF Toggles
  <2>2. Steps(r)
    <3>1. ASSUME NEW q \in Req \ {r}, Steps(q)
          PROVE  FALSE
      BY <1>1, <3>1, StepsKeep DEF Keeps, Frame
    <3> QED
      BY <1>1, <3>1, StepOf DEF vars, private
  <2>3. SaveToggle(r)
    <3>1. ~Arrive(r)
      BY <1>1 DEF Arrive, AddRow, ChangeRow, ChangeEntry, RemoveRow, RemoveRevision, Hire, Dismiss,
                  ClosePeriod, ReopenPeriod, Begin
    <3>2. ~Check(r)
      BY <1>1 DEF Check, EnsurePeriodOpen, EnsureNoClosedOnOrAfter, EnsureDeletable,
                  EnsureNoAttendance, LockEntry, LockPeriod, ReadStatus
    <3>3. ~Abort(r)
      BY <1>1 DEF Abort, Reject, End, Inv, TypeInv, Requests
    <3>4. Save(r) => SaveToggle(r)
      BY <1>1, <2>1 DEF Save, SaveNew, SaveChange, SaveRemoval, SaveHire, SaveDismissal,
                        SaveFirstClose, Toggling
    <3> QED
      BY <2>2, <3>1, <3>2, <3>3, <3>4 DEF Steps
  <2>4. closure'[m] = IF kind[r] = "close" THEN "closed" ELSE "open"
    <3>1. closure' = [closure EXCEPT ![m] = IF kind[r] = "close" THEN "closed" ELSE "open"]
      BY <2>1, <2>3 DEF SaveToggle
    <3>2. closure \in [Months -> Statuses]
      BY <1>1 DEF Inv, TypeInv, Tables
    <3> QED
      BY <3>1, <3>2
  <2> QED
    BY <2>1, <2>4
<1>2. Inv /\ [Next]_vars
      => [\A r \in Req, m \in Months :
            m \in holds[r] /\ pc[r] = "write" /\ pc'[r] = "done" => closure'[m] # closure[m]]_vars
  BY <1>1
<1> QED
  BY <1>2, SettledKept, PTL DEF Spec, TogglesTakeTurns
=============================================================================
