--------------------------- MODULE MCPeriodClosure ---------------------------
(***************************************************************************)
(* Small instances of PeriodClosure: two or three requests, two months,    *)
(* one employee with a starting salary and two more rows.                  *)
(***************************************************************************)
EXTENDS PeriodClosure, TLC

CONSTANTS r1, r2, r3, ann, i1, i2, i3, u, v

MCReq == {r1, r2, r3}
MCMonths == {1, 2}
MCDays == {1, 2}

RowOf(what, e, m, x) == [what |-> what, emp |-> e, date |-> <<m, 1>>, value |-> x, final |-> TRUE]
Draft(x) == [x EXCEPT !.final = FALSE]

(***************************************************************************)
(* A row of each table in each month, so that every row can be moved from  *)
(* one month to the other; a revision that replaces the starting salary    *)
(* and one that supersedes it.                                             *)
(***************************************************************************)
MCBodies ==
  {RowOf("credit", ann, m, u) : m \in MCMonths}
  \cup {RowOf("revision", ann, m, v) : m \in MCMonths}
  \cup {RowOf("expense", None, m, u) : m \in MCMonths}
  \cup {RowOf("entry", ann, 1, v), Draft(RowOf("entry", ann, 2, u))}
  \cup {RowOf("attendance", ann, 2, v), RowOf("payment", ann, 1, u), RowOf("rate", None, 2, u)}

Record(first, second, x, y) ==
  [closure |-> (1 :> first) @@ (2 :> second),
   hired |-> {ann},
   rows |-> [i \in RowIds |-> CASE i = i1 -> RowOf("revision", ann, 1, u)
                                [] i = i2 -> x
                                [] i = i3 -> y
                                [] OTHER -> None]]

Extra == {<<RowOf("credit", ann, 1, u), RowOf("attendance", ann, 2, u)>>,
          <<RowOf("entry", ann, 1, u), RowOf("rate", None, 1, u)>>,
          <<RowOf("expense", None, 1, u), RowOf("revision", ann, 2, u)>>,
          <<Draft(RowOf("entry", ann, 1, u)), RowOf("payment", ann, 2, u)>>}

\* In the last two the only revision comes after a closed month with other rows of his: an
\* earlier one was removed before the month was closed.
MCDatabases ==
  {Record(s[1], s[2], x[1], x[2]) :
     s \in {<<"never", "open">>, <<"closed", "open">>, <<"open", "closed">>}, x \in Extra}
  \cup {[Record("closed", "open", x, None) EXCEPT !.rows[i1] = RowOf("revision", ann, 2, u)] :
          x \in {RowOf("attendance", ann, 1, u), RowOf("credit", ann, 1, u)}}

Load(k, l, n) == (r1 :> k) @@ (r2 :> l) @@ (r3 :> n)

Changes == {"add", "change", "remove", "hire", "dismiss"}

(***************************************************************************)
(* Every kind of change meets a close, a reopen and every other kind; two  *)
(* closes meet each other and a reopen; and while one request moves or     *)
(* adds a row, its month is closed and a third still works on what it had  *)
(* loaded.                                                                 *)
(***************************************************************************)
MCLoads ==
  {Load(k, l, "none") : k \in Changes, l \in {"close", "reopen"}}
  \cup {Load("change", l, "none") : l \in Changes} \cup {Load("dismiss", "add", "none")}
  \cup {Load("close", "close", "reopen"), Load("reopen", "reopen", "close")}
  \cup {Load("change", "close", "remove"), Load("change", "change", "close"),
        Load("dismiss", "add", "close")}

\* One change and the close of its month, or of one after it.
RaceLoads == {Load(k, "close", "none") : k \in Changes}

RevisionLoads == {Load("remove", "remove", "none")}
=============================================================================
