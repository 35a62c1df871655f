------------------------- MODULE MCDashboardCache --------------------------
(***************************************************************************)
(* DashboardCache on two months of two days: a fuel entry, an expense day  *)
(* and a commission rate, four requests.                                   *)
(***************************************************************************)
EXTENDS DashboardCache, TLC

CONSTANTS r1, r2, r3, r4, e1, x1, c1, none

MCReq == {r1, r2, r3, r4}
MCOldRows == {e1, x1, c1}
MCAmounts == {1, 2}

B(what, day, n, final) == [what |-> what, day |-> day, n |-> n, final |-> final]
R(what, day, n, final) ==
  [what |-> what, day |-> day, items |-> {[by |-> c1, n |-> n]}, final |-> final]

\* Moves to the other month and back, a draft, another amount, a rate for either month.
MCBodies ==
  {B("entry", 1, 2, TRUE), B("entry", 4, 1, TRUE), B("entry", 1, 1, FALSE),
   B("expense", 2, 2, TRUE), B("expense", 3, 1, TRUE),
   B("rate", 2, 1, TRUE), B("rate", 1, 2, TRUE)}

Book(e, x, c) == (e1 :> e) @@ (x1 :> x) @@ (c1 :> c) @@ [r \in MCReq |-> none]

\* A full book, and one without any rate.
MCDatabases ==
  {Book(R("entry", 1, 1, TRUE), R("expense", 3, 2, TRUE), R("rate", 1, 1, TRUE)),
   Book(R("entry", 4, 2, FALSE), none, none)}

\* Two writes of any kinds and a summary; a change, a removal and two summaries.
MCLoads ==
  {(r1 :> a) @@ (r2 :> b) @@ (r3 :> c) @@ (r4 :> "show") :
     <<a, b, c>> \in {"add", "change", "remove"} \X {"add", "change", "remove"} \X {"none"}
                    \cup {<<"change", "remove", "show">>}}
=============================================================================
