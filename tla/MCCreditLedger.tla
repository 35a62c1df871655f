-------------------------- MODULE MCCreditLedger ---------------------------
(***************************************************************************)
(* CreditLedger on two entries, two customers and one day with its third   *)
(* shift, two requests beside each other.                                  *)
(***************************************************************************)
EXTENDS CreditLedger

CONSTANTS r1, r2, e1, e2, c1, c2, w1, day, shift3, k1, k2, k3, before, none

MCReq == {r1, r2}
MCOldEntries == {e1, e2}
MCScopes == {day, shift3}

L(type, who, n) == [type |-> type, who |-> who, amount |-> n]
M(opening, closing, testing, rate) ==
  [opening |-> opening, closing |-> closing, testing |-> testing, rate |-> rate]
Meters(f, r) ==
  [g \in Fuels |-> IF g = f THEN [n \in Nozzles |-> IF n = "nozzle1" THEN r ELSE Zero]
                   ELSE IF g = "oil" THEN none ELSE [n \in Nozzles |-> Zero]]
F(final, meters, pocket, cane, offer, lines) ==
  [final |-> final, worker |-> w1, meters |-> meters, pocket |-> pocket, cane |-> cane,
   offer |-> offer, lines |-> lines]
O(n, rate) == [count |-> n, rate |-> rate]

\* Four parts make a hundredth.  A shortage of three, with two charges of one customer; an
\* offer above the cane oil sold, an advance and an excess of one, which is recorded as
\* nothing; a draft whose meter runs backwards; the same, final.
MCForms ==
  {F(TRUE, Meters("petrol", M(10, 16, 1, 7)), <<O(2, 2)>>, <<>>, 0,
     <<L("credit", c1, 1), L("cash", none, 6), L("credit", c1, 2)>>),
   F(TRUE, Meters("oil", M(0, 1, 0, 3)), <<O(4, 4)>>, <<O(2, 1)>>, 5,
     <<L("credit", c2, 1), L("employee_credit", w1, 4)>>),
   F(FALSE, Meters("diesel", M(9, 3, 0, 1)), <<>>, <<>>, 0, <<L("credit", c1, 1)>>),
   F(TRUE, Meters("diesel", M(9, 3, 0, 1)), <<>>, <<>>, 0, <<>>)}

Plain(scope, bills, lines, final) ==
  [scope |-> scope, worker |-> w1, final |-> final, readings |-> {}, oil |-> <<>>, offer |-> 0,
   lines |-> lines, bills |-> bills]
C(cust, type, n, src, bill) == [cust |-> cust, type |-> type, amount |-> n, src |-> src, bill |-> bill]

\* e1 charged c1 twice, one charge has its bill; c1 has paid once and c2 has a document.
MCDatabases ==
  {[entries |-> [e \in EntryIds |->
      IF e = e1 THEN Plain(day, {k1}, <<L("credit", c1, 1), L("credit", c1, 1)>>, TRUE)
      ELSE IF e = e2 THEN Plain(shift3, {}, <<>>, FALSE) ELSE none],
    custs |-> [c \in Customers |-> IF c = c1 THEN {} ELSE IF c = c2 THEN {k3} ELSE none],
    ledger |-> [i \in RowIds |->
      IF i = <<before, 1>> THEN C(c1, "credit", 1, e1, k2)
      ELSE IF i = <<before, 2>> THEN C(c1, "credit", 1, e1, none)
      ELSE IF i = <<before, 3>> THEN C(c2, "payment", 1, none, none) ELSE none],
    dues |-> {[by |-> before, n |-> 0, src |-> e1, worker |-> w1, amount |-> 2, type |-> "excess"]},
    checkpoints |-> {day}]}

Arrive(a, b) == [r \in MCReq |-> IF r = r1 THEN a ELSE b]
Order == <<"save", "deleteEntry", "attach", "deleteRow", "add", "saveCustomer",
           "deleteCustomer", "addCustomer", "saveCheckpoint", "deleteCheckpoint">>

\* Any two kinds.
MCLoads ==
  {Arrive(Order[p[1]], Order[p[2]]) : p \in {q \in (1 .. 10) \X (1 .. 10) : q[1] <= q[2]}}
MCRaces == {Arrive("save", b) : b \in {"attach", "deleteEntry", "save"}}
MCCharges == {Arrive("save", "deleteCustomer")}
MCDeletes == {Arrive("save", "deleteEntry")}
MCTwoSaves == {Arrive("save", "save")}
MCOneSave == {Arrive("save", "deleteCheckpoint")}
=============================================================================
