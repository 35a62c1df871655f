---------------------------- MODULE MCMessaging ----------------------------
(***************************************************************************)
(* Messaging with three requests beside each other: offers to two of three *)
(* recipients, one of them without a number and one inactive and with the  *)
(* number of the first, and posts of up to two reports on the messages of  *)
(* the first request, those that were never sent included.                 *)
(***************************************************************************)
EXTENDS Messaging

CONSTANTS r1, r2, r3, c1, c2, c3, tel1, tel2, none

MCReq == {r1, r2, r3}
MCOldCustomers == {c1, c2, c3}
MCKnownIds == {r1} \X {1, 2}
MCPhones == {tel1, tel2}

P(name, phone, active) == [name |-> name, phone |-> phone, active |-> active]
MCDatabases ==
  {[customers |-> [c \in CustIds |->
      CASE c = c1 -> P("a", tel1, TRUE) [] c = c2 -> P("b", none, TRUE)
        [] c = c3 -> P("a", tel1, FALSE) [] OTHER -> none],
    stations |-> s] : s \in {{}, {c1}}}

MCAsks ==
  {[kind |-> "offer", ids |-> ids] : ids \in {<<c1, c1>>, <<c1, c3>>, <<c2, c1>>}}
  \cup {[kind |-> "remind", phone |-> p] : p \in {tel1, none}}
  \cup {[kind |-> "audit"]}
  \cup {[kind |-> "station", named |-> b] : b \in BOOLEAN}
  \cup {[kind |-> "create", cust |-> none, set |-> [name |-> n, phone |-> tel1]] : n \in {"a", "d"}}
  \cup {[kind |-> "update", cust |-> c1, set |-> s] :
          s \in {[phone |-> tel2], [phone |-> none], [name |-> "b"], [active |-> FALSE]}}
  \cup {[kind |-> "delete", cust |-> c1]}

Arrive(a, b, c) == [r \in MCReq |-> IF r = r1 THEN a ELSE IF r = r2 THEN b ELSE c]
MCLoads ==
  {Arrive("offer", "post", k) : k \in {"post", "update", "delete"}}
  \cup {Arrive("offer", a, "create") : a \in {"offer", "update", "delete"}}
  \cup {Arrive("remind", "post", k) : k \in {"audit", "station"}}
  \cup {Arrive("station", "station", "offer")}
=============================================================================
