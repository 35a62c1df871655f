-------------------------- MODULE MCFuelEntryStock --------------------------
(***************************************************************************)
(* Small instances of FuelEntryStock: two or three requests on a database  *)
(* with two products, a purchase of each and one entry.                    *)
(***************************************************************************)
EXTENDS FuelEntryStock, TLC

CONSTANTS r1, r2, r3, petrolOil, gearOil, e1, b1, b2, s1, s2, s3, day, c1, c2

MCReq == {r1, r2, r3}
MCCatalog == {petrolOil, gearOil}
MCSlots == {s1, s2, s3}
MCPump2 == {s1, s2}

Sale(p, n, c) == [product |-> p, count |-> n, rate |-> c]
Save(s, f, rows) == [slot |-> s, final |-> f, rows |-> rows]
Buy(p, c, n) == [product |-> p, date |-> day, cost |-> c, qty |-> n]

(***************************************************************************)
(* Both orders of the two products, so that locks can be taken crosswise;  *)
(* one product twice in an entry; a sale that the stock just covers and    *)
(* one it does not; a draft; an entry of pump 1.                           *)
(***************************************************************************)
MCEntryWrites ==
  {Save(s1, TRUE, <<Sale(petrolOil, 1, c1), Sale(gearOil, 1, c1)>>),
   Save(s2, TRUE, <<Sale(gearOil, 1, c1), Sale(petrolOil, 1, c1)>>),
   Save(s2, TRUE, <<Sale(petrolOil, 1, c1), Sale(petrolOil, 2, c2)>>),
   Save(s2, FALSE, <<Sale(petrolOil, 1, c1)>>),
   Save(s3, TRUE, <<Sale(gearOil, 1, c1), Sale(None, 1, c1)>>)}

MCBatchWrites ==
  {Buy(petrolOil, c1, 1), Buy(petrolOil, c2, 2), Buy(gearOil, c1, 2), Buy(gearOil, c2, 0)}

Record(e) ==
  LET entries == [x \in EntryIds |-> IF x = e1 THEN e ELSE None]
      batches == [x \in BatchIds |-> CASE x = b1 -> Buy(petrolOil, c1, 3)
                                        [] x = b2 -> Buy(gearOil, c1, 2)
                                        [] OTHER -> None]
  IN  [live |-> MCCatalog, entry |-> entries, batch |-> batches,
       stock |-> [p \in Products |-> Balance(entries, batches, p)]]

MCDatabases ==
  {Record(Save(s1, TRUE, <<Sale(petrolOil, 2, c1)>>)),
   Record(Save(s1, FALSE, <<Sale(petrolOil, 2, c1)>>))}

(***************************************************************************)
(* Which requests meet: every pair of kinds, and three where two entries   *)
(* and a purchase share products.  Who is r1 and who is r2 does not        *)
(* matter, so one assignment of a pair is enough.                          *)
(*                                                                         *)
(* deleteEntry locks nothing before it reads the entry, so it meets        *)
(* everything here but another request for the same entry: that is what    *)
(* the run of MCFuelEntryStock_deletes is about.                           *)
(***************************************************************************)
Load(k, l, m) == (r1 :> k) @@ (r2 :> l) @@ (r3 :> m)

Purchases == {"addPurchase", "updatePurchase", "deletePurchase"}
Others == Purchases \cup {"createProduct", "deleteProduct"}

MCLoads ==
  {Load("createEntry", "createEntry", "none"),
   Load("updateEntry", "createEntry", "deletePurchase"),
   Load("createEntry", "deleteEntry", "deletePurchase"),
   Load("updateEntry", "updateEntry", "deletePurchase")}
  \cup {Load(k, l, "none") : k \in {"createEntry", "updateEntry", "deleteEntry"}, l \in Others}
  \cup {Load(k, l, "none") : k \in Purchases, l \in Others}

DeleteLoads == {Load("deleteEntry", "deleteEntry", "none")}
=============================================================================
