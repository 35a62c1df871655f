----------------------- MODULE FuelEntryLedger_proofs -----------------------
(***************************************************************************)
(* Proofs that FuelEntryStock keeps the running totals equal to the record *)
(* of purchases and sales, and that it implements StockLedger, for any     *)
(* number of requests, products, entries and purchases.                    *)
(***************************************************************************)
EXTENDS FuelEntryStock_proofs, SumTheorems

(***************************************************************************)
(* The sums of the model, as sums of functions                             *)
(***************************************************************************)
\* The sum of the counts of some rows.
LEMMA CountsSum ==
  ASSUME NEW s, NEW S
  PROVE  MapThenSumSet(LAMBDA i : s[i].count, S) = SumOver([i \in S |-> s[i].count], S)
<1> DEFINE f == [i \in S |-> s[i].count]
           step(h) == [t \in SUBSET S |->
                         IF t = {} THEN 0 ELSE s[AnyOf(t)].count + h[t \ {AnyOf(t)}]]
<1>1. ASSUME NEW h
      PROVE  step(h) = Fold(f, S, h)
  BY AnyOfIn DEF Fold
<1>2. MapThenSumSet(LAMBDA i : s[i].count, S) = (CHOOSE h : h = step(h))[S]
  BY DEF MapThenSumSet, MapThenFoldSet, AnyOf
<1> HIDE DEF step, f
<1>3. (CHOOSE h : h = step(h)) = (CHOOSE h : h = Fold(f, S, h))
  BY <1>1, Zenon
<1> QED
  BY <1>2, <1>3, SumIsFold DEF f

\* The sum of the quantities of some purchases.
LEMMA QuantitiesSum ==
  ASSUME NEW s, NEW S
  PROVE  MapThenSumSet(LAMBDA b : s[b].qty, S) = SumOver([b \in S |-> s[b].qty], S)
<1> DEFINE f == [b \in S |-> s[b].qty]
           step(h) == [t \in SUBSET S |->
                         IF t = {} THEN 0 ELSE s[AnyOf(t)].qty + h[t \ {AnyOf(t)}]]
<1>1. ASSUME NEW h
      PROVE  step(h) = Fold(f, S, h)
  BY AnyOfIn DEF Fold
<1>2. MapThenSumSet(LAMBDA b : s[b].qty, S) = (CHOOSE h : h = step(h))[S]
  BY DEF MapThenSumSet, MapThenFoldSet, AnyOf
<1> HIDE DEF step, f
<1>3. (CHOOSE h : h = step(h)) = (CHOOSE h : h = Fold(f, S, h))
  BY <1>1, Zenon
<1> QED
  BY <1>2, <1>3, SumIsFold DEF f

\* What all entries take.
LEMMA AllTakenSum ==
  ASSUME NEW s, NEW p, NEW S
  PROVE  MapThenSumSet(LAMBDA e : Taken(s[e], p), S) = SumOver([e \in S |-> Taken(s[e], p)], S)
<1> DEFINE f == [e \in S |-> Taken(s[e], p)]
           step(h) == [t \in SUBSET S |->
                         IF t = {} THEN 0 ELSE Taken(s[AnyOf(t)], p) + h[t \ {AnyOf(t)}]]
<1>1. ASSUME NEW h
      PROVE  step(h) = Fold(f, S, h)
  BY AnyOfIn DEF Fold
<1>2. MapThenSumSet(LAMBDA e : Taken(s[e], p), S) = (CHOOSE h : h = step(h))[S]
  BY DEF MapThenSumSet, MapThenFoldSet, AnyOf
<1> HIDE DEF step, f
<1>3. (CHOOSE h : h = step(h)) = (CHOOSE h : h = Fold(f, S, h))
  BY <1>1, Zenon
<1> QED
  BY <1>2, <1>3, SumIsFold DEF f

\* The sum of the counts of some rows of all entries, each an entry and a place in it.
LEMMA SalesSum ==
  ASSUME NEW s, NEW S
  PROVE  MapThenSumSet(LAMBDA x : s[x[1]].rows[x[2]].count, S)
           = SumOver([x \in S |-> s[x[1]].rows[x[2]].count], S)
<1> DEFINE f == [x \in S |-> s[x[1]].rows[x[2]].count]
           step(h) == [t \in SUBSET S |->
                         IF t = {} THEN 0
                         ELSE s[AnyOf(t)[1]].rows[AnyOf(t)[2]].count + h[t \ {AnyOf(t)}]]
<1>1. ASSUME NEW h
      PROVE  step(h) = Fold(f, S, h)
  BY AnyOfIn DEF Fold
<1>2. MapThenSumSet(LAMBDA x : s[x[1]].rows[x[2]].count, S) = (CHOOSE h : h = step(h))[S]
  BY DEF MapThenSumSet, MapThenFoldSet, AnyOf
<1> HIDE DEF step, f
<1>3. (CHOOSE h : h = step(h)) = (CHOOSE h : h = Fold(f, S, h))
  BY <1>1, Zenon
<1> QED
  BY <1>2, <1>3, SumIsFold DEF f

\* Entries and purchases are finitely many.
LEMMA TablesFinite == IsFiniteSet(EntryIds) /\ IsFiniteSet(BatchIds)
<1>1. EntryIds \subseteq Req \cup OldEntries \cup OldBatches
  BY DEF EntryIds
<1>2. BatchIds \subseteq Req \cup OldEntries \cup OldBatches
  BY DEF BatchIds
<1> QED
  BY <1>1, <1>2, IdsAreFinite, FS_Subset
-----------------------------------------------------------------------------
(***************************************************************************)
(* What is left to move of a list of rows                                  *)
(***************************************************************************)
CountOf(s) == [i \in DOMAIN s |-> s[i].count]

RowsWith(s, p) == {i \in DOMAIN s : s[i].product = p}

\* The oil of product p in the rows of s.
Pending(s, p) == SumOver(CountOf(s), RowsWith(s, p))

LEMMA RowsTyped ==
  ASSUME NEW s \in Seq(Row), NEW p
  PROVE  /\ DOMAIN s = 1 .. Len(s) /\ Len(s) \in Nat
         /\ \A i \in DOMAIN s : s[i] \in Row /\ s[i].count \in Nat
         /\ CountOf(s) \in [DOMAIN s -> Nat]
         /\ IsFiniteSet(DOMAIN s) /\ IsFiniteSet(RowsWith(s, p))
<1>1. DOMAIN s = 1 .. Len(s) /\ Len(s) \in Nat /\ \A i \in DOMAIN s : s[i] \in Row
  BY LenProperties
<1>2. IsFiniteSet(DOMAIN s)
  BY <1>1, FS_Interval
<1>3. IsFiniteSet(RowsWith(s, p))
  BY <1>2, FS_Subset DEF RowsWith
<1> QED
  BY <1>1, <1>2, <1>3 DEF CountOf, Row

LEMMA PendingNat ==
  ASSUME NEW s \in Seq(Row), NEW p
  PROVE  Pending(s, p) \in Nat
<1>1. \A i \in RowsWith(s, p) : CountOf(s)[i] \in Nat
  BY RowsTyped DEF RowsWith
<1> QED
  BY <1>1, RowsTyped, SumNat DEF Pending

LEMMA PendingEmpty ==
  ASSUME NEW p
  PROVE  Pending(<<>>, p) = 0
<1>1. RowsWith(<<>>, p) = {}
  BY EmptySeq DEF RowsWith
<1> QED
  BY <1>1, SumEmpty DEF Pending

\* Of no row of p there is nothing left.
LEMMA PendingNone ==
  ASSUME NEW s \in Seq(Row), NEW p, RowsWith(s, p) = {}
  PROVE  Pending(s, p) = 0
BY SumEmpty DEF Pending

\* The first row of a list, and the rest.
LEMMA PendingHead ==
  ASSUME NEW s \in Seq(Row), s # <<>>, NEW p
  PROVE  /\ Head(s).product = p => Pending(s, p) = Head(s).count + Pending(Tail(s), p)
         /\ Head(s).product # p => Pending(s, p) = Pending(Tail(s), p)
<1> DEFINE t == Tail(s)
           S == RowsWith(s, p) \ {1}
           T == RowsWith(t, p)
           f == [i \in S |-> s[i].count]
           g == [i \in T |-> t[i].count]
           b == [i \in S |-> i - 1]
<1>1. /\ t \in Seq(Row) /\ Len(t) = Len(s) - 1 /\ \A i \in 1 .. Len(t) : t[i] = s[i + 1]
      /\ Len(s) \in Nat /\ Len(s) >= 1 /\ Head(s) = s[1]
  BY HeadTailProperties, LenProperties, EmptySeq
<1>2. DOMAIN s = 1 .. Len(s) /\ DOMAIN t = 1 .. Len(s) - 1
  BY <1>1, RowsTyped
<1>3. IsFiniteSet(S) /\ IsFiniteSet(T) /\ IsFiniteSet(RowsWith(s, p))
  BY <1>1, RowsTyped, FS_RemoveElement
<1>4. f \in [S -> Nat] /\ g \in [T -> Nat]
  BY <1>1, RowsTyped DEF RowsWith
<1>5. b \in Bijection(S, T)
  <2>1. b \in [S -> T]
    BY <1>1, <1>2 DEF RowsWith
  <2>2. \A i, j \in S : b[i] = b[j] => i = j
    BY <1>2 DEF RowsWith
  <2>3. \A j \in T : j + 1 \in S /\ b[j + 1] = j
    BY <1>1, <1>2 DEF RowsWith
  <2> HIDE DEF b, S, T
  <2> QED
    BY <2>1, <2>2, <2>3 DEF Bijection, Surjection, Injection, IsInjective
<1>6. \A i \in S : g[b[i]] = f[i]
  BY <1>1, <1>2 DEF RowsWith
<1>7. SumOver(f, S) = SumOver(g, T)
  <2> HIDE DEF f, g, b, S, T
  <2> QED
    BY <1>3, <1>4, <1>5, <1>6, SumBijection
<1>8. SumOver(CountOf(s), S) = SumOver(f, S) /\ SumOver(CountOf(t), T) = SumOver(g, T)
  <2>1. \A i \in S : CountOf(s)[i] = f[i]
    BY DEF CountOf, RowsWith
  <2>2. \A i \in T : CountOf(t)[i] = g[i]
    BY DEF CountOf, RowsWith
  <2> HIDE DEF f, g, S, T, t
  <2> QED
    BY <2>1, <2>2, SumEqual
<1>9. SumOver(CountOf(s), S) = Pending(t, p)
  BY <1>7, <1>8 DEF Pending
<1>10. CASE Head(s).product = p
  <2>1. 1 \in RowsWith(s, p) /\ CountOf(s)[1] = Head(s).count
    BY <1>1, <1>2, <1>10 DEF RowsWith, CountOf
  <2>2. \A i \in RowsWith(s, p) : CountOf(s)[i] \in Nat
    BY RowsTyped DEF RowsWith
  <2>3. Pending(s, p) = CountOf(s)[1] + SumOver(CountOf(s), S)
    BY <1>3, <2>1, <2>2, SumPoint DEF Pending
  <2> QED
    BY <1>9, <1>10, <2>1, <2>3
<1>11. CASE Head(s).product # p
  <2>1. S = RowsWith(s, p)
    BY <1>1, <1>11 DEF RowsWith
  <2> QED
    BY <1>9, <1>11, <2>1 DEF Pending
<1> QED
  BY <1>10, <1>11

\* An entry takes what its rows that move stock hold.
LEMMA TakenIsPending ==
  ASSUME NEW e \in Entry, NEW p
  PROVE  Taken(e, p) = Pending(StockRows(e), p) /\ Taken(e, p) \in Nat
<1>1. e # None /\ e.rows \in Seq(Row)
  BY NoneIsNoRow DEF Entry
<1>2. StockRows(e) \in Seq(Row)
  BY StockRowsTyped
<1>3. CASE MovesStock(e)
  <2> DEFINE f == [i \in RowsOf(e, p) |-> e.rows[i].count]
  <2>1. Taken(e, p) = SumOver(f, RowsOf(e, p))
    BY <1>1, <1>3, CountsSum DEF Taken
  <2>2. \A i \in RowsOf(e, p) : f[i] = CountOf(e.rows)[i]
    BY DEF RowsOf, CountOf
  <2>3. RowsOf(e, p) = RowsWith(e.rows, p)
    BY DEF RowsOf, RowsWith
  <2>4. SumOver(f, RowsOf(e, p)) = SumOver(CountOf(e.rows), RowsOf(e, p))
    <3> HIDE DEF f
    <3> QED
      BY <2>2, SumEqual
  <2> HIDE DEF f
  <2>5. Taken(e, p) = Pending(e.rows, p)
    BY <2>1, <2>3, <2>4 DEF Pending
  <2> QED
    BY <1>1, <1>3, <2>5, PendingNat DEF StockRows
<1>4. CASE ~ MovesStock(e)
  BY <1>4, PendingEmpty DEF Taken, StockRows
<1> QED
  BY <1>3, <1>4

LEMMA TakenNat ==
  ASSUME NEW e \in Entry \cup {None}, NEW p
  PROVE  Taken(e, p) \in Nat
<1>1. Taken(None, p) = 0
  BY DEF Taken
<1> QED
  BY <1>1, TakenIsPending

-----------------------------------------------------------------------------
(***************************************************************************)
(* A product's rows when another product is dropped                        *)
(***************************************************************************)
LEMMA OrphanedRows ==
  ASSUME NEW e \in Entry, NEW p, NEW q \in Products, q # p
  PROVE  /\ Orphaned(e, p).slot = e.slot /\ Orphaned(e, p).final = e.final
         /\ DOMAIN Orphaned(e, p).rows = DOMAIN e.rows
         /\ RowsOf(Orphaned(e, p), q) = RowsOf(e, q)
         /\ \A i \in RowsOf(e, q) : Orphaned(e, p).rows[i] = e.rows[i]
         /\ \A i \in DOMAIN e.rows : \/ Orphaned(e, p).rows[i].product = e.rows[i].product
                                     \/ Orphaned(e, p).rows[i].product = None
<1> DEFINE rs == [i \in DOMAIN e.rows |->
                    IF e.rows[i].product = p THEN [e.rows[i] EXCEPT !.product = None]
                                             ELSE e.rows[i]]
<1>1. Orphaned(e, p) = [e EXCEPT !.rows = rs]
  BY DEF Orphaned
<1>2. e.rows \in Seq(Row)
  BY DEF Entry
<1>3. \A i \in DOMAIN e.rows : e.rows[i] \in Row
  BY <1>2, RowsTyped
<1>4. Orphaned(e, p).rows = rs /\ Orphaned(e, p).slot = e.slot /\ Orphaned(e, p).final = e.final
  BY <1>1 DEF Entry
<1>5. None # q
  BY IdsAreDistinct DEF Products
<1>6. \A i \in DOMAIN e.rows :
        /\ rs[i].product = q <=> e.rows[i].product = q
        /\ e.rows[i].product = q => rs[i] = e.rows[i]
        /\ rs[i].product = e.rows[i].product \/ rs[i].product = None
  BY <1>3, <1>5 DEF Row
<1>7. DOMAIN rs = DOMAIN e.rows
  OBVIOUS
<1> HIDE DEF rs
<1> QED
  BY <1>4, <1>6, <1>7 DEF RowsOf

LEMMA OrphanedTaken ==
  ASSUME NEW e \in Entry, NEW p, NEW q \in Products, q # p
  PROVE  Taken(Orphaned(e, p), q) = Taken(e, q)
<1> DEFINE o == Orphaned(e, p)
           S == RowsOf(e, q)
           f == [i \in S |-> o.rows[i].count]
           g == [i \in S |-> e.rows[i].count]
<1>1. o \in Entry /\ o # None /\ e # None
  BY OrphanedIsEntry, NoneIsNoRow
<1>2. MovesStock(o) = MovesStock(e) /\ RowsOf(o, q) = S /\ \A i \in S : o.rows[i] = e.rows[i]
  BY OrphanedRows DEF MovesStock
<1>3. SumOver(f, S) = SumOver(g, S)
  <2>1. \A i \in S : f[i] = g[i]
    BY <1>2
  <2> HIDE DEF f, g
  <2> QED
    BY <2>1, SumEqual
<1>4. CASE MovesStock(e)
  <2>1. Taken(e, q) = SumOver(g, S)
    BY <1>1, <1>4, CountsSum DEF Taken
  <2>2. Taken(o, q) = SumOver(f, S)
    <3>1. Taken(o, q) = MapThenSumSet(LAMBDA i : o.rows[i].count, S)
      BY <1>1, <1>2, <1>4 DEF Taken
    <3> QED
      BY <3>1, CountsSum
  <2> QED
    BY <1>3, <2>1, <2>2
<1>5. CASE ~ MovesStock(e)
  BY <1>2, <1>5 DEF Taken
<1> QED
  BY <1>4, <1>5
-----------------------------------------------------------------------------
(***************************************************************************)
(* What was bought, at all costs or at one                                 *)
(***************************************************************************)
Qty(b) == IF b = None THEN 0 ELSE b.qty

\* What each purchase row adds to what was bought of p, and at cost c.
BitsOf(batches, p) ==
  [b \in BatchIds |-> IF batches[b] # None /\ batches[b].product = p THEN batches[b].qty ELSE 0]

BitsAt(batches, p, c) ==
  [b \in BatchIds |->
     IF batches[b] # None /\ batches[b].product = p /\ batches[b].cost = c
     THEN batches[b].qty ELSE 0]

BatchTables == [BatchIds -> Batch \cup {None}]

LEMMA BoughtIsSum ==
  ASSUME NEW s \in BatchTables, NEW p
  PROVE  /\ Bought(s, p) = SumOver(BitsOf(s, p), BatchIds)
         /\ BitsOf(s, p) \in [BatchIds -> Nat]
         /\ Bought(s, p) \in Nat
<1> DEFINE T == BatchesOf(s, p)
           f == [b \in T |-> s[b].qty]
<1>1. T \subseteq BatchIds /\ \A b \in T : s[b] # None /\ s[b].product = p /\ s[b].qty \in Nat
  BY DEF BatchesOf, BatchTables, Batch
<1>2. BitsOf(s, p) \in [BatchIds -> Nat]
  BY DEF BitsOf, BatchTables, Batch
<1>3. /\ \A b \in T : f[b] \in Nat /\ BitsOf(s, p)[b] = f[b]
      /\ \A b \in BatchIds \ T : BitsOf(s, p)[b] = 0
  BY <1>1 DEF BitsOf, BatchesOf
<1>4. Bought(s, p) = SumOver(f, T)
  BY QuantitiesSum DEF Bought
<1>5. SumOver(f, T) = SumOver(BitsOf(s, p), BatchIds)
  <2> HIDE DEF f, T
  <2> QED
    BY <1>1, <1>3, TablesFinite, SumFilter
<1> QED
  BY <1>2, <1>4, <1>5, TablesFinite, SumNat

LEMMA BoughtAtIsSum ==
  ASSUME NEW s \in BatchTables, NEW p, NEW c
  PROVE  /\ BoughtAt(s, p, c) = SumOver(BitsAt(s, p, c), BatchIds)
         /\ BitsAt(s, p, c) \in [BatchIds -> Nat]
         /\ BoughtAt(s, p, c) \in Nat
<1> DEFINE T == {b \in BatchesOf(s, p) : s[b].cost = c}
           f == [b \in T |-> s[b].qty]
<1>1. T \subseteq BatchIds
  BY DEF BatchesOf
<1>2. BitsAt(s, p, c) \in [BatchIds -> Nat]
  BY DEF BitsAt, BatchTables, Batch
<1>3. /\ \A b \in T : f[b] \in Nat /\ BitsAt(s, p, c)[b] = f[b]
      /\ \A b \in BatchIds \ T : BitsAt(s, p, c)[b] = 0
  BY DEF BitsAt, BatchesOf, BatchTables, Batch
<1>4. BoughtAt(s, p, c) = SumOver(f, T)
  BY QuantitiesSum DEF BoughtAt
<1>5. SumOver(f, T) = SumOver(BitsAt(s, p, c), BatchIds)
  <2> HIDE DEF f, T
  <2> QED
    BY <1>1, <1>3, TablesFinite, SumFilter
<1> QED
  BY <1>2, <1>4, <1>5, TablesFinite, SumNat

\* One purchase row of p written: what was bought changes by what it says.
LEMMA BoughtEdit ==
  ASSUME NEW s \in BatchTables, NEW t \in BatchTables, NEW b \in BatchIds, NEW p,
         \A d \in BatchIds \ {b} : t[d] = s[d],
         s[b] # None => s[b].product = p,
         t[b] # None => t[b].product = p
  PROVE  Bought(t, p) = Bought(s, p) - Qty(s[b]) + Qty(t[b])
<1>1. \A d \in BatchIds \ {b} : BitsOf(s, p)[d] = BitsOf(t, p)[d]
  BY DEF BitsOf
<1>2. BitsOf(s, p)[b] = Qty(s[b]) /\ BitsOf(t, p)[b] = Qty(t[b])
  BY DEF BitsOf, Qty
<1> QED
  BY <1>1, <1>2, BoughtIsSum, SumChange, TablesFinite

\* The purchases of other products stay.
LEMMA BoughtElsewhere ==
  ASSUME NEW s \in BatchTables, NEW t \in BatchTables, NEW p,
         BatchesOf(t, p) = BatchesOf(s, p), \A d \in BatchesOf(s, p) : t[d] = s[d]
  PROVE  Bought(t, p) = Bought(s, p) /\ \A c : BoughtAt(t, p, c) = BoughtAt(s, p, c)
<1>1. \A d \in BatchIds : BitsOf(s, p)[d] = BitsOf(t, p)[d]
  BY DEF BitsOf, BatchesOf
<1>2. ASSUME NEW c
      PROVE  \A d \in BatchIds : BitsAt(s, p, c)[d] = BitsAt(t, p, c)[d]
  BY DEF BitsAt, BatchesOf
<1>3. SumOver(BitsOf(s, p), BatchIds) = SumOver(BitsOf(t, p), BatchIds)
  BY <1>1, SumEqual
<1>4. ASSUME NEW c
      PROVE  SumOver(BitsAt(s, p, c), BatchIds) = SumOver(BitsAt(t, p, c), BatchIds)
  BY <1>2, SumEqual
<1> QED
  BY <1>3, <1>4, BoughtIsSum, BoughtAtIsSum
-----------------------------------------------------------------------------
(***************************************************************************)
(* The balance                                                             *)
(***************************************************************************)
EntryTables == [EntryIds -> Entry \cup {None}]

\* What all entries take of p.
AllTaken(entries, p) == SumOver([e \in EntryIds |-> Taken(entries[e], p)], EntryIds)

LEMMA BalanceIs ==
  ASSUME NEW s \in EntryTables, NEW t, NEW p
  PROVE  Balance(s, t, p) = Bought(t, p) - AllTaken(s, p) /\ AllTaken(s, p) \in Nat
<1>1. \A e \in EntryIds : Taken(s[e], p) \in Nat
  BY TakenNat DEF EntryTables
<1>2. AllTaken(s, p) \in Nat
  BY <1>1, TablesFinite, SumNat DEF AllTaken
<1> QED
  BY <1>2, AllTakenSum DEF Balance, AllTaken

\* One entry written: the balance moves by what it took and takes.
LEMMA TakenEdit ==
  ASSUME NEW s \in EntryTables, NEW t \in EntryTables, NEW e \in EntryIds, NEW p,
         \A f \in EntryIds \ {e} : Taken(t[f], p) = Taken(s[f], p)
  PROVE  AllTaken(t, p) = AllTaken(s, p) - Taken(s[e], p) + Taken(t[e], p)
<1> DEFINE g == [f \in EntryIds |-> Taken(s[f], p)]
           h == [f \in EntryIds |-> Taken(t[f], p)]
<1>1. \A f \in EntryIds : Taken(s[f], p) \in Nat /\ Taken(t[f], p) \in Nat
  BY TakenNat DEF EntryTables
<1>2. \A f \in EntryIds : g[f] \in Nat /\ h[f] \in Nat
  BY <1>1
<1>3. \A f \in EntryIds \ {e} : g[f] = h[f]
  OBVIOUS
<1>4. g[e] = Taken(s[e], p) /\ h[e] = Taken(t[e], p)
  OBVIOUS
<1> HIDE DEF g, h
<1>5. SumOver(h, EntryIds) = SumOver(g, EntryIds) - g[e] + h[e]
  BY <1>2, <1>3, TablesFinite, SumChange
<1> QED
  BY <1>4, <1>5 DEF AllTaken, g, h

LEMMA TakenSame ==
  ASSUME NEW s, NEW t, NEW p, \A e \in EntryIds : Taken(t[e], p) = Taken(s[e], p)
  PROVE  AllTaken(t, p) = AllTaken(s, p)
<1> DEFINE g == [f \in EntryIds |-> Taken(s[f], p)]
           h == [f \in EntryIds |-> Taken(t[f], p)]
<1>1. \A f \in EntryIds : g[f] = h[f]
  OBVIOUS
<1>2. SumOver(g, EntryIds) = SumOver(h, EntryIds)
  <2> HIDE DEF g, h
  <2> QED
    BY <1>1, SumEqual
<1> QED
  BY <1>2 DEF AllTaken

-----------------------------------------------------------------------------
(***************************************************************************)
(* What the final entries sold of a product at one cost                    *)
(***************************************************************************)
LEMMA FinalRowsAre ==
  ASSUME NEW s, NEW p, NEW c, NEW x
  PROVE  x \in FinalRowsAt(s, p, c) <=>
           \E e \in EntryIds : \E i \in RowsOf(s[e], p) :
             x = <<e, i>> /\ s[e] # None /\ s[e].final /\ s[e].rows[i].rate = c
BY DEF FinalRowsAt

LEMMA FinalRowsFinite ==
  ASSUME NEW s \in EntryTables, NEW p, NEW c
  PROVE  IsFiniteSet(FinalRowsAt(s, p, c))
<1> DEFINE F == {f \in EntryIds : s[f] # None /\ s[f].final}
           Z == {{e} \X RowsOf(s[e], p) : e \in F}
<1>1. IsFiniteSet(F)
  BY TablesFinite, FS_Subset
<1>2. IsFiniteSet(Z)
  <2> DEFINE f == [e \in F |-> {e} \X RowsOf(s[e], p)]
  <2>1. f \in Surjection(F, Z)
    BY DEF Surjection
  <2> HIDE DEF f, F, Z
  <2> QED
    BY <1>1, <2>1, FS_Surjection
<1>3. ASSUME NEW e \in F
      PROVE  IsFiniteSet({e} \X RowsOf(s[e], p))
  <2>1. s[e].rows \in Seq(Row)
    BY DEF EntryTables, Entry
  <2>2. RowsOf(s[e], p) = RowsWith(s[e].rows, p)
    BY DEF RowsOf, RowsWith
  <2> QED
    BY <2>1, <2>2, RowsTyped, FS_Singleton, FS_Product
<1>4. \A z \in Z : IsFiniteSet(z)
  BY <1>3
<1>5. IsFiniteSet(UNION Z)
  <2> HIDE DEF Z
  <2> QED
    BY <1>2, <1>4, FS_UNION
<1>6. FinalRowsAt(s, p, c) \subseteq UNION Z
  BY DEF FinalRowsAt
<1> QED
  BY <1>5, <1>6, FS_Subset

LEMMA SoldIsSum ==
  ASSUME NEW s \in EntryTables, NEW p, NEW c
  PROVE  LET X == FinalRowsAt(s, p, c)
             f == [x \in X |-> s[x[1]].rows[x[2]].count]
         IN  SoldAt(s, p, c) = SumOver(f, X) /\ f \in [X -> Nat] /\ SoldAt(s, p, c) \in Nat
<1> DEFINE X == FinalRowsAt(s, p, c)
           f == [x \in X |-> s[x[1]].rows[x[2]].count]
<1>1. SoldAt(s, p, c) = SumOver(f, X)
  BY SalesSum DEF SoldAt
<1>2. \A x \in X : f[x] \in Nat
  <2>1. TAKE x \in X
  <2>2. PICK e \in EntryIds : \E i \in RowsOf(s[e], p) : x = <<e, i>> /\ s[e] # None
    BY FinalRowsAre
  <2>3. PICK i \in RowsOf(s[e], p) : x = <<e, i>> /\ s[e] # None
    BY <2>2
  <2>4. s[e].rows \in Seq(Row) /\ i \in DOMAIN s[e].rows
    BY <2>3 DEF EntryTables, Entry, RowsOf
  <2>5. s[e].rows[i].count \in Nat
    BY <2>4, RowsTyped
  <2> QED
    BY <2>3, <2>5
<1>3. SumOver(f, X) \in Nat
  <2> HIDE DEF f, X
  <2> QED
    BY <1>2, FinalRowsFinite, SumNat DEF X
<1> QED
  BY <1>1, <1>2, <1>3

\* Of a cost at which no final entry sold the product, nothing was sold.
LEMMA NothingSold ==
  ASSUME NEW s, NEW p, NEW c, ~ HasFinalRowAt(s, p, c)
  PROVE  SoldAt(s, p, c) = 0
<1>1. FinalRowsAt(s, p, c) = {}
  BY DEF HasFinalRowAt
<1>2. SoldAt(s, p, c) = SumOver([x \in FinalRowsAt(s, p, c) |-> s[x[1]].rows[x[2]].count],
                                FinalRowsAt(s, p, c))
  BY SalesSum DEF SoldAt
<1> QED
  BY <1>1, <1>2, SumEmpty

(***************************************************************************)
(* Entries that are kept, deleted, saved without p, or lose another        *)
(* product sell no more of p than before.                                  *)
(***************************************************************************)
SellsNoMore(s, t, p) ==
  \A e \in EntryIds :
    \/ t[e] = s[e]
    \/ t[e] = None
    \/ RowsOf(t[e], p) = {}
    \/ s[e] # None /\ \E q : q # p /\ t[e] = Orphaned(s[e], q)

LEMMA SoldNoMore ==
  ASSUME NEW s \in EntryTables, NEW t \in EntryTables, NEW p \in Products, NEW c,
         SellsNoMore(s, t, p)
  PROVE  SoldAt(t, p, c) <= SoldAt(s, p, c)
<1> DEFINE X == FinalRowsAt(s, p, c)
           Y == FinalRowsAt(t, p, c)
           f == [x \in X |-> s[x[1]].rows[x[2]].count]
           g == [x \in Y |-> t[x[1]].rows[x[2]].count]
<1>1. \A x \in Y : x \in X /\ g[x] = f[x]
  <2>1. TAKE x \in Y
  <2>0. PICK e \in EntryIds : \E i \in RowsOf(t[e], p) :
          x = <<e, i>> /\ t[e] # None /\ t[e].final /\ t[e].rows[i].rate = c
    BY FinalRowsAre
  <2>2. PICK i \in RowsOf(t[e], p) :
          x = <<e, i>> /\ t[e] # None /\ t[e].final /\ t[e].rows[i].rate = c
    BY <2>0
  <2>3. /\ s[e] # None /\ s[e].final = t[e].final /\ i \in RowsOf(s[e], p)
        /\ t[e].rows[i] = s[e].rows[i]
    <3>1. CASE t[e] = s[e]
      BY <2>2, <3>1
    <3>2. CASE s[e] # None /\ \E q : q # p /\ t[e] = Orphaned(s[e], q)
      <4>1. s[e] \in Entry
        BY <3>2 DEF EntryTables
      <4>2. PICK q : q # p /\ t[e] = Orphaned(s[e], q)
        BY <3>2
      <4>3. /\ Orphaned(s[e], q).final = s[e].final
            /\ RowsOf(Orphaned(s[e], q), p) = RowsOf(s[e], p)
            /\ \A j \in RowsOf(s[e], p) : Orphaned(s[e], q).rows[j] = s[e].rows[j]
        BY <4>1, <4>2, OrphanedRows
      <4> QED
        BY <2>2, <3>2, <4>2, <4>3
    <3> QED
      BY <2>2, <3>1, <3>2 DEF SellsNoMore
  <2>4. x \in X
    BY <2>2, <2>3, FinalRowsAre
  <2>5. g[x] = f[x]
    BY <2>2, <2>3, <2>4
  <2> QED
    BY <2>4, <2>5
<1>2. f \in [X -> Nat] /\ SoldAt(s, p, c) = SumOver(f, X)
  BY SoldIsSum
<1>3. SoldAt(t, p, c) = SumOver(g, Y)
  BY SoldIsSum
<1>4. IsFiniteSet(X) /\ IsFiniteSet(Y)
  BY FinalRowsFinite
<1> HIDE DEF f, g, X, Y
<1>5. SumOver(g, Y) = SumOver(f, Y)
  BY <1>1, SumEqual
<1>6. SumOver(f, Y) <= SumOver(f, X)
  <2>1. Y \in SUBSET X /\ \A x \in X : f[x] \in Nat
    BY <1>1, <1>2
  <2> QED
    BY <1>4, <2>1, SumSubset
<1> QED
  BY <1>2, <1>3, <1>5, <1>6

-----------------------------------------------------------------------------
(***************************************************************************)
(* The invariant                                                           *)
(***************************************************************************)
AtEntry(r) ==
  /\ kind[r] \in EntryKinds \cup {"deleteEntry"}
  /\ pc[r] \in {"restore", "rows", "sell", "commit"}

(***************************************************************************)
(* What the code does not ensure, since delete() reads the entry without   *)
(* lock_for_update: that nobody else saves or deletes the entry meanwhile. *)
(* Without it the sales of an entry are given back twice, which is the     *)
(* violation that the run of MCFuelEntryStock_deletes finds.               *)
(***************************************************************************)
DeletesAlone ==
  \A r, q \in Req : r # q /\ kind[r] = "deleteEntry" /\ AtEntry(r) /\ AtEntry(q) =>
    job[q].id # job[r].id

\* The products that are or were on record.
OnRecord == Catalog \cup {r \in Req : kind[r] = "createProduct" /\ pc[r] = "done"}

\* Whatever names a product names one of them.
RecordKnown ==
  /\ live \subseteq OnRecord
  /\ \A e \in EntryIds : entry[e] # None => ProductsOf(entry[e]) \subseteq OnRecord
  /\ \A b \in BatchIds : batch[b] # None => batch[b].product \in OnRecord

JobKnown(r) ==
  /\ pc[r] = "idle" => todo[r] = <<>>
  /\ \A i \in DOMAIN todo[r] : todo[r][i].product \in OnRecord \cup {None}
  /\ kind[r] = "deleteProduct" /\ pc[r] \in {"drop", "commit"} => job[r].id \in OnRecord

\* What a request creates is not there before it is done.
Fresh(r) ==
  /\ pc[r] # "done" => entry[r] = None /\ batch[r] = None
  /\ kind[r] = "createProduct" /\ pc[r] = "commit" => job[r].batch.product = r
  /\ kind[r] = "addPurchase" /\ pc[r] = "edit" => job[r].id = r

\* The entry a request works on is its own new one, or one that is on record.
Held(r) ==
  /\ pc[r] = "lock" => kind[r] = "updateEntry"
  /\ AtEntry(r) =>
       /\ kind[r] = "createEntry" => job[r].id = r
       /\ kind[r] = "updateEntry" => entry[job[r].id] # None /\ job[r].id \in locked[r]
       /\ kind[r] = "deleteEntry" => entry[job[r].id] # None /\ job[r].entry = None

LocksExclusive == \A r, q \in Req : r # q => locked[r] \cap locked[q] = {}

\* Products are locked by whoever works on them, and stay on record as long.
Locking(r) ==
  /\ pc[r] \in {"idle", "lock", "edit", "drop"} => owns[r] = {}
  /\ owns[r] \cup shares[r] \subseteq live
  /\ pc[r] = "sell" => ProductsOf(job[r].entry) \subseteq shares[r]
  /\ kind[r] = "deleteProduct" /\ pc[r] = "commit" /\ job[r].id \in live =>
       job[r].id \in owns[r]

\* The purchases of p changed to `new' cover what was sold wherever they shrink.
Covered(new, p) ==
  \A c \in Costs :
    BoughtAt(new, p, c) < BoughtAt(batch, p, c) => SoldAt(entry, p, c) <= BoughtAt(new, p, c)

\* A change to a purchase that waits for its commit.
StagedFor(r, p, b, new) ==
  /\ owns[r] = {p}
  /\ b \in BatchIds
  /\ batch[b] = None => b = r
  /\ batch[b] # None => batch[b].product = p
  /\ new # None => new.product = p
  /\ view[r][p] = stock[p] + Qty(new) - Qty(batch[b])
  /\ Covered([batch EXCEPT ![b] = new], p)

Staged(r) ==
  pc[r] = "commit" /\ kind[r] \in PurchaseKinds =>
    \E p \in live : StagedFor(r, p, job[r].id, job[r].batch)

\* What a request has yet to give back, or has taken already.
Owed(r, p) ==
  IF pc[r] = "restore" THEN Pending(todo[r], p)
  ELSE IF pc[r] = "sell" THEN Taken(job[r].entry, p) - Pending(todo[r], p)
  ELSE 0

(***************************************************************************)
(* A session sees the committed stock, with the sales of the entry as it   *)
(* is on record given back, but for what it owes.                          *)
(***************************************************************************)
Moved(r) ==
  AtEntry(r) =>
    \A p \in live : Seen(r, p) = stock[p] + Taken(entry[job[r].id], p) - Owed(r, p)

Writing(r) == pc[r] \in {"rows", "sell"}

\* The key that a request writes is nobody else's.
SlotFree(r) ==
  Writing(r) =>
    \A f \in EntryIds \ {job[r].id} : entry[f] # None => entry[f].slot # job[r].entry.slot

SlotsApart ==
  \A r, q \in Req : r # q /\ Writing(r) /\ Writing(q) => job[r].entry.slot # job[q].entry.slot

Session(r) == JobKnown(r) /\ Fresh(r) /\ Held(r) /\ Locking(r) /\ Staged(r) /\ Moved(r) /\ SlotFree(r)

LInv ==
  /\ IInv
  /\ RecordKnown
  /\ LocksExclusive
  /\ SlotsApart
  /\ StockConserved
  /\ \A r \in Req : Session(r)
-----------------------------------------------------------------------------
(***************************************************************************)
(* Steps that commit nothing                                               *)
(***************************************************************************)
\* The state of a request.
Mine(r) == <<pc[r], job[r], todo[r], view[r], owns[r], shares[r], locked[r]>>

\* As long as nothing is committed, the requests that do not move stay as they are.
LEMMA OthersKeep ==
  ASSUME LInv, UNCHANGED <<committed, kind>>, OnRecord \subseteq OnRecord',
         NEW q \in Req, UNCHANGED Mine(q)
  PROVE  Session(q)'
<1>1. Session(q)
  BY DEF LInv
<1>2. /\ pc'[q] = pc[q] /\ job'[q] = job[q] /\ todo'[q] = todo[q] /\ view'[q] = view[q]
      /\ owns'[q] = owns[q] /\ shares'[q] = shares[q] /\ locked'[q] = locked[q]
      /\ live' = live /\ stock' = stock /\ entry' = entry /\ batch' = batch /\ kind' = kind
  BY DEF Mine, committed
<1>3. JobKnown(q)'
  BY <1>1, <1>2 DEF Session, JobKnown
<1>4. Fresh(q)' /\ Held(q)'
  BY <1>1, <1>2 DEF Session, Fresh, Held, AtEntry
<1>5. Locking(q)'
  BY <1>1, <1>2 DEF Session, Locking
<1>6. Staged(q)'
  BY <1>1, <1>2 DEF Session, Staged, StagedFor, Covered
<1>7. Moved(q)'
  BY <1>1, <1>2 DEF Session, Moved, AtEntry, Owed, Seen
<1>8. SlotFree(q)'
  BY <1>1, <1>2 DEF Session, SlotFree, Writing
<1> QED
  BY <1>3, <1>4, <1>5, <1>6, <1>7, <1>8 DEF Session

\* A step of r that commits nothing leaves r's own part to show.
LEMMA QuietStep ==
  ASSUME LInv, NEW r \in Req, pc[r] # "done", NEW at, pc' = [pc EXCEPT ![r] = at],
         UNCHANGED <<committed, kind>>, IInv',
         \A q \in Req \ {r} : UNCHANGED Mine(q),
         Session(r)', LocksExclusive', SlotsApart'
  PROVE  LInv'
<1>1. OnRecord \subseteq OnRecord'
  BY DEF OnRecord, LInv, IInv, TypeOK
<1>2. \A q \in Req : Session(q)'
  BY <1>1, OthersKeep
<1>3. RecordKnown'
  BY <1>1 DEF LInv, RecordKnown, committed
<1>4. StockConserved'
  BY DEF LInv, StockConserved, committed
<1> QED
  BY <1>2, <1>3, <1>4 DEF LInv

\* A request that ends without a commit leaves nothing behind.
LEMMA RejectLedger ==
  ASSUME LInv, NEW r \in Req, Running(r), Reject(r)
  PROVE  LInv'
<1> USE DEF Reject, End, Release
<1>1. IInv'
  BY RejectKeeps DEF LInv
<1>2. pc[r] # "done" /\ pc' = [pc EXCEPT ![r] = "failed"] /\ UNCHANGED <<committed, kind>>
  BY DEF Running
<1>3. \A q \in Req \ {r} : UNCHANGED Mine(q)
  BY DEF Mine, LInv, IInv, TypeOK
<1>4. /\ pc'[r] = "failed" /\ todo'[r] = <<>> /\ owns'[r] = {} /\ shares'[r] = {}
      /\ locked' = [locked EXCEPT ![r] = {}]
  BY DEF LInv, IInv, TypeOK
<1>5. Session(r)'
  <2>1. JobKnown(r)'
    BY <1>2, <1>4, EmptySeq DEF JobKnown
  <2>2. Fresh(r)'
    BY <1>2, <1>4 DEF LInv, Session, Fresh, committed
  <2>3. Held(r)' /\ Locking(r)' /\ Staged(r)' /\ Moved(r)' /\ SlotFree(r)'
    BY <1>2, <1>4 DEF Held, Locking, Staged, Moved, SlotFree, AtEntry, Writing
  <2> QED
    BY <2>1, <2>2, <2>3 DEF Session
<1>6. LocksExclusive'
  BY <1>4 DEF LInv, LocksExclusive, IInv, TypeOK
<1>7. SlotsApart'
  BY <1>2, <1>4 DEF LInv, SlotsApart, Writing, IInv, TypeOK
<1> QED
  BY <1>1, <1>2, <1>3, <1>5, <1>6, <1>7, QuietStep

\* The rows whose stock an entry on record moves name products on record.
LEMMA StockRowsKnown ==
  ASSUME NEW e \in Entry, NEW S, ProductsOf(e) \subseteq S
  PROVE  \A i \in DOMAIN StockRows(e) : StockRows(e)[i].product \in S \cup {None}
BY EmptySeq DEF StockRows, ProductsOf

LEMMA ArriveLedger ==
  ASSUME LInv, NEW r \in Req, Arrive(r)
  PROVE  LInv'
<1>1. IInv /\ IInv' /\ Session(r)
  BY ArriveKeeps DEF LInv
<1>2. PICK at, id, e, b : Starts(r, at, id, e, b)
  BY <1>1, ArriveStarts
<1>3. UNCHANGED <<committed, kind, view, base, locks>>
  BY <1>1, ArriveStarts
<1>4. pc[r] = "idle" /\ pc' = [pc EXCEPT ![r] = at]
  BY <1>2 DEF Starts
<1>5. \A q \in Req \ {r} : todo'[q] = todo[q]
  BY <1>1 DEF Arrive, CreateEntry, UpdateEntry, DeleteEntry, AddPurchase, UpdatePurchase,
              DeletePurchase, CreateProduct, DeleteProduct, IInv, TypeOK
<1>6. \A q \in Req \ {r} : UNCHANGED Mine(q)
  BY <1>1, <1>2, <1>3, <1>5 DEF Mine, Starts, locks, IInv, TypeOK
<1>7. LocksExclusive' /\ SlotsApart'
  <2>1. at \notin {"rows", "sell"}
    BY <1>2 DEF Starts
  <2>2. \A q \in Req : Writing(q)' => q # r /\ Writing(q) /\ job'[q] = job[q]
    BY <1>2, <1>4, <2>1 DEF Writing, Starts, IInv, TypeOK, LInv
  <2> QED
    BY <1>3, <2>2 DEF LInv, LocksExclusive, SlotsApart, locks
<1>8. /\ live' = live /\ stock' = stock /\ entry' = entry /\ batch' = batch /\ kind' = kind
      /\ owns'[r] = {} /\ shares'[r] = shares[r] /\ view' = view
      /\ todo[r] = <<>> /\ entry[r] = None /\ batch[r] = None
      /\ owns[r] \cup shares[r] \subseteq live
  BY <1>1, <1>3, <1>4 DEF committed, locks, Session, JobKnown, Fresh, Locking
<1>9. CASE ~ DeleteEntry(r) /\ ~ CreateEntry(r)
  <2>1. todo' = todo
    BY <1>9 DEF Arrive, UpdateEntry, AddPurchase, UpdatePurchase,
                DeletePurchase, CreateProduct, DeleteProduct
  <2>2. /\ kind[r] \in PurchaseKinds \cup {"updateEntry", "createProduct", "deleteProduct"}
        /\ kind[r] = "updateEntry" => pc'[r] = "lock"
        /\ kind[r] \in PurchaseKinds => pc'[r] = "edit"
        /\ kind[r] = "addPurchase" => job'[r].id = r
        /\ kind[r] = "createProduct" => pc'[r] = "commit" /\ job'[r].batch.product = r
        /\ kind[r] = "deleteProduct" => pc'[r] = "drop" /\ job'[r].id \in live
    <3>1. CASE CreateProduct(r)
      <4>1. PICK w \in BatchWrites :
              Begin(r, "createProduct", "commit", r, None, [w EXCEPT !.product = r])
        BY <3>1 DEF CreateProduct
      <4>2. [w EXCEPT !.product = r].product = r
        BY WritesTyped DEF Batch
      <4> QED
        BY <1>1, <4>1, <4>2 DEF Begin, Goto, IInv, TypeOK, PurchaseKinds
    <3>2. CASE UpdateEntry(r) \/ AddPurchase(r) \/ UpdatePurchase(r) \/ DeletePurchase(r)
               \/ DeleteProduct(r)
      BY <1>1, <3>2 DEF UpdateEntry, AddPurchase, UpdatePurchase, DeletePurchase, DeleteProduct,
                        Begin, Goto, IInv, TypeOK, PurchaseKinds
    <3> QED
      BY <1>9, <3>1, <3>2 DEF Arrive
  <2>3. JobKnown(r)'
    <3>1. OnRecord \subseteq OnRecord'
      BY <1>1, <1>3, <1>4 DEF OnRecord, IInv, TypeOK
    <3>2. live \subseteq OnRecord
      BY DEF LInv, RecordKnown
    <3> QED
      BY <1>8, <2>1, <2>2, <3>1, <3>2, EmptySeq DEF JobKnown
  <2>4. Fresh(r)' /\ Locking(r)'
    BY <1>8, <2>2 DEF Fresh, Locking, PurchaseKinds
  <2>5. Held(r)' /\ Staged(r)' /\ Moved(r)' /\ SlotFree(r)'
    BY <1>8, <2>2 DEF Held, Staged, Moved, SlotFree, AtEntry, Writing, PurchaseKinds, EntryKinds
  <2>6. Session(r)'
    BY <2>3, <2>4, <2>5 DEF Session
  <2> QED
    BY <1>1, <1>3, <1>4, <1>6, <1>7, <2>6, QuietStep
<1>10. CASE CreateEntry(r)
  <2>1. /\ kind[r] = "createEntry" /\ pc'[r] = "restore" /\ job'[r].id = r /\ todo'[r] = <<>>
    BY <1>1, <1>8, <1>10 DEF CreateEntry, Begin, Goto, IInv, TypeOK
  <2>2. JobKnown(r)' /\ Fresh(r)' /\ Held(r)' /\ Locking(r)' /\ Staged(r)' /\ SlotFree(r)'
    BY <1>8, <2>1, EmptySeq
    DEF JobKnown, Fresh, Held, Locking, Staged, SlotFree, Writing, PurchaseKinds
  <2>3. Moved(r)'
    <3>1. SUFFICES ASSUME NEW p \in live
                   PROVE  (Seen(r, p) = stock[p] + Taken(entry[job[r].id], p) - Owed(r, p))'
      BY <1>8 DEF Moved
    <3>2. Seen(r, p)' = stock[p] /\ stock[p] \in Int
      BY <1>1, <1>8 DEF Seen, IInv, TypeOK
    <3>3. Taken(entry[job[r].id], p)' = 0
      BY <1>8, <2>1 DEF Taken
    <3>4. Owed(r, p)' = 0
      BY <2>1, PendingEmpty DEF Owed
    <3> QED
      BY <1>8, <3>2, <3>3, <3>4
  <2>4. Session(r)'
    BY <2>2, <2>3 DEF Session
  <2> QED
    BY <1>1, <1>3, <1>4, <1>6, <1>7, <2>4, QuietStep
<1>11. CASE DeleteEntry(r)
  <2>1. PICK f \in EntryIds :
          /\ entry[f] # None
          /\ Begin(r, "deleteEntry", "restore", f, None, None)
          /\ todo' = [todo EXCEPT ![r] = StockRows(entry[f])]
    BY <1>11 DEF DeleteEntry
  <2>2. /\ kind[r] = "deleteEntry" /\ pc'[r] = "restore"
        /\ job'[r].id = f /\ job'[r].entry = None
        /\ todo'[r] = StockRows(entry[f]) /\ entry[f] \in Entry
    BY <1>1, <2>1 DEF Begin, Goto, IInv, TypeOK
  <2>3. JobKnown(r)'
    <3>1. \A i \in DOMAIN StockRows(entry[f]) : StockRows(entry[f])[i].product \in OnRecord \cup {None}
      BY <2>1, <2>2, StockRowsKnown DEF LInv, RecordKnown
    <3>2. OnRecord \subseteq OnRecord'
      BY <1>1, <1>3, <1>4 DEF OnRecord, IInv, TypeOK
    <3> QED
      BY <1>8, <2>2, <3>1, <3>2 DEF JobKnown
  <2>4. Fresh(r)' /\ Held(r)' /\ Locking(r)' /\ Staged(r)' /\ SlotFree(r)'
    BY <1>8, <2>1, <2>2 DEF Fresh, Held, Locking, Staged, SlotFree, Writing, EntryKinds
  <2>5. Moved(r)'
    <3>1. SUFFICES ASSUME NEW p \in live
                   PROVE  (Seen(r, p) = stock[p] + Taken(entry[job[r].id], p) - Owed(r, p))'
      BY <1>8 DEF Moved
    <3>2. Seen(r, p)' = stock[p] /\ stock[p] \in Int
      BY <1>1, <1>8 DEF Seen, IInv, TypeOK
    <3>3. Taken(entry[job[r].id], p)' = Taken(entry[f], p)
      BY <1>8, <2>2
    <3>4. Owed(r, p)' = Taken(entry[f], p) /\ Taken(entry[f], p) \in Nat
      BY <2>2, TakenIsPending DEF Owed
    <3> QED
      BY <1>8, <3>2, <3>3, <3>4
  <2>6. Session(r)'
    BY <2>3, <2>4, <2>5 DEF Session
  <2> QED
    BY <1>1, <1>3, <1>4, <1>6, <1>7, <2>6, QuietStep
<1> QED
  BY <1>9, <1>10, <1>11

LEMMA LockEntryLedger ==
  ASSUME LInv, NEW r \in Req, LockEntry(r)
  PROVE  LInv'
<1> DEFINE e == job[r].id
<1>1. IInv /\ IInv' /\ Session(r) /\ Running(r) /\ pc[r] = "lock" /\ kind[r] \in EntryKinds
  BY LockEntryKeeps DEF LInv, LockEntry, Running, IInv, JobsFit
<1>2. CASE Reject(r)
  BY <1>1, <1>2, RejectLedger
<1>3. CASE /\ entry[e] # None
           /\ locked' = [locked EXCEPT ![r] = @ \cup {e}]
           /\ todo' = [todo EXCEPT ![r] = StockRows(entry[e])]
           /\ Goto(r, "restore")
           /\ UNCHANGED <<committed, job, view, base, owns, shares>>
  <2>1. e \in EntryIds /\ entry[e] \in Entry
    BY <1>1, <1>3 DEF IInv, JobsFit, TypeOK
  <2>2. /\ pc'[r] = "restore" /\ job' = job /\ view' = view /\ owns' = owns /\ shares' = shares
        /\ todo'[r] = StockRows(entry[e]) /\ e \in locked'[r] /\ kind' = kind
        /\ live' = live /\ stock' = stock /\ entry' = entry /\ batch' = batch
        /\ pc' = [pc EXCEPT ![r] = "restore"]
    BY <1>1, <1>3 DEF IInv, TypeOK, Goto, committed
  <2>3. \A q \in Req \ {r} : UNCHANGED Mine(q)
    BY <1>1, <1>3 DEF Mine, Goto, IInv, TypeOK
  <2>4. LocksExclusive'
    BY <1>1, <1>3 DEF LockEntry, MayLock, LInv, LocksExclusive, IInv, TypeOK
  <2>5. SlotsApart'
    BY <1>1, <2>2 DEF LInv, SlotsApart, Writing, IInv, TypeOK
  <2>6. kind[r] = "updateEntry" /\ owns[r] = {} /\ owns[r] \cup shares[r] \subseteq live
    BY <1>1 DEF Session, Held, Locking
  <2>7. JobKnown(r)'
    <3>1. \A i \in DOMAIN StockRows(entry[e]) : StockRows(entry[e])[i].product \in OnRecord \cup {None}
      BY <1>3, <2>1, StockRowsKnown DEF LInv, RecordKnown
    <3>2. OnRecord \subseteq OnRecord'
      BY <1>1, <2>2 DEF OnRecord, IInv, TypeOK
    <3> QED
      BY <2>2, <2>6, <3>1, <3>2 DEF JobKnown
  <2>8. Fresh(r)' /\ Held(r)' /\ Locking(r)' /\ Staged(r)' /\ SlotFree(r)'
    BY <1>1, <1>3, <2>2, <2>6
    DEF Fresh, Held, Locking, Staged, SlotFree, Writing, Session, AtEntry
  <2>9. Moved(r)'
    <3>1. SUFFICES ASSUME NEW p \in live
                   PROVE  (Seen(r, p) = stock[p] + Taken(entry[job[r].id], p) - Owed(r, p))'
      BY <2>2 DEF Moved
    <3>2. Seen(r, p)' = stock[p] /\ stock[p] \in Int
      BY <1>1, <2>2, <2>6 DEF Seen, IInv, TypeOK
    <3>3. Taken(entry[job[r].id], p)' = Taken(entry[e], p)
      BY <2>2
    <3>4. Owed(r, p)' = Taken(entry[e], p) /\ Taken(entry[e], p) \in Nat
      BY <2>1, <2>2, TakenIsPending DEF Owed
    <3> QED
      BY <2>2, <3>2, <3>3, <3>4
  <2>10. Session(r)'
    BY <2>7, <2>8, <2>9 DEF Session
  <2>11. pc[r] # "done" /\ UNCHANGED <<committed, kind>>
    BY <1>1, <2>2 DEF committed
  <2> QED
    BY <1>1, <2>2, <2>3, <2>4, <2>5, <2>10, <2>11, QuietStep
<1> QED
  BY <1>2, <1>3 DEF LockEntry

\* What remains of a list of rows names no other products.
LEMMA RestKnown ==
  ASSUME NEW s \in Seq(Row), s # <<>>, NEW S, \A i \in DOMAIN s : s[i].product \in S
  PROVE  \A i \in DOMAIN Tail(s) : Tail(s)[i].product \in S
<1>1. /\ Tail(s) \in Seq(Row) /\ Len(Tail(s)) = Len(s) - 1
      /\ \A i \in 1 .. Len(Tail(s)) : Tail(s)[i] = s[i + 1]
  BY HeadTailProperties
<1>2. Len(s) \in Nat /\ DOMAIN s = 1 .. Len(s) /\ DOMAIN Tail(s) = 1 .. Len(s) - 1
  BY <1>1, RowsTyped
<1> QED
  BY <1>1, <1>2

LEMMA AdjustStockLedger ==
  ASSUME LInv, NEW r \in Req, AdjustStock(r)
  PROVE  LInv'
<1>0. PICK p : p = Head(todo[r]).product
  OBVIOUS
<1> DEFINE row == Head(todo[r])
           delta == IF pc[r] = "restore" THEN row.count ELSE -row.count
           resulting == Seen(r, p) + delta
           rest == [todo EXCEPT ![r] = Tail(@)]
<1>1. /\ IInv /\ IInv' /\ Session(r) /\ Running(r)
      /\ pc[r] \in {"restore", "sell"} /\ todo[r] \in Seq(Row) /\ todo[r] # <<>>
      /\ kind[r] \in EntryKinds \cup {"deleteEntry"}
  BY AdjustStockKeeps DEF LInv, AdjustStock, Running, IInv, TypeOK, JobsFit
<1>2. row.count \in Nat /\ Tail(todo[r]) \in Seq(Row)
  BY <1>1, HeadTailTyped
<1>3. CASE Reject(r)
  BY <1>1, <1>3, RejectLedger
\* Whatever the row is, it is dealt with, and what is left is what remained.
<1>4. ASSUME todo' = rest,
             UNCHANGED <<committed, kind, pc, job, old, shares, locked>>,
             \A q \in Req \ {r} : owns'[q] = owns[q] /\ view'[q] = view[q],
             owns'[r] \in {owns[r], owns[r] \cup {p}}, p \in owns'[r] => p \in owns[r] \/ p \in live,
             \A q \in live : q # p => Seen(r, q)' = Seen(r, q),
             p \in live => Seen(r, p)' = Seen(r, p) + delta
      PROVE  LInv'
  <2>1. /\ pc' = pc /\ job' = job /\ todo'[r] = Tail(todo[r]) /\ kind' = kind
        /\ shares' = shares /\ locked' = locked
        /\ live' = live /\ stock' = stock /\ entry' = entry /\ batch' = batch
    BY <1>1, <1>4 DEF IInv, TypeOK, committed
  <2>2. \A q \in Req \ {r} : UNCHANGED Mine(q)
    BY <1>1, <1>4 DEF Mine, IInv, TypeOK
  <2>3. LocksExclusive' /\ SlotsApart'
    BY <2>1 DEF LInv, LocksExclusive, SlotsApart, Writing
  <2>4. JobKnown(r)'
    <3>1. OnRecord' = OnRecord
      BY <2>1 DEF OnRecord
    <3>2. \A i \in DOMAIN Tail(todo[r]) : Tail(todo[r])[i].product \in OnRecord \cup {None}
      BY <1>1, RestKnown DEF Session, JobKnown
    <3> QED
      BY <1>1, <2>1, <3>1, <3>2 DEF Session, JobKnown
  <2>5. Fresh(r)' /\ Held(r)' /\ SlotFree(r)'
    BY <1>1, <2>1 DEF Session, Fresh, Held, SlotFree, AtEntry, Writing
  <2>6. Locking(r)' /\ Staged(r)'
    BY <1>1, <1>4, <2>1 DEF Session, Locking, Staged
  <2>7. Moved(r)'
    <3>1. SUFFICES ASSUME NEW q \in live
                   PROVE  (Seen(r, q) = stock[q] + Taken(entry[job[r].id], q) - Owed(r, q))'
      BY <2>1 DEF Moved
    <3>2. Seen(r, q) = stock[q] + Taken(entry[job[r].id], q) - Owed(r, q)
      BY <1>1 DEF Session, Moved, AtEntry
    <3>3. /\ stock[q] \in Int /\ Seen(r, q) \in Int
          /\ Taken(entry[job[r].id], q) \in Nat
          /\ pc[r] = "sell" => Taken(job[r].entry, q) \in Nat
          /\ Pending(todo[r], q) \in Nat /\ Pending(Tail(todo[r]), q) \in Nat
      <4>1. pc[r] = "sell" => job[r].entry \in Entry
        BY <1>1 DEF IInv, JobsFit, EntryKinds
      <4>2. stock[q] \in Int /\ Seen(r, q) \in Int
        BY <1>1, SeenNonNegative DEF IInv, TypeOK
      <4>3. entry[job[r].id] \in Entry \cup {None}
        BY <1>1 DEF IInv, TypeOK, JobsFit
      <4> QED
        BY <1>1, <1>2, <4>1, <4>2, <4>3, TakenNat, PendingNat
    <3>4. Owed(r, q)' = IF pc[r] = "restore" THEN Pending(Tail(todo[r]), q)
                        ELSE Taken(job[r].entry, q) - Pending(Tail(todo[r]), q)
      BY <1>1, <2>1 DEF Owed
    <3>5. Owed(r, q) = IF pc[r] = "restore" THEN Pending(todo[r], q)
                       ELSE Taken(job[r].entry, q) - Pending(todo[r], q)
      BY <1>1 DEF Owed
    <3>6. /\ (stock[q])' = stock[q]
          /\ (Taken(entry[job[r].id], q))' = Taken(entry[job[r].id], q)
      BY <2>1
    <3>7. CASE q # p
      <4>1. Pending(todo[r], q) = Pending(Tail(todo[r]), q)
        BY <1>0, <1>1, <3>7, PendingHead
      <4>2. Seen(r, q)' = Seen(r, q)
        BY <1>4, <3>7
      <4> QED
        BY <3>2, <3>3, <3>4, <3>5, <3>6, <4>1, <4>2
    <3>8. CASE q = p
      <4>1. Pending(todo[r], q) = row.count + Pending(Tail(todo[r]), q)
        BY <1>0, <1>1, <3>8, PendingHead
      <4>2. Seen(r, q)' = Seen(r, q) + delta
        BY <1>4, <3>8
      <4>3. row.count \in Nat
        BY <1>2
      <4> HIDE DEF row
      <4>4. CASE pc[r] = "restore"
        <5>1. Seen(r, q)' = Seen(r, q) + row.count
          BY <4>2, <4>4
        <5>2. Owed(r, q) = row.count + Pending(Tail(todo[r]), q)
          BY <3>5, <4>1, <4>4
        <5>3. Owed(r, q)' = Pending(Tail(todo[r]), q)
          BY <3>4, <4>4
        <5> QED
          BY <3>2, <3>3, <3>6, <4>3, <5>1, <5>2, <5>3
      <4>5. CASE pc[r] = "sell"
        <5>1. Seen(r, q)' = Seen(r, q) - row.count
          BY <3>3, <4>2, <4>3, <4>5
        <5>2. Owed(r, q) = Taken(job[r].entry, q) - (row.count + Pending(Tail(todo[r]), q))
          BY <3>5, <4>1, <4>5
        <5>3. Owed(r, q)' = Taken(job[r].entry, q) - Pending(Tail(todo[r]), q)
          BY <3>4, <4>5
        <5> QED
          BY <3>2, <3>3, <3>6, <4>3, <4>5, <5>1, <5>2, <5>3
      <4> QED
        BY <1>1, <4>4, <4>5
    <3> QED
      BY <3>7, <3>8
  <2>8. Session(r)'
    BY <2>4, <2>5, <2>6, <2>7 DEF Session
  <2>9. /\ pc[r] # "done" /\ pc' = [pc EXCEPT ![r] = pc[r]] /\ UNCHANGED <<committed, kind>>
    BY <1>1, <2>1 DEF Running, committed, IInv, TypeOK
  <2> QED
    BY <1>1, <2>2, <2>3, <2>8, <2>9, QuietStep
<1>5. CASE /\ p \notin live \/ row.count = 0
           /\ todo' = rest
           /\ UNCHANGED <<committed, kind, pc, job, old, view, base, locks>>
  <2>1. \A q \in live : Seen(r, q)' = Seen(r, q) /\ Seen(r, q) \in Int
    BY <1>1, <1>5, SeenNonNegative DEF Seen, locks, committed
  <2>2. p \in live => delta = 0
    BY <1>5
  <2>3. p \in live => Seen(r, p)' = Seen(r, p) + delta
    BY <2>1, <2>2
  <2>4. owns' = owns /\ view' = view /\ UNCHANGED <<committed, kind, pc, job, old, shares, locked>>
    BY <1>5 DEF locks
  <2> QED
    BY <1>4, <1>5, <2>1, <2>3, <2>4
<1>6. CASE /\ p \in live
           /\ Own(r, p, resulting)
           /\ todo' = rest
           /\ UNCHANGED <<committed, kind, pc, job, old, shares, locked>>
  <2>1. p \in Products
    BY <1>1, <1>6 DEF IInv, TypeOK
  <2>2. /\ owns'[r] = owns[r] \cup {p} /\ view'[r] = [view[r] EXCEPT ![p] = resulting]
        /\ \A q \in Req \ {r} : owns'[q] = owns[q] /\ view'[q] = view[q]
    BY <1>1, <1>6 DEF Own, IInv, TypeOK
  <2>3. view'[r][p] = resulting /\ \A q \in Products : q # p => view'[r][q] = view[r][q]
    BY <1>1, <2>1, <2>2 DEF IInv, TypeOK
  <2>4. Seen(r, p)' = resulting
    BY <2>2, <2>3 DEF Seen
  <2>5. \A q \in live : q # p => Seen(r, q)' = Seen(r, q)
    BY <1>1, <1>6, <2>2, <2>3 DEF Seen, IInv, TypeOK, committed
  <2> QED
    BY <1>4, <1>6, <2>2, <2>4, <2>5
<1> QED
  BY <1>0, <1>3, <1>5, <1>6 DEF AdjustStock

LEMMA WriteEntryLedger ==
  ASSUME LInv, NEW r \in Req, WriteEntry(r)
  PROVE  LInv'
<1>1. /\ IInv /\ IInv' /\ Session(r) /\ Running(r) /\ pc[r] = "restore" /\ todo[r] = <<>>
      /\ kind[r] \in EntryKinds /\ job[r].entry \in Entry /\ job[r].id \in EntryIds
  BY WriteEntryKeeps DEF LInv, WriteEntry, Running, IInv, JobsFit
<1>2. CASE Reject(r)
  BY <1>1, <1>2, RejectLedger
<1>3. CASE /\ \A f \in EntryIds \ {job[r].id} : entry[f] # None => entry[f].slot # job[r].entry.slot
           /\ Goto(r, "rows")
           /\ UNCHANGED <<committed, job, old, todo, view, base, locks>>
  <2>1. /\ job' = job /\ todo' = todo /\ view' = view /\ kind' = kind
        /\ owns' = owns /\ shares' = shares /\ locked' = locked
        /\ live' = live /\ stock' = stock /\ entry' = entry /\ batch' = batch
        /\ pc' = [pc EXCEPT ![r] = "rows"] /\ pc'[r] = "rows"
    BY <1>1, <1>3 DEF IInv, TypeOK, Goto, committed, locks
  <2>2. \A q \in Req \ {r} : UNCHANGED Mine(q)
    BY <1>1, <2>1 DEF Mine, IInv, TypeOK
  <2>3. LocksExclusive'
    BY <2>1 DEF LInv, LocksExclusive
  <2>4. ASSUME NEW q \in Req, q # r, Writing(q)
        PROVE  job[q].entry.slot # job[r].entry.slot
    <3>1. job[r].entry.slot \notin Touched(q)
      BY <2>4 DEF WriteEntry
    <3> QED
      BY <2>4, <3>1 DEF Touched, Writing
  <2>5. SlotsApart'
    <3>1. \A q \in Req : q # r /\ Writing(q)' => Writing(q)
      BY <1>1, <2>1 DEF Writing, IInv, TypeOK
    <3> QED
      BY <2>1, <2>4, <3>1 DEF LInv, SlotsApart
  <2>6. OnRecord' = OnRecord
    BY <1>1, <2>1 DEF OnRecord, IInv, TypeOK
  <2>7. JobKnown(r)' /\ Fresh(r)' /\ Held(r)' /\ Locking(r)' /\ Staged(r)' /\ SlotFree(r)'
    BY <1>1, <1>3, <2>1, <2>6
    DEF Session, JobKnown, Fresh, Held, Locking, Staged, SlotFree, AtEntry, Writing, EntryKinds
  <2>8. Moved(r)'
    <3>1. SUFFICES ASSUME NEW p \in live
                   PROVE  (Seen(r, p) = stock[p] + Taken(entry[job[r].id], p) - Owed(r, p))'
      BY <2>1 DEF Moved
    <3>2. Seen(r, p) = stock[p] + Taken(entry[job[r].id], p) - Owed(r, p)
      BY <1>1 DEF Session, Moved, AtEntry
    <3>3. Owed(r, p) = 0 /\ Owed(r, p)' = 0
      BY <1>1, <2>1, PendingEmpty DEF Owed
    <3>4. /\ Seen(r, p)' = Seen(r, p)
          /\ (stock[p])' = stock[p]
          /\ (Taken(entry[job[r].id], p))' = Taken(entry[job[r].id], p)
      BY <2>1 DEF Seen
    <3>5. stock[p] \in Int /\ Taken(entry[job[r].id], p) \in Nat
      BY <1>1, TakenNat DEF IInv, TypeOK
    <3> QED
      BY <3>2, <3>3, <3>4, <3>5
  <2>9. Session(r)'
    BY <2>7, <2>8 DEF Session
  <2>10. pc[r] # "done" /\ UNCHANGED <<committed, kind>>
    BY <1>1, <2>1 DEF committed
  <2> QED
    BY <1>1, <2>1, <2>2, <2>3, <2>5, <2>9, <2>10, QuietStep
<1> QED
  BY <1>2, <1>3 DEF WriteEntry

LEMMA WriteRowsLedger ==
  ASSUME LInv, NEW r \in Req, WriteRows(r)
  PROVE  LInv'
<1> DEFINE new == job[r].entry
           ps == ProductsOf(new)
<1>1. /\ IInv /\ IInv' /\ Session(r) /\ Running(r) /\ pc[r] = "rows"
      /\ kind[r] \in EntryKinds /\ new \in Entry
  BY WriteRowsKeeps DEF LInv, WriteRows, Running, IInv, JobsFit
<1>2. CASE Reject(r)
  BY <1>1, <1>2, RejectLedger
<1>3. CASE /\ ps \subseteq live
           /\ shares' = [shares EXCEPT ![r] = @ \cup ps]
           /\ todo' = [todo EXCEPT ![r] = StockRows(new)]
           /\ Goto(r, "sell")
           /\ UNCHANGED <<committed, job, old, view, base, owns, locked>>
  <2>1. /\ job' = job /\ todo'[r] = StockRows(new) /\ view' = view /\ kind' = kind
        /\ owns' = owns /\ shares'[r] = shares[r] \cup ps /\ locked' = locked
        /\ live' = live /\ stock' = stock /\ entry' = entry /\ batch' = batch
        /\ pc' = [pc EXCEPT ![r] = "sell"] /\ pc'[r] = "sell"
    BY <1>1, <1>3 DEF IInv, TypeOK, Goto, committed
  <2>2. \A q \in Req \ {r} : UNCHANGED Mine(q)
    BY <1>1, <1>3 DEF Mine, IInv, TypeOK, Goto
  <2>3. LocksExclusive'
    BY <2>1 DEF LInv, LocksExclusive
  <2>4. SlotsApart'
    <3>1. \A q \in Req : Writing(q)' => Writing(q)
      BY <1>1, <2>1 DEF Writing, IInv, TypeOK
    <3> QED
      BY <2>1, <3>1 DEF LInv, SlotsApart
  <2>5. JobKnown(r)'
    <3>1. ps \subseteq OnRecord
      BY <1>3 DEF LInv, RecordKnown
    <3>2. \A i \in DOMAIN StockRows(new) : StockRows(new)[i].product \in OnRecord \cup {None}
      BY <1>1, <3>1, StockRowsKnown
    <3>3. OnRecord' = OnRecord
      BY <1>1, <2>1 DEF OnRecord, IInv, TypeOK
    <3> QED
      BY <1>1, <2>1, <3>2, <3>3 DEF JobKnown, EntryKinds
  <2>6. Fresh(r)' /\ Held(r)' /\ Locking(r)' /\ Staged(r)' /\ SlotFree(r)'
    BY <1>1, <1>3, <2>1
    DEF Session, Fresh, Held, Locking, Staged, SlotFree, AtEntry, Writing, EntryKinds
  <2>7. Moved(r)'
    <3>1. SUFFICES ASSUME NEW p \in live
                   PROVE  (Seen(r, p) = stock[p] + Taken(entry[job[r].id], p) - Owed(r, p))'
      BY <2>1 DEF Moved
    <3>2. Seen(r, p) = stock[p] + Taken(entry[job[r].id], p) - Owed(r, p)
      BY <1>1 DEF Session, Moved, AtEntry
    <3>3. Owed(r, p) = 0
      BY <1>1 DEF Owed
    <3>4. Owed(r, p)' = Taken(new, p) - Taken(new, p) /\ Taken(new, p) \in Nat
      BY <1>1, <2>1, TakenIsPending DEF Owed
    <3>5. /\ Seen(r, p)' = Seen(r, p)
          /\ (stock[p])' = stock[p]
          /\ (Taken(entry[job[r].id], p))' = Taken(entry[job[r].id], p)
      BY <2>1 DEF Seen
    <3>6. Owed(r, p)' = 0
      BY <3>4
    <3>7. stock[p] \in Int /\ Taken(entry[job[r].id], p) \in Nat
      BY <1>1, TakenNat DEF IInv, TypeOK, JobsFit
    <3> QED
      BY <3>2, <3>3, <3>5, <3>6, <3>7
  <2>8. Session(r)'
    BY <2>5, <2>6, <2>7 DEF Session
  <2>9. pc[r] # "done" /\ UNCHANGED <<committed, kind>>
    BY <1>1, <2>1 DEF committed
  <2> QED
    BY <1>1, <2>1, <2>2, <2>3, <2>4, <2>8, <2>9, QuietStep
<1> QED
  BY <1>2, <1>3 DEF WriteRows

LEMMA RemoveEntryLedger ==
  ASSUME LInv, NEW r \in Req, RemoveEntry(r)
  PROVE  LInv'
<1>1. /\ IInv /\ IInv' /\ Session(r) /\ Running(r) /\ pc[r] = "restore" /\ todo[r] = <<>>
      /\ kind[r] = "deleteEntry"
  BY RemoveEntryKeeps DEF LInv, RemoveEntry, Running
<1>2. /\ MayLock(r, job[r].id)
      /\ locked' = [locked EXCEPT ![r] = @ \cup {job[r].id}]
      /\ Goto(r, "commit")
      /\ UNCHANGED <<committed, job, old, todo, view, base, owns, shares>>
  BY DEF RemoveEntry
<1>3. /\ job' = job /\ todo' = todo /\ view' = view /\ kind' = kind
      /\ owns' = owns /\ shares' = shares
      /\ live' = live /\ stock' = stock /\ entry' = entry /\ batch' = batch
      /\ pc' = [pc EXCEPT ![r] = "commit"] /\ pc'[r] = "commit"
  BY <1>1, <1>2 DEF IInv, TypeOK, Goto, committed
<1>4. \A q \in Req \ {r} : UNCHANGED Mine(q)
  BY <1>1, <1>2 DEF Mine, IInv, TypeOK, Goto
<1>5. LocksExclusive'
  BY <1>1, <1>2 DEF MayLock, LInv, LocksExclusive, IInv, TypeOK
<1>6. SlotsApart'
  <2>1. \A q \in Req : Writing(q)' => Writing(q)
    BY <1>1, <1>3 DEF Writing, IInv, TypeOK
  <2> QED
    BY <1>3, <2>1 DEF LInv, SlotsApart
<1>7. OnRecord' = OnRecord
  BY <1>1, <1>3 DEF OnRecord, IInv, TypeOK
<1>8. JobKnown(r)' /\ Fresh(r)' /\ Held(r)' /\ Locking(r)' /\ Staged(r)' /\ SlotFree(r)'
  BY <1>1, <1>3, <1>7
  DEF Session, JobKnown, Fresh, Held, Locking, Staged, SlotFree, AtEntry, Writing, PurchaseKinds
<1>9. Moved(r)'
  <2>1. SUFFICES ASSUME NEW p \in live
                 PROVE  (Seen(r, p) = stock[p] + Taken(entry[job[r].id], p) - Owed(r, p))'
    BY <1>3 DEF Moved
  <2>2. Seen(r, p) = stock[p] + Taken(entry[job[r].id], p) - Owed(r, p)
    BY <1>1 DEF Session, Moved, AtEntry
  <2>3. Owed(r, p) = 0 /\ Owed(r, p)' = 0
    BY <1>1, <1>3, PendingEmpty DEF Owed
  <2>4. /\ Seen(r, p)' = Seen(r, p)
        /\ (stock[p])' = stock[p]
        /\ (Taken(entry[job[r].id], p))' = Taken(entry[job[r].id], p)
    BY <1>3 DEF Seen
  <2>5. stock[p] \in Int /\ Taken(entry[job[r].id], p) \in Nat
    BY <1>1, TakenNat DEF IInv, TypeOK, JobsFit
  <2> QED
    BY <2>2, <2>3, <2>4, <2>5
<1>10. Session(r)'
  BY <1>8, <1>9 DEF Session
<1>11. pc[r] # "done" /\ UNCHANGED <<committed, kind>>
  BY <1>1, <1>3 DEF committed
<1> QED
  BY <1>1, <1>3, <1>4, <1>5, <1>6, <1>10, <1>11, QuietStep

LEMMA DropProductLedger ==
  ASSUME LInv, NEW r \in Req, DropProduct(r)
  PROVE  LInv'
<1>1. /\ IInv /\ IInv' /\ Session(r) /\ Running(r) /\ pc[r] = "drop" /\ kind[r] = "deleteProduct"
  BY DropProductKeeps DEF LInv, DropProduct, Running, IInv, JobsFit
<1>2. /\ job' = job /\ todo' = todo /\ kind' = kind /\ shares' = shares /\ locked' = locked
      /\ live' = live /\ stock' = stock /\ entry' = entry /\ batch' = batch
      /\ pc' = [pc EXCEPT ![r] = "commit"] /\ pc'[r] = "commit"
  BY <1>1 DEF DropProduct, IInv, TypeOK, Goto, committed, locks
<1>3. \A q \in Req \ {r} : owns'[q] = owns[q] /\ view'[q] = view[q]
  BY <1>1 DEF DropProduct, Own, IInv, TypeOK, locks
<1>4. /\ job[r].id \in live => owns'[r] = owns[r] \cup {job[r].id}
      /\ job[r].id \notin live => owns'[r] = owns[r]
  BY <1>1 DEF DropProduct, Own, IInv, TypeOK, locks
<1>5. \A q \in Req \ {r} : UNCHANGED Mine(q)
  BY <1>1, <1>2, <1>3 DEF Mine, IInv, TypeOK
<1>6. LocksExclusive'
  BY <1>2 DEF LInv, LocksExclusive
<1>7. SlotsApart'
  <2>1. \A q \in Req : Writing(q)' => Writing(q)
    BY <1>1, <1>2 DEF Writing, IInv, TypeOK
  <2> QED
    BY <1>2, <2>1 DEF LInv, SlotsApart
<1>8. OnRecord' = OnRecord
  BY <1>1, <1>2 DEF OnRecord, IInv, TypeOK
<1>9. JobKnown(r)' /\ Fresh(r)' /\ Held(r)' /\ Staged(r)' /\ Moved(r)' /\ SlotFree(r)'
  BY <1>1, <1>2, <1>8
  DEF Session, JobKnown, Fresh, Held, Staged, Moved, SlotFree, AtEntry, Writing,
      PurchaseKinds, EntryKinds
<1>10. Locking(r)'
  BY <1>1, <1>2, <1>4 DEF Session, Locking
<1>11. Session(r)'
  BY <1>9, <1>10 DEF Session
<1>12. pc[r] # "done" /\ UNCHANGED <<committed, kind>>
  BY <1>1, <1>2 DEF committed
<1> QED
  BY <1>1, <1>2, <1>5, <1>6, <1>7, <1>11, <1>12, QuietStep

-----------------------------------------------------------------------------
(***************************************************************************)
(* The guards of purchase edits                                            *)
(***************************************************************************)
\* What is bought at a cost when one purchase row is written.
LEMMA BoughtAtEdit ==
  ASSUME NEW s \in BatchTables, NEW t \in BatchTables, NEW b \in BatchIds, NEW p, NEW c,
         \A d \in BatchIds \ {b} : t[d] = s[d]
  PROVE  /\ BoughtAt(t, p, c) = BoughtAt(s, p, c) - BitsAt(s, p, c)[b] + BitsAt(t, p, c)[b]
         /\ BitsAt(s, p, c)[b] \in Nat /\ BitsAt(t, p, c)[b] \in Nat
         /\ BoughtAt(s, p, c) \in Nat /\ BoughtAt(t, p, c) \in Nat
         /\ BitsAt(s, p, c)[b] <= BoughtAt(s, p, c)
<1>1. \A d \in BatchIds \ {b} : BitsAt(s, p, c)[d] = BitsAt(t, p, c)[d]
  BY DEF BitsAt
<1>2. BitsAt(s, p, c) \in [BatchIds -> Nat] /\ BitsAt(t, p, c) \in [BatchIds -> Nat]
  BY BoughtAtIsSum
<1>3. /\ BoughtAt(s, p, c) = SumOver(BitsAt(s, p, c), BatchIds)
      /\ BoughtAt(t, p, c) = SumOver(BitsAt(t, p, c), BatchIds)
      /\ BoughtAt(s, p, c) \in Nat /\ BoughtAt(t, p, c) \in Nat
  BY BoughtAtIsSum
<1>4. BoughtAt(t, p, c) = BoughtAt(s, p, c) - BitsAt(s, p, c)[b] + BitsAt(t, p, c)[b]
  BY <1>1, <1>2, <1>3, TablesFinite, SumChange
<1>5. SumOver(BitsAt(s, p, c), BatchIds)
        = BitsAt(s, p, c)[b] + SumOver(BitsAt(s, p, c), BatchIds \ {b})
  BY <1>2, TablesFinite, SumPoint
<1>6. SumOver(BitsAt(s, p, c), BatchIds \ {b}) \in Nat
  <2>1. IsFiniteSet(BatchIds \ {b}) /\ \A d \in BatchIds \ {b} : BitsAt(s, p, c)[d] \in Nat
    BY <1>2, TablesFinite, FS_RemoveElement
  <2> QED
    BY <2>1, SumNat
<1>7. BitsAt(s, p, c)[b] \in Nat /\ BitsAt(t, p, c)[b] \in Nat
  BY <1>2
<1>8. BitsAt(s, p, c)[b] <= BoughtAt(s, p, c)
  BY <1>3, <1>5, <1>6, <1>7
<1> QED
  BY <1>3, <1>4, <1>7, <1>8

LEMMA EditTyped ==
  ASSUME TypeOK, NEW b \in BatchIds, NEW new \in Batch \cup {None}
  PROVE  /\ batch \in BatchTables /\ [batch EXCEPT ![b] = new] \in BatchTables
         /\ [batch EXCEPT ![b] = new][b] = new
         /\ \A d \in BatchIds \ {b} : [batch EXCEPT ![b] = new][d] = batch[d]
         /\ entry \in EntryTables
BY DEF TypeOK, BatchTables, EntryTables

\* A new purchase shrinks nothing.
LEMMA CoveredByNew ==
  ASSUME TypeOK, NEW b \in BatchIds, batch[b] = None, NEW w \in Batch, NEW p
  PROVE  Covered([batch EXCEPT ![b] = w], p)
<1> DEFINE t == [batch EXCEPT ![b] = w]
<1>1. SUFFICES ASSUME NEW c \in Costs, BoughtAt(t, p, c) < BoughtAt(batch, p, c)
               PROVE  FALSE
  BY DEF Covered
<1>2. /\ batch \in BatchTables /\ t \in BatchTables
      /\ \A d \in BatchIds \ {b} : t[d] = batch[d]
  BY EditTyped
<1>3. BitsAt(batch, p, c)[b] = 0
  BY DEF BitsAt
<1> HIDE DEF t
<1>4. /\ BoughtAt(t, p, c) = BoughtAt(batch, p, c) - 0 + BitsAt(t, p, c)[b]
      /\ BoughtAt(batch, p, c) \in Nat /\ BitsAt(t, p, c)[b] \in Nat
  BY <1>2, <1>3, BoughtAtEdit
<1> QED
  BY <1>1, <1>4

\* A correction that update_purchase or an upsert lets through.
LEMMA CoveredByChange ==
  ASSUME TypeOK, NEW b \in BatchIds, batch[b] # None, NEW p, batch[b].product = p,
         NEW w \in Batch, w.product = p, MayChange(p, batch[b], w)
  PROVE  Covered([batch EXCEPT ![b] = w], p)
<1> DEFINE t == [batch EXCEPT ![b] = w]
<1>1. SUFFICES ASSUME NEW c \in Costs, BoughtAt(t, p, c) < BoughtAt(batch, p, c)
               PROVE  SoldAt(entry, p, c) <= BoughtAt(t, p, c)
  BY DEF Covered
<1>2. /\ batch \in BatchTables /\ t \in BatchTables /\ t[b] = w
      /\ \A d \in BatchIds \ {b} : t[d] = batch[d]
      /\ entry \in EntryTables
  BY EditTyped
<1>3. w # None /\ w.qty \in Nat /\ batch[b].qty \in Nat
  BY <1>2, NoneIsNoRow DEF Batch, BatchTables
<1>4. /\ BitsAt(batch, p, c)[b] = IF batch[b].cost = c THEN batch[b].qty ELSE 0
      /\ BitsAt(t, p, c)[b] = IF w.cost = c THEN w.qty ELSE 0
  <2> HIDE DEF t
  <2> QED
    BY <1>2, <1>3 DEF BitsAt
<1> HIDE DEF t
<1>5. /\ BoughtAt(t, p, c) = BoughtAt(batch, p, c) - BitsAt(batch, p, c)[b] + BitsAt(t, p, c)[b]
      /\ BoughtAt(batch, p, c) \in Nat /\ BoughtAt(t, p, c) \in Nat
      /\ BitsAt(batch, p, c)[b] <= BoughtAt(batch, p, c)
  BY <1>2, BoughtAtEdit
<1>6. SoldAt(entry, p, c) \in Nat
  BY <1>2, SoldIsSum
<1>7. batch[b].cost = c
  BY <1>1, <1>3, <1>4, <1>5
<1>8. CASE w.cost # c
  <2>1. SoldAt(entry, p, c) = 0
    BY <1>7, <1>8, NothingSold DEF MayChange
  <2> QED
    BY <1>5, <2>1
<1>9. CASE w.cost = c
  <2>1. BoughtAt(t, p, c) = BoughtAt(batch, p, c) - batch[b].qty + w.qty
    BY <1>4, <1>5, <1>7, <1>9
  <2>2. w.qty < batch[b].qty /\ batch[b].qty <= BoughtAt(batch, p, c)
    BY <1>1, <1>3, <1>4, <1>5, <1>7, <2>1
  <2>3. w.qty >= SoldAt(entry, p, c)
    BY <1>7, <2>2 DEF MayChange
  <2> QED
    BY <1>3, <1>5, <1>6, <2>1, <2>2, <2>3
<1> QED
  BY <1>8, <1>9

\* A deletion that delete_purchase lets through.
LEMMA CoveredByDelete ==
  ASSUME TypeOK, NEW b \in BatchIds, batch[b] # None, NEW p, batch[b].product = p,
         MayDelete(p, b)
  PROVE  Covered([batch EXCEPT ![b] = None], p)
<1> DEFINE t == [batch EXCEPT ![b] = None]
<1>1. SUFFICES ASSUME NEW c \in Costs, BoughtAt(t, p, c) < BoughtAt(batch, p, c)
               PROVE  SoldAt(entry, p, c) <= BoughtAt(t, p, c)
  BY DEF Covered
<1>2. /\ batch \in BatchTables /\ t \in BatchTables /\ t[b] = None
      /\ \A d \in BatchIds \ {b} : t[d] = batch[d]
      /\ entry \in EntryTables
  BY EditTyped
<1>3. batch[b].qty \in Nat
  BY <1>2 DEF Batch, BatchTables
<1> HIDE DEF t
<1>4. /\ BitsAt(batch, p, c)[b] = IF batch[b].cost = c THEN batch[b].qty ELSE 0
      /\ BitsAt(t, p, c)[b] = 0
  BY <1>2, <1>3 DEF BitsAt
<1>5. /\ BoughtAt(t, p, c) = BoughtAt(batch, p, c) - BitsAt(batch, p, c)[b] + BitsAt(t, p, c)[b]
      /\ BoughtAt(batch, p, c) \in Nat /\ BoughtAt(t, p, c) \in Nat
  BY <1>2, BoughtAtEdit
<1>6. SoldAt(entry, p, c) \in Nat
  BY <1>2, SoldIsSum
<1>7. batch[b].cost = c
  BY <1>1, <1>3, <1>4, <1>5
<1>8. BoughtAt(t, p, c) = BoughtAt(batch, p, c) - batch[b].qty
  BY <1>3, <1>4, <1>5, <1>7
<1>9. SoldAt(entry, p, c) > 0 => BoughtAt(batch, p, c) - batch[b].qty >= SoldAt(entry, p, c)
  BY <1>7 DEF MayDelete
<1> QED
  BY <1>5, <1>6, <1>8, <1>9

LEMMA EditPurchaseLedger ==
  ASSUME LInv, NEW r \in Req, EditPurchase(r)
  PROVE  LInv'
<1>0. PICK p : p = job[r].batch.product
  OBVIOUS
<1> DEFINE w == job[r].batch
           Stage(b, new, value) ==
             /\ Own(r, p, value)
             /\ job' = [job EXCEPT ![r].id = b, ![r].batch = new]
             /\ Goto(r, "commit")
             /\ UNCHANGED <<committed, old, todo, shares, locked>>
<1>1. /\ IInv /\ IInv' /\ Session(r) /\ Running(r) /\ pc[r] = "edit"
      /\ job[r] \in Job /\ kind[r] \in PurchaseKinds /\ w \in Batch
  BY EditPurchaseKeeps DEF LInv, EditPurchase, IInv, JobsFit, Running
<1>2. CASE Reject(r)
  BY <1>1, <1>2, RejectLedger
<1>3. ASSUME NEW b \in BatchIds, NEW new \in Batch \cup {None}, NEW value,
             p \in live, Stage(b, new, value),
             batch[b] = None => b = r,
             batch[b] # None => batch[b].product = p,
             new # None => new.product = p,
             value = stock[p] + Qty(new) - Qty(batch[b]),
             Covered([batch EXCEPT ![b] = new], p)
      PROVE  LInv'
  <2>1. job'[r] = [job[r] EXCEPT !.id = b, !.batch = new]
    BY <1>1, <1>3 DEF IInv, TypeOK
  <2>2. /\ job'[r].id = b /\ job'[r].batch = new
        /\ \A q \in Req \ {r} : job'[q] = job[q] /\ owns'[q] = owns[q] /\ view'[q] = view[q]
    BY <1>1, <1>3, <2>1 DEF Own, IInv, TypeOK, Job
  <2>3. /\ todo' = todo /\ kind' = kind /\ shares' = shares /\ locked' = locked
        /\ live' = live /\ stock' = stock /\ entry' = entry /\ batch' = batch
        /\ pc' = [pc EXCEPT ![r] = "commit"] /\ pc'[r] = "commit"
    BY <1>1, <1>3 DEF IInv, TypeOK, Goto, committed
  <2>4. \A q \in Req \ {r} : UNCHANGED Mine(q)
    BY <1>1, <2>2, <2>3 DEF Mine, IInv, TypeOK
  <2>5. LocksExclusive'
    BY <2>3 DEF LInv, LocksExclusive
  <2>6. SlotsApart'
    <3>1. \A q \in Req : Writing(q)' => q # r /\ Writing(q)
      BY <1>1, <2>3 DEF Writing, IInv, TypeOK
    <3> QED
      BY <2>2, <2>3, <3>1 DEF LInv, SlotsApart
  <2>7. OnRecord' = OnRecord
    BY <1>1, <2>3 DEF OnRecord, IInv, TypeOK
  <2>8. owns'[r] = {p} /\ view'[r][p] = value
    <3>1. owns[r] = {} /\ p \in Products
      BY <1>1, <1>3 DEF Session, Locking, IInv, TypeOK
    <3> QED
      BY <1>1, <1>3, <3>1 DEF Own, IInv, TypeOK
  <2>9. JobKnown(r)' /\ Fresh(r)' /\ Held(r)' /\ Locking(r)' /\ Moved(r)' /\ SlotFree(r)'
    BY <1>1, <1>3, <2>3, <2>7, <2>8
    DEF Session, JobKnown, Fresh, Held, Locking, Moved, SlotFree, AtEntry, Writing,
        PurchaseKinds, EntryKinds
  <2>10. Staged(r)'
    <3>1. StagedFor(r, p, b, new)'
      BY <1>3, <2>3, <2>8 DEF StagedFor, Covered
    <3>2. p \in live'
      BY <1>3, <2>3
    <3> QED
      BY <2>2, <3>1, <3>2 DEF Staged
  <2>11. Session(r)'
    BY <2>9, <2>10 DEF Session
  <2>12. pc[r] # "done" /\ UNCHANGED <<committed, kind>>
    BY <1>1, <2>3 DEF committed
  <2> QED
    BY <1>1, <2>3, <2>4, <2>5, <2>6, <2>11, <2>12, QuietStep
<1>4. w.product = p /\ w # None /\ Qty(w) = w.qty /\ w.qty \in Nat /\ Qty(None) = 0
  BY <1>0, <1>1, NoneIsNoRow DEF Qty, Batch
<1>5. p \in live => stock[p] \in Int
  BY <1>1 DEF IInv, TypeOK
<1>6. \A b \in Matches(r) : /\ b \in BatchIds /\ batch[b] # None /\ batch[b].product = p
                            /\ Qty(batch[b]) = batch[b].qty /\ batch[b].qty \in Nat
  <2>1. Matches(r) \subseteq BatchesOf(batch, p)
    BY <1>0 DEF Matches
  <2> QED
    BY <1>1, <2>1 DEF BatchesOf, Batch, IInv, TypeOK, Qty
<1>7. CASE kind[r] = "addPurchase" /\ p \in live /\ Stage(r, w, stock[p] + w.qty)
  <2>1. r \in BatchIds /\ batch[r] = None
    BY <1>1 DEF BatchIds, Session, Fresh
  <2>2. Covered([batch EXCEPT ![r] = w], p)
    BY <1>1, <2>1, CoveredByNew DEF IInv
  <2>3. stock[p] + w.qty = stock[p] + Qty(w) - Qty(batch[r])
    BY <1>4, <1>5, <1>7, <2>1
  <2> HIDE DEF w
  <2> QED
    BY <1>1, <1>3, <1>4, <1>7, <2>1, <2>2, <2>3
<1>8. ASSUME NEW b \in Matches(r), MayChange(p, batch[b], w), p \in live,
             Stage(b, w, stock[p] + w.qty - batch[b].qty)
      PROVE  LInv'
  <2>1. b \in BatchIds /\ batch[b] # None /\ batch[b].product = p
    BY <1>6
  <2>2. Covered([batch EXCEPT ![b] = w], p)
    BY <1>1, <1>4, <1>8, <2>1, CoveredByChange DEF IInv
  <2>3. stock[p] + w.qty - batch[b].qty = stock[p] + Qty(w) - Qty(batch[b])
    BY <1>4, <1>6
  <2> HIDE DEF w
  <2> QED
    BY <1>1, <1>3, <1>4, <1>8, <2>1, <2>2, <2>3
<1>9. ASSUME NEW b \in Matches(r), MayDelete(p, b), p \in live,
             Stage(b, None, stock[p] - batch[b].qty)
      PROVE  LInv'
  <2>1. b \in BatchIds /\ batch[b] # None /\ batch[b].product = p
    BY <1>6
  <2>2. Covered([batch EXCEPT ![b] = None], p)
    BY <1>1, <1>9, <2>1, CoveredByDelete DEF IInv
  <2>3. stock[p] - batch[b].qty = stock[p] + Qty(None) - Qty(batch[b])
    BY <1>4, <1>5, <1>6, <1>9
  <2> QED
    BY <1>3, <1>9, <2>1, <2>2, <2>3
<1> QED
  BY <1>0, <1>2, <1>7, <1>8, <1>9 DEF EditPurchase

-----------------------------------------------------------------------------
(***************************************************************************)
(* The commits                                                             *)
(***************************************************************************)
\* What the end of r's transaction means for r, and for the requests as such.
LEMMA CommitEnds ==
  ASSUME LInv, NEW r \in Req, Running(r), End(r, "done")
  PROVE  /\ kind' = kind /\ \A q \in Req \ {r} : UNCHANGED Mine(q)
         /\ OnRecord \subseteq OnRecord'
         /\ pc'[r] = "done"
         /\ Session(r)' /\ LocksExclusive' /\ SlotsApart'
<1> USE DEF End, Release
<1>1. IInv
  BY DEF LInv
<1>2. /\ kind' = kind /\ pc' = [pc EXCEPT ![r] = "done"] /\ pc'[r] = "done"
      /\ todo'[r] = <<>> /\ owns'[r] = {} /\ shares'[r] = {}
      /\ locked' = [locked EXCEPT ![r] = {}]
  BY <1>1 DEF IInv, TypeOK
<1>3. \A q \in Req \ {r} : UNCHANGED Mine(q)
  BY <1>1 DEF Mine, IInv, TypeOK
<1>4. OnRecord \subseteq OnRecord'
  BY <1>1, <1>2 DEF OnRecord, IInv, TypeOK
<1>5. Session(r)'
  BY <1>2, EmptySeq DEF Session, JobKnown, Fresh, Held, Locking, Staged, Moved, SlotFree, AtEntry,
                        Writing
<1>6. LocksExclusive'
  BY <1>1, <1>2 DEF LInv, LocksExclusive, IInv, TypeOK
<1>7. SlotsApart'
  <2>1. \A q \in Req : Writing(q)' => q # r /\ Writing(q) /\ job'[q] = job[q]
    BY <1>2, <1>3 DEF Writing, Mine
  <2> QED
    BY <2>1 DEF LInv, SlotsApart
<1> QED
  BY <1>2, <1>3, <1>4, <1>5, <1>6, <1>7

\* Two requests at work on entries work on different ones.
LEMMA EntriesApart ==
  ASSUME LInv, DeletesAlone, NEW r \in Req, NEW q \in Req, r # q, AtEntry(r), AtEntry(q)
  PROVE  job[r].id # job[q].id
<1>1. /\ Session(r) /\ Session(q) /\ pc[r] # "done" /\ pc[q] # "done"
      /\ kind[r] \in {"createEntry", "updateEntry", "deleteEntry"}
      /\ kind[q] \in {"createEntry", "updateEntry", "deleteEntry"}
  BY DEF LInv, AtEntry, EntryKinds
<1>2. CASE kind[r] = "createEntry" \/ kind[q] = "createEntry"
  BY <1>1, <1>2 DEF Session, Held, Fresh
<1>3. CASE kind[r] = "deleteEntry" \/ kind[q] = "deleteEntry"
  BY <1>3 DEF DeletesAlone
<1>4. CASE kind[r] = "updateEntry" /\ kind[q] = "updateEntry"
  <2>1. job[r].id \in locked[r] /\ job[q].id \in locked[q]
    BY <1>1, <1>4 DEF Session, Held
  <2> QED
    BY <2>1 DEF LInv, LocksExclusive
<1> QED
  BY <1>1, <1>2, <1>3, <1>4

(***************************************************************************)
(* Another request's staged change to a purchase of p stands, as long as p *)
(* keeps its stock and its purchases and no more of it is sold.            *)
(***************************************************************************)
LEMMA StagedStays ==
  ASSUME batch \in BatchTables, batch' \in BatchTables, entry \in EntryTables, entry' \in EntryTables,
         NEW q \in Req, NEW p \in Products, NEW d, NEW w \in Batch \cup {None},
         StagedFor(q, p, d, w), owns'[q] = owns[q], view'[q] = view[q],
         stock'[p] = stock[p], batch'[d] = batch[d],
         BatchesOf(batch', p) = BatchesOf(batch, p),
         \A x \in BatchesOf(batch, p) : batch'[x] = batch[x],
         SellsNoMore(entry, entry', p)
  PROVE  StagedFor(q, p, d, w)'
<1>1. /\ owns[q] = {p} /\ d \in BatchIds /\ (batch[d] = None => d = q)
      /\ (batch[d] # None => batch[d].product = p) /\ (w # None => w.product = p)
      /\ view[q][p] = stock[p] + Qty(w) - Qty(batch[d])
      /\ Covered([batch EXCEPT ![d] = w], p)
  BY DEF StagedFor
<1>2. PICK x : x = [batch EXCEPT ![d] = w]
  OBVIOUS
<1>3. PICK y : y = [batch' EXCEPT ![d] = w]
  OBVIOUS
<1>4. x \in BatchTables /\ y \in BatchTables
  BY <1>1, <1>2, <1>3 DEF BatchTables
<1>5. BatchesOf(y, p) = BatchesOf(x, p) /\ \A z \in BatchesOf(x, p) : y[z] = x[z]
  <2>1. \A z \in BatchIds : /\ x[z] = IF z = d THEN w ELSE batch[z]
                            /\ y[z] = IF z = d THEN w ELSE batch'[z]
    BY <1>2, <1>3 DEF BatchTables
  <2> QED
    BY <2>1 DEF BatchesOf
<1>6. \A c : BoughtAt(y, p, c) = BoughtAt(x, p, c)
  BY ONLY <1>4, <1>5, BoughtElsewhere
<1>7. \A c : BoughtAt(batch', p, c) = BoughtAt(batch, p, c)
  BY BoughtElsewhere
<1>8. ASSUME NEW c \in Costs, BoughtAt(y, p, c) < BoughtAt(batch', p, c)
      PROVE  SoldAt(entry', p, c) <= BoughtAt(y, p, c)
  <2>1. /\ SoldAt(entry', p, c) <= SoldAt(entry, p, c)
        /\ SoldAt(entry', p, c) \in Nat /\ SoldAt(entry, p, c) \in Nat
    BY SoldNoMore, SoldIsSum
  <2>2. BoughtAt(x, p, c) \in Nat /\ BoughtAt(y, p, c) = BoughtAt(x, p, c)
    BY <1>4, <1>6, BoughtAtIsSum
  <2>3. BoughtAt(x, p, c) < BoughtAt(batch, p, c)
    BY <1>7, <1>8, <2>2
  <2>4. SoldAt(entry, p, c) <= BoughtAt(x, p, c)
    BY <1>1, <1>2, <2>3 DEF Covered
  <2> QED
    BY <2>1, <2>2, <2>4
<1>9. Covered([batch EXCEPT ![d] = w], p)'
  BY <1>3, <1>8 DEF Covered
<1> QED
  BY <1>1, <1>9 DEF StagedFor

(***************************************************************************)
(* Another request's entry is left alone by a commit: what its session     *)
(* sees moves with the committed stock, or the stock is locked.            *)
(***************************************************************************)
LEMMA MovedStays ==
  ASSUME IInv, IInv', NEW q \in Req, NEW p \in live, p \in live', AtEntry(q), Moved(q),
         pc'[q] = pc[q], job'[q] = job[q], todo'[q] = todo[q],
         owns'[q] = owns[q], view'[q] = view[q],
         Taken(entry'[job[q].id], p) = Taken(entry[job[q].id], p),
         p \in owns[q] => stock'[p] = stock[p]
  PROVE  (Seen(q, p) = stock[p] + Taken(entry[job[q].id], p) - Owed(q, p))'
<1>1. Seen(q, p) = stock[p] + Taken(entry[job[q].id], p) - Owed(q, p)
  BY DEF Moved
<1>2. Owed(q, p)' = Owed(q, p) /\ (Taken(entry[job[q].id], p))' = Taken(entry[job[q].id], p)
  BY DEF Owed
<1>3. CASE p \in owns[q]
  <2>1. stock'[p] = stock[p] /\ Seen(q, p)' = Seen(q, p)
    BY <1>3 DEF Seen
  <2> QED
    BY <1>1, <1>2, <2>1
<1>4. CASE p \notin owns[q]
  <2>1. Seen(q, p)' = stock'[p] /\ Seen(q, p) = stock[p]
    BY <1>4 DEF Seen
  <2>2. stock[p] \in Int /\ stock'[p] \in Int /\ Taken(entry[job[q].id], p) \in Nat
    <3>1. job[q].id \in EntryIds
      BY DEF AtEntry, IInv, JobsFit, Running
    <3> QED
      BY <3>1, TakenNat DEF IInv, TypeOK
  <2>3. Owed(q, p) \in Int
    <3>1. Pending(todo[q], p) \in Nat
      BY PendingNat DEF IInv, TypeOK
    <3>2. pc[q] = "sell" => Taken(job[q].entry, p) \in Nat
      BY TakenNat DEF IInv, JobsFit, Running
    <3> QED
      BY <3>1, <3>2 DEF Owed
  <2> QED
    BY <1>1, <1>2, <2>1, <2>2, <2>3
<1> QED
  BY <1>3, <1>4

\* What the commit of a fuel entry writes, and what is known of it.
EntryCommitted(r, e, new) ==
  /\ AtEntry(r) /\ e = job[r].id /\ new = job[r].entry
  /\ e \in EntryIds /\ new \in Entry \cup {None}
  /\ entry' = [entry EXCEPT ![e] = new]
  /\ stock' = [p \in Products |-> IF p \in owns[r] THEN view[r][p] ELSE stock[p]]
  /\ live' = live /\ batch' = batch
  /\ kind[r] = "deleteEntry" => new = None /\ entry[e] # None
  /\ kind[r] \in EntryKinds => new \in Entry /\ Writing(r) /\ ProductsOf(new) \subseteq shares[r]
  /\ kind[r] \in EntryKinds \cup {"deleteEntry"}
  /\ entry[e] = None => e = r
  /\ shares[r] \subseteq live
  /\ \A p \in live : stock'[p] = stock[p] + Taken(entry[e], p) - Taken(new, p)

LEMMA EntryCommit ==
  ASSUME LInv, NEW r \in Req, Ready(r), CommitEntry(r)
  PROVE  EntryCommitted(r, job[r].id, job[r].entry)
<1> DEFINE e == job[r].id
           new == job[r].entry
<1>1. /\ IInv /\ Session(r) /\ Running(r)
      /\ kind[r] \in EntryKinds \cup {"deleteEntry"}
      /\ pc[r] = "commit" \/ (pc[r] = "sell" /\ todo[r] = <<>>)
  BY DEF LInv, Ready, Running, CommitEntry, EntryKinds
<1>2. /\ entry' = [entry EXCEPT ![e] = new]
      /\ stock' = [p \in Products |-> IF p \in owns[r] THEN view[r][p] ELSE stock[p]]
      /\ live' = live /\ batch' = batch
  BY DEF CommitEntry
<1>3. AtEntry(r) /\ job[r] \in Job /\ e \in EntryIds /\ new \in Entry \cup {None}
  BY <1>1 DEF AtEntry, IInv, JobsFit, Job
<1>4. /\ kind[r] = "deleteEntry" => new = None /\ entry[e] # None /\ pc[r] = "commit"
      /\ kind[r] \in EntryKinds => pc[r] = "sell" /\ new \in Entry /\ ProductsOf(new) \subseteq shares[r]
      /\ entry[e] = None => e = r
      /\ shares[r] \subseteq live
  <2>1. kind[r] = "deleteEntry" => pc[r] = "commit"
    BY <1>1 DEF IInv, JobsFit, EntryKinds
  <2>2. kind[r] \in EntryKinds => pc[r] = "sell"
    BY <1>1 DEF IInv, JobsFit
  <2> QED
    BY <1>1, <1>3, <2>1, <2>2 DEF Session, Held, Locking, IInv, JobsFit, EntryKinds
<1>5. ASSUME NEW p \in live
      PROVE  stock'[p] = stock[p] + Taken(entry[e], p) - Taken(new, p)
  <2>1. stock'[p] = Seen(r, p)
    BY <1>1, <1>2 DEF Seen, IInv, TypeOK
  <2>2. Seen(r, p) = stock[p] + Taken(entry[e], p) - Owed(r, p)
    BY <1>1, <1>3 DEF Session, Moved
  <2>3. Taken(new, p) \in Nat
    BY <1>3, TakenNat
  <2>4. Owed(r, p) = Taken(new, p)
    <3>1. CASE kind[r] = "deleteEntry"
      BY <1>4, <3>1 DEF Owed, Taken
    <3>2. CASE kind[r] \in EntryKinds
      <4>1. Owed(r, p) = Taken(new, p) - 0
        BY <1>1, <1>4, <3>2, PendingEmpty DEF Owed
      <4> QED
        BY <2>3, <4>1
    <3> QED
      BY <1>1, <3>1, <3>2
  <2> QED
    BY <2>1, <2>2, <2>4
<1> QED
  BY <1>1, <1>2, <1>3, <1>4, <1>5 DEF EntryCommitted, Writing

LEMMA CommitEntryLedger ==
  ASSUME LInv, DeletesAlone, NEW r \in Req, Ready(r), CommitEntry(r), End(r, "done"), IInv'
  PROVE  LInv'
<1>1. PICK e, new : EntryCommitted(r, e, new)
  BY EntryCommit
<1>2. IInv /\ Running(r) /\ Session(r)
  BY DEF LInv, Ready, Running
<1>3. /\ kind' = kind /\ \A q \in Req \ {r} : UNCHANGED Mine(q)
      /\ OnRecord \subseteq OnRecord'
      /\ Session(r)' /\ LocksExclusive' /\ SlotsApart'
  BY <1>2, CommitEnds
<1>4. /\ e \in EntryIds /\ new \in Entry \cup {None} /\ AtEntry(r) /\ e = job[r].id
      /\ live' = live /\ batch' = batch
      /\ entry' = [entry EXCEPT ![e] = new] /\ entry'[e] = new
      /\ \A f \in EntryIds \ {e} : entry'[f] = entry[f]
      /\ \A p \in live : p \notin owns[r] => stock'[p] = stock[p]
      /\ \A p \in live : stock'[p] = stock[p] + Taken(entry[e], p) - Taken(new, p)
      /\ entry \in EntryTables /\ entry' \in EntryTables /\ batch \in BatchTables
  BY <1>1, <1>2 DEF EntryCommitted, IInv, TypeOK, EntryTables, BatchTables
<1>5. new # None => ProductsOf(new) \subseteq shares[r] /\ shares[r] \subseteq live
                    /\ Writing(r) /\ new = job[r].entry
  BY <1>1 DEF EntryCommitted
<1>6. RecordKnown'
  <2>1. RecordKnown
    BY DEF LInv
  <2>2. new # None => ProductsOf(new) \subseteq OnRecord
    BY <1>5, <2>1 DEF RecordKnown
  <2> QED
    BY <1>3, <1>4, <2>1, <2>2 DEF RecordKnown
<1>7. StockConserved'
  <2>1. SUFFICES ASSUME NEW p \in live
                 PROVE  stock'[p] = Balance(entry', batch, p)
    BY <1>4 DEF StockConserved
  <2>2. stock[p] = Bought(batch, p) - AllTaken(entry, p) /\ AllTaken(entry, p) \in Nat
    BY <1>4, BalanceIs DEF LInv, StockConserved
  <2>3. Balance(entry', batch, p) = Bought(batch, p) - AllTaken(entry', p)
    BY <1>4, BalanceIs
  <2>4. AllTaken(entry', p) = AllTaken(entry, p) - Taken(entry[e], p) + Taken(new, p)
    <3>1. \A f \in EntryIds \ {e} : Taken(entry'[f], p) = Taken(entry[f], p)
      BY <1>4
    <3>2. e \in EntryIds /\ entry \in EntryTables /\ entry' \in EntryTables /\ entry'[e] = new
      BY <1>4
    <3>3. AllTaken(entry', p) = AllTaken(entry, p) - Taken(entry[e], p) + Taken(entry'[e], p)
      BY ONLY <3>1, <3>2, TakenEdit
    <3> QED
      BY <3>2, <3>3
  <2>5. Taken(entry[e], p) \in Nat /\ Taken(new, p) \in Nat /\ Bought(batch, p) \in Nat
    BY <1>4, TakenNat, BoughtIsSum DEF EntryTables
  <2> QED
    BY <1>4, <2>2, <2>3, <2>4, <2>5
<1>8. ASSUME NEW q \in Req \ {r}
      PROVE  Session(q)'
  <2>1. /\ pc'[q] = pc[q] /\ job'[q] = job[q] /\ todo'[q] = todo[q] /\ view'[q] = view[q]
        /\ owns'[q] = owns[q] /\ shares'[q] = shares[q] /\ locked'[q] = locked[q]
        /\ Session(q)
    BY <1>3 DEF Mine, LInv
  <2>2. AtEntry(q) => job[q].id # e /\ job[q].id \in EntryIds
    <3>1. AtEntry(q) => job[q].id \in EntryIds
      BY <1>2 DEF AtEntry, IInv, JobsFit, Running
    <3> QED
      BY <1>4, <3>1, EntriesApart
  <2>3. \A p \in owns[q] : p \in live /\ p \notin owns[r] /\ p \notin shares[r]
    BY <1>2, <2>1 DEF IInv, OwnersExclusive, Session, Locking
  <2>4. JobKnown(q)' /\ Locking(q)'
    BY <1>3, <1>4, <2>1 DEF Session, JobKnown, Locking
  <2>5. Fresh(q)'
    <3>1. pc[q] # "done" => e # q
      BY <1>1, <2>1 DEF EntryCommitted, Session, Fresh
    <3>2. q \in EntryIds
      BY DEF EntryIds
    <3> QED
      BY <1>3, <1>4, <2>1, <3>1, <3>2 DEF Session, Fresh
  <2>6. Held(q)'
    BY <1>3, <1>4, <2>1, <2>2 DEF Session, Held, AtEntry
  <2>7. Staged(q)'
    <3>1. SUFFICES ASSUME pc[q] = "commit", kind[q] \in PurchaseKinds
                   PROVE  (\E p \in live : StagedFor(q, p, job[q].id, job[q].batch))'
      BY <1>3, <2>1 DEF Staged
    <3>2. PICK p \in live : StagedFor(q, p, job[q].id, job[q].batch)
      BY <2>1, <3>1 DEF Session, Staged
    <3>3. p \in owns[q] /\ p \in Products
      BY <1>2, <3>2 DEF StagedFor, IInv, TypeOK
    <3>4. SellsNoMore(entry, entry', p)
      <4>1. new # None => RowsOf(new, p) = {}
        <5>1. new # None => p \notin ProductsOf(new)
          BY <1>5, <2>3, <3>3
        <5>2. p # None
          BY <3>3, IdsAreDistinct DEF Products
        <5> QED
          BY <5>1, <5>2 DEF ProductsOf, RowsOf
      <4> QED
        BY <1>4, <4>1 DEF SellsNoMore
    <3>5. job[q].batch \in Batch \cup {None}
      BY <1>2, <3>1 DEF IInv, JobsFit, Running, Job
    <3>6. PICK d, w : d = job[q].id /\ w = job[q].batch
      OBVIOUS
    <3>7. StagedFor(q, p, d, w)'
      BY <1>4, <2>1, <2>3, <3>2, <3>3, <3>4, <3>5, <3>6, StagedStays
    <3> QED
      BY <1>4, <2>1, <3>6, <3>7
  <2>8. Moved(q)'
    <3>1. ASSUME NEW p \in live, AtEntry(q)
          PROVE  (Seen(q, p) = stock[p] + Taken(entry[job[q].id], p) - Owed(q, p))'
      BY <1>2, <1>4, <2>1, <2>2, <2>3, <3>1, MovedStays DEF Session
    <3> QED
      BY <1>3, <1>4, <2>1, <3>1 DEF Moved, AtEntry
  <2>9. SlotFree(q)'
    <3>1. SUFFICES ASSUME Writing(q), NEW f \in EntryIds \ {job[q].id}, entry'[f] # None
                   PROVE  entry'[f].slot # job[q].entry.slot
      BY <2>1 DEF SlotFree, Writing
    <3>2. CASE f # e
      BY <1>4, <2>1, <3>1, <3>2 DEF Session, SlotFree
    <3>3. CASE f = e
      BY <1>4, <1>5, <3>1, <3>3 DEF LInv, SlotsApart
    <3> QED
      BY <3>2, <3>3
  <2> QED
    BY <2>4, <2>5, <2>6, <2>7, <2>8, <2>9 DEF Session
<1> QED
  BY <1>3, <1>6, <1>7, <1>8 DEF LInv

\* What the commit of a purchase writes.
PurchaseCommitted(r, p, b, new) ==
  /\ pc[r] = "commit" /\ kind[r] \in PurchaseKinds
  /\ p \in live /\ b \in BatchIds /\ new \in Batch \cup {None}
  /\ owns[r] = {p}
  /\ StagedFor(r, p, b, new)
  /\ batch' = [batch EXCEPT ![b] = new]
  /\ live' = live /\ entry' = entry
  /\ stock'[p] = stock[p] + Qty(new) - Qty(batch[b])
  /\ \A q \in live : q # p => stock'[q] = stock[q]

LEMMA PurchaseCommit ==
  ASSUME LInv, NEW r \in Req, Ready(r), CommitPurchase(r)
  PROVE  \E p, b, new : PurchaseCommitted(r, p, b, new)
<1>1. /\ IInv /\ Session(r) /\ Running(r) /\ kind[r] \in PurchaseKinds /\ pc[r] = "commit"
      /\ job[r] \in Job
  BY DEF LInv, Ready, Running, CommitPurchase, PurchaseKinds, EntryKinds, IInv, JobsFit
<1>2. PICK p \in live : StagedFor(r, p, job[r].id, job[r].batch)
  BY <1>1 DEF Session, Staged
<1>3. p \in Products /\ live \subseteq Products
  BY <1>1, <1>2 DEF IInv, TypeOK
<1>4. PurchaseCommitted(r, p, job[r].id, job[r].batch)
  BY <1>1, <1>2, <1>3 DEF PurchaseCommitted, CommitPurchase, StagedFor, Job
<1> QED
  BY <1>4

LEMMA CommitPurchaseLedger ==
  ASSUME LInv, NEW r \in Req, Ready(r), CommitPurchase(r), End(r, "done"), IInv'
  PROVE  LInv'
<1>1. PICK p, b, new : PurchaseCommitted(r, p, b, new)
  BY PurchaseCommit
<1>2. IInv /\ Running(r) /\ Session(r)
  BY DEF LInv, Ready, Running
<1>3. /\ kind' = kind /\ \A q \in Req \ {r} : UNCHANGED Mine(q)
      /\ OnRecord \subseteq OnRecord'
      /\ Session(r)' /\ LocksExclusive' /\ SlotsApart'
  BY <1>2, CommitEnds
<1>4. /\ p \in live /\ b \in BatchIds /\ new \in Batch \cup {None}
      /\ live' = live /\ entry' = entry
      /\ batch' = [batch EXCEPT ![b] = new] /\ batch'[b] = new
      /\ \A d \in BatchIds \ {b} : batch'[d] = batch[d]
      /\ stock'[p] = stock[p] + Qty(new) - Qty(batch[b])
      /\ \A q \in live : q # p => stock'[q] = stock[q]
      /\ owns[r] = {p}
      /\ batch[b] = None => b = r
      /\ batch[b] # None => batch[b].product = p
      /\ new # None => new.product = p
      /\ entry \in EntryTables /\ batch \in BatchTables /\ batch' \in BatchTables
  BY <1>1, <1>2 DEF PurchaseCommitted, StagedFor, IInv, TypeOK, EntryTables, BatchTables
<1>5. RecordKnown'
  BY <1>3, <1>4 DEF LInv, RecordKnown
\* The purchases of the other products are left alone.
<1>6. ASSUME NEW q \in live, q # p
      PROVE  /\ BatchesOf(batch', q) = BatchesOf(batch, q)
             /\ \A d \in BatchesOf(batch, q) : batch'[d] = batch[d] /\ d # b
  BY <1>4, <1>6 DEF BatchesOf
<1>7. StockConserved'
  <2>1. SUFFICES ASSUME NEW q \in live
                 PROVE  stock'[q] = Balance(entry, batch', q)
    BY <1>4 DEF StockConserved
  <2>2. stock[q] = Bought(batch, q) - AllTaken(entry, q) /\ AllTaken(entry, q) \in Nat
    BY <1>4, BalanceIs DEF LInv, StockConserved
  <2>3. Balance(entry, batch', q) = Bought(batch', q) - AllTaken(entry, q)
    BY <1>4, BalanceIs
  <2>4. Bought(batch, q) \in Nat /\ Bought(batch', q) \in Nat
    BY <1>4, BoughtIsSum
  <2>5. CASE q = p
    <3>1. Bought(batch', p) = Bought(batch, p) - Qty(batch[b]) + Qty(batch'[b])
      <4>1. /\ b \in BatchIds /\ batch \in BatchTables /\ batch' \in BatchTables
            /\ \A d \in BatchIds \ {b} : batch'[d] = batch[d]
            /\ batch[b] # None => batch[b].product = p
            /\ batch'[b] # None => batch'[b].product = p
        BY <1>4
      <4> QED
        BY ONLY <4>1, BoughtEdit
    <3>2. Qty(batch[b]) \in Nat /\ Qty(new) \in Nat
      BY <1>4 DEF Qty, Batch, BatchTables
    <3> QED
      BY <1>4, <2>2, <2>3, <2>4, <2>5, <3>1, <3>2
  <2>6. CASE q # p
    <3>1. Bought(batch', q) = Bought(batch, q)
      <4>1. /\ batch \in BatchTables /\ batch' \in BatchTables
            /\ BatchesOf(batch', q) = BatchesOf(batch, q)
            /\ \A d \in BatchesOf(batch, q) : batch'[d] = batch[d]
        BY <1>4, <1>6, <2>6
      <4> QED
        BY ONLY <4>1, BoughtElsewhere
    <3> QED
      BY <1>4, <2>2, <2>3, <2>6, <3>1
  <2> QED
    BY <2>5, <2>6
<1>8. ASSUME NEW q \in Req \ {r}
      PROVE  Session(q)'
  <2>1. /\ pc'[q] = pc[q] /\ job'[q] = job[q] /\ todo'[q] = todo[q] /\ view'[q] = view[q]
        /\ owns'[q] = owns[q] /\ shares'[q] = shares[q] /\ locked'[q] = locked[q]
        /\ Session(q)
    BY <1>3 DEF Mine, LInv
  <2>2. \A s \in owns[q] : s \in live /\ s # p /\ stock'[s] = stock[s]
    BY <1>2, <1>4, <2>1 DEF IInv, OwnersExclusive, Session, Locking
  <2>3. JobKnown(q)' /\ Locking(q)' /\ Held(q)' /\ SlotFree(q)'
    BY <1>3, <1>4, <2>1 DEF Session, JobKnown, Locking, Held, SlotFree, AtEntry, Writing
  <2>4. Fresh(q)'
    <3>1. q \in BatchIds /\ (pc[q] # "done" => b # q)
      BY <1>4, <2>1 DEF Session, Fresh, BatchIds
    <3> QED
      BY <1>3, <1>4, <2>1, <3>1 DEF Session, Fresh
  <2>5. Staged(q)'
    <3>1. SUFFICES ASSUME pc[q] = "commit", kind[q] \in PurchaseKinds
                   PROVE  (\E s \in live : StagedFor(q, s, job[q].id, job[q].batch))'
      BY <1>3, <2>1 DEF Staged
    <3>2. PICK s \in live : StagedFor(q, s, job[q].id, job[q].batch)
      BY <2>1, <3>1 DEF Session, Staged
    <3>3. PICK d, w : d = job[q].id /\ w = job[q].batch
      OBVIOUS
    <3>4. /\ StagedFor(q, s, d, w) /\ d \in BatchIds /\ (batch[d] = None => d = q)
          /\ (batch[d] # None => batch[d].product = s) /\ s # p /\ stock'[s] = stock[s]
      BY <2>2, <3>2, <3>3 DEF StagedFor
    <3>5. batch'[d] = batch[d]
      BY <1>4, <3>4
    <3>6. w \in Batch \cup {None} /\ s \in Products
      BY <1>2, <3>1, <3>3 DEF IInv, JobsFit, Running, Job, TypeOK
    <3>7. SellsNoMore(entry, entry', s)
      BY <1>4 DEF SellsNoMore
    <3>8. StagedFor(q, s, d, w)'
      BY <1>4, <1>6, <2>1, <3>4, <3>5, <3>6, <3>7, StagedStays
    <3> QED
      BY <1>4, <2>1, <3>3, <3>8
  <2>6. Moved(q)'
    <3>1. ASSUME NEW s \in live, AtEntry(q)
          PROVE  (Seen(q, s) = stock[s] + Taken(entry[job[q].id], s) - Owed(q, s))'
      BY <1>2, <1>4, <2>1, <2>2, <3>1, MovedStays DEF Session
    <3> QED
      BY <1>3, <1>4, <2>1, <3>1 DEF Moved, AtEntry
  <2> QED
    BY <2>3, <2>4, <2>5, <2>6 DEF Session
<1> QED
  BY <1>3, <1>5, <1>7, <1>8 DEF LInv

\* No entry took anything of a product that was never on record, no purchase is of it.
LEMMA NeverSold ==
  ASSUME LInv, NEW p \in Products, p \notin OnRecord
  PROVE  /\ \A e \in EntryIds : Taken(entry[e], p) = 0
         /\ BatchesOf(batch, p) = {}
         /\ AllTaken(entry, p) = 0
<1>1. RecordKnown /\ TypeOK /\ p # None
  BY IdsAreDistinct DEF LInv, IInv, Products
<1>2. ASSUME NEW e \in Entry, ProductsOf(e) \subseteq OnRecord
      PROVE  Taken(e, p) = 0
  <2>1. StockRows(e) \in Seq(Row)
    BY StockRowsTyped
  <2>2. RowsWith(StockRows(e), p) = {}
    BY <1>1, <1>2, EmptySeq DEF RowsWith, StockRows, ProductsOf
  <2> QED
    BY <2>1, <2>2, PendingNone, TakenIsPending
<1>3. ASSUME NEW e \in EntryIds
      PROVE  Taken(entry[e], p) = 0
  <2>1. CASE entry[e] = None
    BY <2>1 DEF Taken
  <2>2. CASE entry[e] # None
    BY <1>1, <1>2, <2>2 DEF TypeOK, RecordKnown
  <2> QED
    BY <2>1, <2>2
<1>4. BatchesOf(batch, p) = {}
  BY <1>1 DEF BatchesOf, RecordKnown
<1>5. AllTaken(entry, p) = 0
  <2> DEFINE g == [e \in EntryIds |-> Taken(entry[e], p)]
  <2>1. \A e \in EntryIds : g[e] = 0
    BY <1>3
  <2> HIDE DEF g
  <2>2. SumOver(g, EntryIds) = 0
    BY <2>1, TablesFinite, SumZero
  <2> QED
    BY <2>2 DEF AllTaken, g
<1> QED
  BY <1>3, <1>4, <1>5

LEMMA CreateProductLedger ==
  ASSUME LInv, NEW r \in Req, Ready(r), kind[r] = "createProduct", CommitProduct(r),
         End(r, "done"), IInv'
  PROVE  LInv'
<1> DEFINE new == job[r].batch
<1>1. /\ IInv /\ Running(r) /\ Session(r) /\ pc[r] = "commit"
  BY DEF LInv, Ready, Running, IInv, JobsFit, EntryKinds
<1>2. /\ kind' = kind /\ \A q \in Req \ {r} : UNCHANGED Mine(q)
      /\ OnRecord \subseteq OnRecord' /\ pc'[r] = "done"
      /\ Session(r)' /\ LocksExclusive' /\ SlotsApart'
  BY <1>1, CommitEnds
<1>3. /\ new \in Batch /\ new # None /\ new.product = r /\ new.qty \in Nat
      /\ r \in Products /\ r \in BatchIds /\ batch[r] = None
      /\ r \notin live /\ r \notin OnRecord /\ r \in OnRecord'
      /\ \A q \in Req : r \notin owns[q]
  <2>1. new \in Batch /\ new.product = r /\ batch[r] = None
    BY <1>1 DEF IInv, JobsFit, Session, Fresh
  <2>2. r \notin live /\ \A q \in Req : r \notin owns[q]
    BY <1>1 DEF IInv, ProductsFresh
  <2>3. r \notin OnRecord /\ r \in OnRecord'
    BY <1>1, <1>2, IdsAreDistinct DEF OnRecord
  <2> QED
    BY <2>1, <2>2, <2>3, NoneIsNoRow DEF Batch, Products, BatchIds
<1> HIDE DEF new
<1>4. /\ live' = live \cup {r} /\ entry' = entry
      /\ batch' = [batch EXCEPT ![r] = new] /\ batch'[r] = new
      /\ \A d \in BatchIds \ {r} : batch'[d] = batch[d]
      /\ stock'[r] = new.qty /\ \A p \in live : stock'[p] = stock[p]
      /\ entry \in EntryTables /\ batch \in BatchTables /\ batch' \in BatchTables
  BY <1>1, <1>3 DEF CommitProduct, IInv, TypeOK, EntryTables, BatchTables, new
<1>5. RecordKnown'
  BY <1>2, <1>3, <1>4 DEF LInv, RecordKnown
<1>6. ASSUME NEW p \in live
      PROVE  /\ BatchesOf(batch', p) = BatchesOf(batch, p)
             /\ \A d \in BatchesOf(batch, p) : batch'[d] = batch[d]
  <2>1. p # r
    BY <1>3
  <2> QED
    BY <1>3, <1>4, <2>1 DEF BatchesOf
<1>7. Taken(entry[r], r) = 0 /\ AllTaken(entry, r) = 0 /\ BatchesOf(batch, r) = {}
      /\ \A e \in EntryIds : Taken(entry[e], r) = 0
  BY <1>3, NeverSold DEF EntryIds
<1>8. StockConserved'
  <2>1. SUFFICES ASSUME NEW p \in live'
                 PROVE  stock'[p] = Balance(entry, batch', p)
    BY <1>4 DEF StockConserved
  <2>2. Balance(entry, batch', p) = Bought(batch', p) - AllTaken(entry, p)
        /\ Balance(entry, batch, p) = Bought(batch, p) - AllTaken(entry, p)
    BY <1>4, BalanceIs
  <2>3. CASE p = r
    <3>1. Bought(batch, r) = 0
      <4>1. Bought(batch, r) = SumOver([b \in BatchesOf(batch, r) |-> batch[b].qty],
                                       BatchesOf(batch, r))
        BY QuantitiesSum DEF Bought
      <4> QED
        BY <1>7, <4>1, SumEmpty
    <3>2. Bought(batch', r) = Bought(batch, r) - Qty(batch[r]) + Qty(batch'[r])
      <4>1. /\ r \in BatchIds /\ batch \in BatchTables /\ batch' \in BatchTables
            /\ \A d \in BatchIds \ {r} : batch'[d] = batch[d]
            /\ batch[r] # None => batch[r].product = r
            /\ batch'[r] # None => batch'[r].product = r
        BY <1>3, <1>4
      <4> QED
        BY ONLY <4>1, BoughtEdit
    <3>3. Qty(batch[r]) = 0 /\ Qty(batch'[r]) = new.qty
      BY <1>3, <1>4 DEF Qty
    <3> QED
      BY <1>3, <1>4, <1>7, <2>2, <2>3, <3>1, <3>2, <3>3
  <2>4. CASE p \in live
    <3>1. Bought(batch', p) = Bought(batch, p)
      <4>1. /\ batch \in BatchTables /\ batch' \in BatchTables
            /\ BatchesOf(batch', p) = BatchesOf(batch, p)
            /\ \A d \in BatchesOf(batch, p) : batch'[d] = batch[d]
        BY <1>4, <1>6, <2>4
      <4> QED
        BY ONLY <4>1, BoughtElsewhere
    <3> QED
      BY <1>4, <2>2, <2>4, <3>1 DEF LInv, StockConserved
  <2> QED
    BY <1>4, <2>3, <2>4
<1>9. ASSUME NEW q \in Req \ {r}
      PROVE  Session(q)'
  <2>1. /\ pc'[q] = pc[q] /\ job'[q] = job[q] /\ todo'[q] = todo[q] /\ view'[q] = view[q]
        /\ owns'[q] = owns[q] /\ shares'[q] = shares[q] /\ locked'[q] = locked[q]
        /\ Session(q)
    BY <1>2 DEF Mine, LInv
  <2>2. JobKnown(q)' /\ Held(q)' /\ SlotFree(q)' /\ Fresh(q)'
    <3>1. q \in BatchIds /\ q # r
      BY DEF BatchIds
    <3> QED
      BY <1>2, <1>4, <2>1, <3>1
      DEF Session, JobKnown, Held, SlotFree, Fresh, AtEntry, Writing
  <2>3. Locking(q)'
    <3>1. kind[q] = "deleteProduct" /\ pc[q] = "commit" => job[q].id # r
      BY <1>3, <2>1 DEF Session, JobKnown
    <3> QED
      BY <1>2, <1>4, <2>1, <3>1 DEF Session, Locking
  <2>4. Staged(q)'
    <3>1. SUFFICES ASSUME pc[q] = "commit", kind[q] \in PurchaseKinds
                   PROVE  (\E s \in live : StagedFor(q, s, job[q].id, job[q].batch))'
      BY <1>2, <2>1 DEF Staged
    <3>2. PICK s \in live : StagedFor(q, s, job[q].id, job[q].batch)
      BY <2>1, <3>1 DEF Session, Staged
    <3>3. PICK d, w : d = job[q].id /\ w = job[q].batch
      OBVIOUS
    <3>4. StagedFor(q, s, d, w) /\ d \in BatchIds /\ d # r
      <4>1. batch[d] # None => batch[d] # batch[r]
        BY <1>3
      <4> QED
        BY <1>3, <3>2, <3>3, <4>1 DEF StagedFor
    <3>5. batch'[d] = batch[d] /\ stock'[s] = stock[s]
      BY <1>4, <3>2, <3>4
    <3>6. w \in Batch \cup {None} /\ s \in Products
      BY <1>1, <3>1, <3>2, <3>3 DEF IInv, JobsFit, Running, Job, TypeOK
    <3>7. SellsNoMore(entry, entry', s)
      BY <1>4 DEF SellsNoMore
    <3>8. StagedFor(q, s, d, w)'
      BY <1>4, <1>6, <2>1, <3>4, <3>5, <3>6, <3>7, StagedStays
    <3> QED
      BY <1>4, <2>1, <3>3, <3>8
  <2>5. Moved(q)'
    <3>1. ASSUME NEW p \in live, AtEntry(q)
          PROVE  (Seen(q, p) = stock[p] + Taken(entry[job[q].id], p) - Owed(q, p))'
      BY <1>1, <1>4, <2>1, <3>1, MovedStays DEF Session
    \* The new product: nobody locks it, and no row to move names it.
    <3>2. ASSUME AtEntry(q)
          PROVE  (Seen(q, r) = stock[r] + Taken(entry[job[q].id], r) - Owed(q, r))'
      <4>1. Seen(q, r)' = new.qty
        BY <1>3, <1>4, <2>1 DEF Seen
      <4>2. job[q].id \in EntryIds
        BY <1>1, <3>2 DEF AtEntry, IInv, JobsFit, Running
      <4>3. (Taken(entry[job[q].id], r))' = 0
        BY <1>4, <1>7, <2>1, <4>2
      <4>4. todo[q] \in Seq(Row) /\ RowsWith(todo[q], r) = {} /\ r # None
        <5>1. r # None /\ todo[q] \in Seq(Row)
          BY <1>1, IdsAreDistinct DEF IInv, TypeOK
        <5>2. RowsWith(todo[q], r) = {}
          BY <1>3, <2>1, <5>1 DEF RowsWith, Session, JobKnown
        <5> QED
          BY <5>1, <5>2
      <4>5. Pending(todo[q], r) = 0
        BY <4>4, PendingNone
      <4>6. pc[q] = "sell" => Taken(job[q].entry, r) = 0
        <5>1. SUFFICES ASSUME pc[q] = "sell"
                       PROVE  Taken(job[q].entry, r) = 0
          OBVIOUS
        <5>2. job[q].entry \in Entry
          BY <1>1, <5>1 DEF IInv, JobsFit, Running
        <5>3. r \notin ProductsOf(job[q].entry)
          BY <1>3, <2>1, <5>1 DEF Session, Locking
        <5>4. RowsWith(StockRows(job[q].entry), r) = {}
          BY <4>4, <5>3, EmptySeq DEF RowsWith, StockRows, ProductsOf
        <5> QED
          BY <5>2, <5>4, StockRowsTyped, PendingNone, TakenIsPending
      <4>7. Owed(q, r)' = 0
        BY <2>1, <4>5, <4>6 DEF Owed
      <4> QED
        BY <1>3, <1>4, <4>1, <4>3, <4>7
    <3> QED
      BY <1>2, <1>4, <2>1, <3>1, <3>2 DEF Moved, AtEntry
  <2> QED
    BY <2>2, <2>3, <2>4, <2>5 DEF Session
<1> QED
  BY <1>2, <1>5, <1>8, <1>9 DEF LInv

\* An entry that loses a product names the others it named, and no other.
LEMMA OrphanedKept ==
  ASSUME NEW e \in Entry, NEW p
  PROVE  /\ Orphaned(e, p) \in Entry /\ Orphaned(e, p) # None /\ e # None
         /\ Orphaned(e, p).slot = e.slot
         /\ ProductsOf(Orphaned(e, p)) \subseteq ProductsOf(e) \ {p}
<1> DEFINE rs == [i \in DOMAIN e.rows |->
                    IF e.rows[i].product = p THEN [e.rows[i] EXCEPT !.product = None]
                                             ELSE e.rows[i]]
<1>1. Orphaned(e, p) = [e EXCEPT !.rows = rs]
  BY DEF Orphaned
<1>2. Orphaned(e, p).rows = rs /\ Orphaned(e, p).slot = e.slot
  BY <1>1 DEF Entry
<1>3. \A i \in DOMAIN e.rows : e.rows[i] \in Row
  <2>1. e.rows \in Seq(Row)
    BY DEF Entry
  <2> QED
    BY <2>1, RowsTyped
<1>4. \A i \in DOMAIN e.rows : rs[i].product = None
        \/ (rs[i].product = e.rows[i].product /\ e.rows[i].product # p)
  BY <1>3 DEF Row
<1>5. DOMAIN rs = DOMAIN e.rows
  OBVIOUS
<1> HIDE DEF rs
<1> QED
  BY <1>2, <1>4, <1>5, OrphanedIsEntry, NoneIsNoRow DEF ProductsOf

\* What the commit of a deleted product writes.
ProductDropped(r, p) ==
  /\ p \in Products
  /\ p \in live => p \in owns[r]
  /\ live' = live \ {p} /\ stock' = stock
  /\ batch' = [b \in BatchIds |-> IF b \in BatchesOf(batch, p) THEN None ELSE batch[b]]
  /\ entry' = [e \in EntryIds |-> IF entry[e] = None THEN None ELSE Orphaned(entry[e], p)]

LEMMA ProductCommit ==
  ASSUME LInv, NEW r \in Req, Ready(r), kind[r] = "deleteProduct", CommitProduct(r)
  PROVE  ProductDropped(r, job[r].id)
<1>1. IInv /\ Session(r) /\ RecordKnown /\ pc[r] = "commit"
  BY DEF LInv, Ready, IInv, JobsFit, Running, EntryKinds
<1>2. job[r].id \in Products
  BY <1>1 DEF Session, JobKnown, OnRecord, Products
<1>3. job[r].id \in live => job[r].id \in owns[r]
  BY <1>1 DEF Session, Locking
<1> QED
  BY <1>2, <1>3 DEF CommitProduct, ProductDropped

\* The record of another product is untouched.
LEMMA DroppedElsewhere ==
  ASSUME LInv, NEW r \in Req, NEW p, ProductDropped(r, p), NEW s \in Products, s # p
  PROVE  /\ BatchesOf(batch', s) = BatchesOf(batch, s)
         /\ \A d \in BatchesOf(batch, s) : batch'[d] = batch[d]
         /\ \A e \in EntryIds : Taken(entry'[e], s) = Taken(entry[e], s)
         /\ SellsNoMore(entry, entry', s)
<1>1. entry \in EntryTables
  BY DEF LInv, IInv, TypeOK, EntryTables
<1>2. \A b \in BatchIds : batch'[b] = IF b \in BatchesOf(batch, p) THEN None ELSE batch[b]
  BY DEF ProductDropped
<1>3. /\ BatchesOf(batch', s) = BatchesOf(batch, s)
      /\ \A d \in BatchesOf(batch, s) : batch'[d] = batch[d]
  BY <1>2 DEF BatchesOf
<1>4. ASSUME NEW e \in EntryIds
      PROVE  /\ Taken(entry'[e], s) = Taken(entry[e], s)
             /\ entry[e] = None => entry'[e] = None
             /\ entry[e] # None => entry'[e] = Orphaned(entry[e], p)
  <2>1. entry'[e] = IF entry[e] = None THEN None ELSE Orphaned(entry[e], p)
    BY DEF ProductDropped
  <2>2. CASE entry[e] = None
    BY <2>1, <2>2
  <2>3. CASE entry[e] # None
    <3>1. entry[e] \in Entry
      BY <1>1, <2>3 DEF EntryTables
    <3> QED
      BY <2>1, <2>3, <3>1, OrphanedTaken
  <2> QED
    BY <2>2, <2>3
<1>5. SellsNoMore(entry, entry', s)
  BY <1>4 DEF SellsNoMore
<1> QED
  BY <1>3, <1>4, <1>5

LEMMA DeleteProductLedger ==
  ASSUME LInv, NEW r \in Req, Ready(r), kind[r] = "deleteProduct", CommitProduct(r),
         End(r, "done"), IInv'
  PROVE  LInv'
<1>1. PICK p : ProductDropped(r, p)
  BY ProductCommit
<1>2. IInv /\ Running(r) /\ RecordKnown /\ StockConserved
  BY DEF LInv, Ready, Running
<1>3. /\ kind' = kind /\ \A q \in Req \ {r} : UNCHANGED Mine(q)
      /\ OnRecord \subseteq OnRecord'
      /\ Session(r)' /\ LocksExclusive' /\ SlotsApart'
  BY <1>2, CommitEnds
<1>4. /\ live' = live \ {p} /\ stock' = stock /\ live \subseteq Products
      /\ p \in live => p \in owns[r]
      /\ \A b \in BatchIds : batch'[b] = IF b \in BatchesOf(batch, p) THEN None ELSE batch[b]
      /\ entry \in EntryTables /\ entry' \in EntryTables
      /\ batch \in BatchTables /\ batch' \in BatchTables
  BY <1>1, <1>2 DEF ProductDropped, IInv, TypeOK, EntryTables, BatchTables
<1>5. \A e \in EntryIds :
        /\ entry[e] = None => entry'[e] = None
        /\ entry[e] # None => /\ entry'[e] # None /\ entry'[e].slot = entry[e].slot
                              /\ ProductsOf(entry'[e]) \subseteq ProductsOf(entry[e])
  <2>1. TAKE e \in EntryIds
  <2>2. entry'[e] = IF entry[e] = None THEN None ELSE Orphaned(entry[e], p)
    BY <1>1 DEF ProductDropped
  <2>3. entry[e] # None => entry[e] \in Entry
    BY <1>4 DEF EntryTables
  <2> QED
    BY <2>2, <2>3, OrphanedKept
<1>6. RecordKnown'
  BY <1>2, <1>3, <1>4, <1>5 DEF RecordKnown
<1>7. ASSUME NEW s \in live'
      PROVE  /\ s \in Products /\ s # p /\ s \in live
             /\ BatchesOf(batch', s) = BatchesOf(batch, s)
             /\ \A d \in BatchesOf(batch, s) : batch'[d] = batch[d]
             /\ \A e \in EntryIds : Taken(entry'[e], s) = Taken(entry[e], s)
             /\ SellsNoMore(entry, entry', s)
  <2>1. s \in Products /\ s # p /\ s \in live
    BY <1>4
  <2> QED
    BY <1>1, <2>1, DroppedElsewhere
<1>8. StockConserved'
  <2>1. SUFFICES ASSUME NEW s \in live'
                 PROVE  stock'[s] = Balance(entry', batch', s)
    BY DEF StockConserved
  <2>2. Balance(entry', batch', s) = Bought(batch', s) - AllTaken(entry', s)
        /\ Balance(entry, batch, s) = Bought(batch, s) - AllTaken(entry, s)
    BY <1>4, BalanceIs
  <2>3. Bought(batch', s) = Bought(batch, s)
    <3>1. /\ batch \in BatchTables /\ batch' \in BatchTables
          /\ BatchesOf(batch', s) = BatchesOf(batch, s)
          /\ \A d \in BatchesOf(batch, s) : batch'[d] = batch[d]
      BY <1>4, <1>7
    <3> QED
      BY ONLY <3>1, BoughtElsewhere
  <2>4. AllTaken(entry', s) = AllTaken(entry, s)
    <3>1. \A e \in EntryIds : Taken(entry'[e], s) = Taken(entry[e], s)
      BY <1>7
    <3> QED
      BY ONLY <3>1, TakenSame
  <2> QED
    BY <1>2, <1>4, <1>7, <2>2, <2>3, <2>4 DEF StockConserved
<1>9. ASSUME NEW q \in Req \ {r}
      PROVE  Session(q)'
  <2>1. /\ pc'[q] = pc[q] /\ job'[q] = job[q] /\ todo'[q] = todo[q] /\ view'[q] = view[q]
        /\ owns'[q] = owns[q] /\ shares'[q] = shares[q] /\ locked'[q] = locked[q]
        /\ Session(q)
    BY <1>3 DEF Mine, LInv
  <2>2. owns[q] \cup shares[q] \subseteq live'
    BY <1>2, <1>4, <2>1 DEF IInv, OwnersExclusive, Session, Locking
  <2>3. JobKnown(q)' /\ Locking(q)'
    BY <1>3, <1>4, <2>1, <2>2 DEF Session, JobKnown, Locking
  <2>4. Fresh(q)'
    <3>1. q \in EntryIds /\ q \in BatchIds
      BY DEF EntryIds, BatchIds
    <3>2. entry[q] = None => entry'[q] = None
      BY <1>5, <3>1
    <3>3. batch[q] = None => batch'[q] = None
      BY <1>4, <3>1
    <3> QED
      BY <1>3, <2>1, <3>2, <3>3 DEF Session, Fresh
  <2>5. AtEntry(q) => job[q].id \in EntryIds
    BY <1>2 DEF AtEntry, IInv, JobsFit, Running
  <2>6. Held(q)'
    BY <1>3, <1>5, <2>1, <2>5 DEF Session, Held, AtEntry
  <2>7. SlotFree(q)'
    BY <1>5, <2>1 DEF Session, SlotFree, Writing
  <2>8. Staged(q)'
    <3>1. SUFFICES ASSUME pc[q] = "commit", kind[q] \in PurchaseKinds
                   PROVE  (\E s \in live : StagedFor(q, s, job[q].id, job[q].batch))'
      BY <1>3, <2>1 DEF Staged
    <3>2. PICK s \in live : StagedFor(q, s, job[q].id, job[q].batch)
      BY <2>1, <3>1 DEF Session, Staged
    <3>3. PICK d, w : d = job[q].id /\ w = job[q].batch
      OBVIOUS
    <3>4. /\ StagedFor(q, s, d, w) /\ d \in BatchIds
          /\ (batch[d] # None => batch[d].product = s) /\ s \in live'
      BY <2>2, <3>2, <3>3 DEF StagedFor
    <3>5. batch'[d] = batch[d] /\ stock'[s] = stock[s]
      BY <1>4, <1>7, <3>4 DEF BatchesOf
    <3>6. w \in Batch \cup {None} /\ s \in Products
      BY <1>2, <3>1, <3>3 DEF IInv, JobsFit, Running, Job, TypeOK
    <3>7. /\ SellsNoMore(entry, entry', s) /\ BatchesOf(batch', s) = BatchesOf(batch, s)
          /\ \A x \in BatchesOf(batch, s) : batch'[x] = batch[x]
      BY <1>7, <3>4
    <3>8. StagedFor(q, s, d, w)'
      BY <1>4, <2>1, <3>4, <3>5, <3>6, <3>7, StagedStays
    <3> QED
      BY <2>1, <3>3, <3>4, <3>8
  <2>9. Moved(q)'
    <3>1. ASSUME NEW s \in live', AtEntry(q)
          PROVE  (Seen(q, s) = stock[s] + Taken(entry[job[q].id], s) - Owed(q, s))'
      <4>1. s \in live /\ Taken(entry'[job[q].id], s) = Taken(entry[job[q].id], s)
        BY <1>7, <2>5, <3>1
      <4> QED
        BY <1>2, <1>4, <2>1, <3>1, <4>1, MovedStays DEF Session
    <3> QED
      BY <1>3, <2>1, <3>1 DEF Moved, AtEntry
  <2> QED
    BY <2>3, <2>4, <2>6, <2>7, <2>8, <2>9 DEF Session
<1> QED
  BY <1>3, <1>6, <1>8, <1>9 DEF LInv

LEMMA CommitLedger ==
  ASSUME LInv, DeletesAlone, NEW r \in Req, Commit(r)
  PROVE  LInv'
<1>1. IInv' /\ Ready(r) /\ End(r, "done")
  BY CommitKeeps DEF LInv, Commit
<1>2. CASE CommitEntry(r)
  BY <1>1, <1>2, CommitEntryLedger
<1>3. CASE CommitPurchase(r)
  BY <1>1, <1>3, CommitPurchaseLedger
<1>4. CASE CommitProduct(r) /\ kind[r] = "createProduct"
  BY <1>1, <1>4, CreateProductLedger
<1>5. CASE CommitProduct(r) /\ kind[r] = "deleteProduct"
  BY <1>1, <1>5, DeleteProductLedger
<1> QED
  BY <1>2, <1>3, <1>4, <1>5 DEF Commit, CommitProduct

-----------------------------------------------------------------------------
(***************************************************************************)
(* The running totals agree with the record                                *)
(***************************************************************************)
LEMMA InitLInv ==
  ASSUME Init
  PROVE  LInv
<1>1. PICK d \in Databases : live = d.live /\ stock = d.stock /\ entry = d.entry /\ batch = d.batch
  BY DEF Init
<1>2. /\ live \subseteq Catalog
      /\ \A r \in Req : entry[r] = None /\ batch[r] = None
      /\ \A e \in EntryIds : entry[e] # None =>
           \A i \in DOMAIN entry[e].rows : entry[e].rows[i].product \in live \cup {None}
      /\ \A b \in BatchIds : batch[b] # None => batch[b].product \in live
      /\ \A p \in live : stock[p] = Balance(entry, batch, p)
  BY <1>1, DatabasesTyped, DatabasesSound
<1>3. /\ pc = [r \in Req |-> "idle"] /\ todo = [r \in Req |-> <<>>]
      /\ owns = [r \in Req |-> {}] /\ shares = [r \in Req |-> {}] /\ locked = [r \in Req |-> {}]
  BY DEF Init
<1>4. RecordKnown
  BY <1>2 DEF RecordKnown, OnRecord, ProductsOf
<1>5. LocksExclusive /\ SlotsApart /\ StockConserved
  BY <1>2, <1>3 DEF LocksExclusive, SlotsApart, Writing, StockConserved
<1>6. ASSUME NEW r \in Req
      PROVE  Session(r)
  BY <1>2, <1>3, EmptySeq
  DEF Session, JobKnown, Fresh, Held, Locking, Staged, Moved, SlotFree, AtEntry, Writing
<1> QED
  BY <1>4, <1>5, <1>6, InitIInv DEF LInv

LEMMA NextLInv ==
  ASSUME LInv, DeletesAlone, [Next]_vars
  PROVE  LInv'
<1>1. CASE UNCHANGED vars
  <2>1. IInv'
    BY NextIInv DEF LInv
  <2>2. OnRecord' = OnRecord /\ UNCHANGED <<committed, kind>>
    BY <1>1 DEF OnRecord, vars
  <2>3. \A q \in Req : Session(q)'
    <3>1. \A q \in Req : UNCHANGED Mine(q)
      BY <1>1 DEF Mine, vars, locks
    <3> QED
      BY <2>2, <3>1, OthersKeep
  <2>4. RecordKnown' /\ LocksExclusive' /\ SlotsApart' /\ StockConserved'
    BY <1>1, <2>2 DEF LInv, RecordKnown, LocksExclusive, SlotsApart, StockConserved, Writing,
                      vars, committed, locks
  <2> QED
    BY <2>1, <2>3, <2>4 DEF LInv
<1>2. ASSUME NEW r \in Req, Arrive(r)
      PROVE  LInv'
  BY <1>2, ArriveLedger
<1>3. ASSUME NEW r \in Req, Proceed(r)
      PROVE  LInv'
  BY <1>3, LockEntryLedger, AdjustStockLedger, WriteEntryLedger, WriteRowsLedger,
     RemoveEntryLedger, EditPurchaseLedger, DropProductLedger, CommitLedger
  DEF Proceed
<1>4. ASSUME NEW r \in Req, DetectDeadlock(r) \/ Abort(r)
      PROVE  LInv'
  BY <1>4, InCycleRuns, RejectLedger DEF DetectDeadlock, Abort
<1> QED
  BY <1>1, <1>2, <1>3, <1>4 DEF Next, Quiet

\* As long as deletes come alone, the sessions keep what they rely on.
THEOREM LedgerInvariance == Spec /\ []DeletesAlone => []LInv
<1>1. Init => LInv
  BY InitLInv
<1>2. LInv /\ DeletesAlone /\ [Next]_vars => LInv'
  BY NextLInv
<1> QED
  BY <1>1, <1>2, PTL DEF Spec

(***************************************************************************)
(* As long as nobody saves or deletes an entry that is being deleted, the  *)
(* running total of every product is what was bought less what the final   *)
(* pump 2 entries sold, however requests interleave and wherever they are  *)
(* cut off: _apply_oil_stock, _restore_oil_stock and the purchase edits    *)
(* lose and repeat nothing.                                                *)
(***************************************************************************)
THEOREM StockConservedHolds == Spec /\ []DeletesAlone => []StockConserved
<1>1. LInv => StockConserved
  BY DEF LInv
<1> QED
  BY <1>1, LedgerInvariance, PTL

-----------------------------------------------------------------------------
(***************************************************************************)
(* The steps, as steps of the ledger                                       *)
(***************************************************************************)
\* Nothing but a commit makes a request done, or changes what is on record.
LEMMA OnlyCommits ==
  ASSUME IInv, [Next]_vars
  PROVE  \/ UNCHANGED committed /\ \A q \in Req : pc'[q] = "done" => pc[q] = "done"
         \/ \E r \in Req : /\ Commit(r)
                           /\ \A q \in Req : pc'[q] = "done" => q = r \/ pc[q] = "done"
<1> DEFINE Unfinished == UNCHANGED committed /\ \A q \in Req : pc'[q] = "done" => pc[q] = "done"
<1>1. ASSUME NEW r \in Req, NEW at, at # "done", pc' = [pc EXCEPT ![r] = at]
      PROVE  \A q \in Req : pc'[q] = "done" => pc[q] = "done"
  BY <1>1 DEF IInv, TypeOK
<1>2. ASSUME UNCHANGED pc
      PROVE  \A q \in Req : pc'[q] = "done" => pc[q] = "done"
  BY <1>2
<1>3. CASE UNCHANGED vars
  BY <1>2, <1>3 DEF vars
<1>4. ASSUME NEW r \in Req, Reject(r)
      PROVE  Unfinished
  BY <1>1, <1>4 DEF Reject, End
<1>5. ASSUME NEW r \in Req, Arrive(r)
      PROVE  Unfinished
  BY <1>1, <1>5 DEF Arrive, CreateEntry, UpdateEntry, DeleteEntry, AddPurchase, UpdatePurchase,
                    DeletePurchase, CreateProduct, DeleteProduct, Begin, Goto
<1>6. ASSUME NEW r \in Req, LockEntry(r) \/ AdjustStock(r) \/ WriteEntry(r)
      PROVE  Unfinished
  BY <1>1, <1>2, <1>4, <1>6 DEF LockEntry, AdjustStock, WriteEntry, Goto
<1>7. ASSUME NEW r \in Req, WriteRows(r) \/ RemoveEntry(r) \/ DropProduct(r)
      PROVE  Unfinished
  BY <1>1, <1>4, <1>7 DEF WriteRows, RemoveEntry, DropProduct, Goto
<1>8. ASSUME NEW r \in Req, EditPurchase(r)
      PROVE  Unfinished
  BY <1>1, <1>4, <1>8 DEF EditPurchase, Goto
<1>9. ASSUME NEW r \in Req, Commit(r)
      PROVE  \A q \in Req : pc'[q] = "done" => q = r \/ pc[q] = "done"
  BY <1>9 DEF Commit, End, IInv, TypeOK
<1> QED
  BY <1>3, <1>4, <1>5, <1>6, <1>7, <1>8, <1>9 DEF Next, Quiet, Proceed, DetectDeadlock, Abort

\* The foreign keys of oil rows and of purchases.
KeysHold ==
  /\ \A e \in EntryIds : entry[e] # None => ProductsOf(entry[e]) \subseteq live
  /\ \A b \in BatchIds : batch[b] # None => batch[b].product \in live

LEMMA NextKeysHold ==
  ASSUME LInv, KeysHold, [Next]_vars
  PROVE  KeysHold'
<1>1. IInv
  BY DEF LInv
<1>2. CASE UNCHANGED committed
  BY <1>2 DEF KeysHold, committed
<1>3. ASSUME NEW r \in Req, Ready(r), CommitEntry(r)
      PROVE  KeysHold'
  <2>1. PICK e, new : EntryCommitted(r, e, new)
    BY <1>3, EntryCommit
  <2>2. /\ live' = live /\ batch' = batch
        /\ \A f \in EntryIds : entry'[f] = IF f = e THEN new ELSE entry[f]
    BY <1>1, <2>1 DEF EntryCommitted, IInv, TypeOK
  <2>3. new # None => ProductsOf(new) \subseteq live
    BY <2>1 DEF EntryCommitted
  <2> QED
    BY <2>2, <2>3 DEF KeysHold
<1>4. ASSUME NEW r \in Req, Ready(r), CommitPurchase(r)
      PROVE  KeysHold'
  <2>1. PICK p, b, new : PurchaseCommitted(r, p, b, new)
    BY <1>4, PurchaseCommit
  <2>2. /\ live' = live /\ entry' = entry /\ p \in live
        /\ \A d \in BatchIds : batch'[d] = IF d = b THEN new ELSE batch[d]
        /\ new # None => new.product = p
    BY <1>1, <2>1 DEF PurchaseCommitted, StagedFor, IInv, TypeOK
  <2> QED
    BY <2>2 DEF KeysHold
<1>5. ASSUME NEW r \in Req, Ready(r), kind[r] = "createProduct", CommitProduct(r)
      PROVE  KeysHold'
  <2>1. job[r].batch.product = r
    BY <1>5 DEF LInv, Session, Fresh, Ready, IInv, JobsFit, Running, EntryKinds
  <2>2. /\ live' = live \cup {r} /\ entry' = entry
        /\ \A d \in BatchIds : batch'[d] = IF d = r THEN job[r].batch ELSE batch[d]
    BY <1>1, <1>5 DEF CommitProduct, IInv, TypeOK
  <2> QED
    BY <2>1, <2>2 DEF KeysHold
<1>6. ASSUME NEW r \in Req, Ready(r), kind[r] = "deleteProduct", CommitProduct(r)
      PROVE  KeysHold'
  <2>1. PICK p : ProductDropped(r, p)
    BY <1>6, ProductCommit
  <2>2. /\ live' = live \ {p}
        /\ \A b \in BatchIds : batch'[b] = IF b \in BatchesOf(batch, p) THEN None ELSE batch[b]
        /\ \A e \in EntryIds : entry'[e] = IF entry[e] = None THEN None ELSE Orphaned(entry[e], p)
    BY <2>1 DEF ProductDropped
  <2>3. ASSUME NEW e \in EntryIds, entry'[e] # None
        PROVE  ProductsOf(entry'[e]) \subseteq live'
    <3>1. entry[e] \in Entry /\ entry[e] # None /\ entry'[e] = Orphaned(entry[e], p)
      BY <1>1, <2>2, <2>3 DEF IInv, TypeOK
    <3>2. ProductsOf(entry'[e]) \subseteq ProductsOf(entry[e]) \ {p}
      BY <3>1, OrphanedKept
    <3> QED
      BY <2>2, <3>1, <3>2 DEF KeysHold
  <2>4. ASSUME NEW b \in BatchIds, batch'[b] # None
        PROVE  batch'[b].product \in live'
    BY <2>2, <2>4 DEF KeysHold, BatchesOf
  <2> QED
    BY <2>3, <2>4 DEF KeysHold
<1> QED
  BY <1>1, <1>2, <1>3, <1>4, <1>5, <1>6, OnlyCommits DEF Commit, CommitProduct

\* The operators of the ledger, instantiated, are those of the records.
LEMMA LedgerRecords ==
  /\ Ledger!EntryIds = EntryIds /\ Ledger!BatchIds = BatchIds /\ Ledger!Products = Products
  /\ \A s, p : Ledger!BatchesOf(s, p) = BatchesOf(s, p)
  /\ \A s, p : Ledger!Bought(s, p) = Bought(s, p)
  /\ \A s, p, c : Ledger!BoughtAt(s, p, c) = BoughtAt(s, p, c)
  /\ \A s, p, c : Ledger!SoldAt(s, p, c) = SoldAt(s, p, c)
  /\ \A e, p : Ledger!Taken(e, p) = Taken(e, p)
  /\ \A e, p : Ledger!Orphaned(e, p) = Orphaned(e, p)
  /\ \A s, t, p : Ledger!Balance(s, t, p) = Balance(s, t, p)
<1> USE DEF MapThenSumSet, MapThenFoldSet, Ledger!MapThenSumSet, Ledger!MapThenFoldSet
<1>1. /\ Ledger!EntryIds = EntryIds /\ Ledger!BatchIds = BatchIds /\ Ledger!Products = Products
      /\ \A s, p : Ledger!BatchesOf(s, p) = BatchesOf(s, p)
  BY DEF Ledger!EntryIds, EntryIds, Ledger!BatchIds, BatchIds, Ledger!Products, Products,
         Ledger!BatchesOf, BatchesOf
<1>2. ASSUME NEW s, NEW p
      PROVE  Ledger!Bought(s, p) = Bought(s, p)
  BY <1>1, Zenon DEF Ledger!Bought, Bought
<1>3. ASSUME NEW s, NEW p, NEW c
      PROVE  Ledger!BoughtAt(s, p, c) = BoughtAt(s, p, c)
  BY <1>1, Zenon DEF Ledger!BoughtAt, BoughtAt
<1>4. ASSUME NEW s, NEW p, NEW c
      PROVE  Ledger!SoldAt(s, p, c) = SoldAt(s, p, c)
  <2>1. Ledger!FinalRowsAt(s, p, c) = FinalRowsAt(s, p, c)
    BY <1>1, Zenon DEF Ledger!FinalRowsAt, FinalRowsAt, Ledger!RowsOf, RowsOf
  <2> QED
    BY <2>1, Zenon DEF Ledger!SoldAt, SoldAt
<1>5. ASSUME NEW e, NEW p
      PROVE  Ledger!Taken(e, p) = Taken(e, p)
  BY Zenon DEF Ledger!Taken, Taken, Ledger!MovesStock, MovesStock, Ledger!RowsOf, RowsOf
<1>6. ASSUME NEW e, NEW p
      PROVE  Ledger!Orphaned(e, p) = Orphaned(e, p)
  BY DEF Ledger!Orphaned, Orphaned
<1>7. ASSUME NEW s, NEW t, NEW p
      PROVE  Ledger!Balance(s, t, p) = Balance(s, t, p)
  <2>1. Ledger!Bought(t, p) = Bought(t, p)
    BY <1>2
  <2> QED
    BY <1>1, <2>1, Zenon
    DEF Ledger!Balance, Balance, Ledger!Taken, Taken, Ledger!MovesStock, MovesStock,
        Ledger!RowsOf, RowsOf
<1> QED
  BY <1>1, <1>2, <1>3, <1>4, <1>5, <1>6, <1>7

\* A fuel entry saved.
LEMMA SaveIsStep ==
  ASSUME LInv, LInv', NEW r \in Req, NEW e, NEW new, EntryCommitted(r, e, new), new # None
  PROVE  Ledger!SaveEntry(e)
<1>1. /\ e \in EntryIds /\ new \in Entry /\ e = job[r].id /\ new = job[r].entry
      /\ live' = live /\ batch' = batch
      /\ kind[r] \in EntryKinds /\ Writing(r) /\ ProductsOf(new) \subseteq live
      /\ entry'[e] = new /\ \A f \in EntryIds \ {e} : entry'[f] = entry[f]
      /\ \A p \in live : stock'[p] = stock[p] + Taken(entry[e], p) - Taken(new, p)
  BY DEF EntryCommitted, LInv, IInv, TypeOK
<1>2. \A f \in EntryIds \ {e} : entry[f] # None => entry[f].slot # new.slot
  BY <1>1 DEF LInv, Session, SlotFree
<1>3. \A i \in DOMAIN new.rows : new.rows[i].product \in live \cup {None}
  BY <1>1 DEF ProductsOf
<1>4. \A p \in live : stock'[p] >= 0
  BY <1>1 DEF LInv, IInv, StockNonNegative
<1> QED
  BY <1>1, <1>2, <1>3, <1>4, LedgerRecords DEF Ledger!SaveEntry, Ledger!OnlyEntry

\* A fuel entry deleted.
LEMMA RemoveIsStep ==
  ASSUME LInv, NEW r \in Req, NEW e, EntryCommitted(r, e, None)
  PROVE  Ledger!RemoveEntry(e)
<1>1. /\ e \in EntryIds /\ live' = live /\ batch' = batch
      /\ kind[r] \in EntryKinds \cup {"deleteEntry"}
      /\ kind[r] \in EntryKinds => None \in Entry
      /\ entry'[e] = None /\ \A f \in EntryIds \ {e} : entry'[f] = entry[f]
      /\ \A p \in live : stock'[p] = stock[p] + Taken(entry[e], p) - Taken(None, p)
  BY DEF EntryCommitted, LInv, IInv, TypeOK
<1>2. entry[e] # None
  BY <1>1, NoneIsNoRow DEF EntryCommitted
<1>3. \A p \in live : stock'[p] = stock[p] + Taken(entry[e], p)
  <2>1. TAKE p \in live
  <2>2. Taken(None, p) = 0 /\ Taken(entry[e], p) \in Nat /\ stock[p] \in Int
    BY <1>1, TakenNat DEF Taken, LInv, IInv, TypeOK
  <2> QED
    BY <1>1, <2>2
<1> QED
  BY <1>1, <1>2, <1>3, LedgerRecords DEF Ledger!RemoveEntry, Ledger!OnlyEntry

(***************************************************************************)
(* The purchases after a commit cover what was sold: the guard looked at   *)
(* the purchases of the product that the commit finds, and at no fewer     *)
(* sales.                                                                  *)
(***************************************************************************)
LEMMA CoverStays ==
  ASSUME LInv, NEW r \in Req, NEW p, NEW b, NEW new, PurchaseCommitted(r, p, b, new),
         NEW q \in live
  PROVE  Ledger!StaysCovered(q)
<1>1. /\ b \in BatchIds /\ batch' = [batch EXCEPT ![b] = new] /\ entry' = entry
      /\ batch \in BatchTables /\ batch' \in BatchTables
      /\ StagedFor(r, p, b, new)
      /\ batch[b] # None => batch[b].product = p
      /\ new # None => new.product = p
      /\ \A d \in BatchIds : batch'[d] = IF d = b THEN new ELSE batch[d]
  BY DEF PurchaseCommitted, StagedFor, LInv, IInv, TypeOK, BatchTables
<1>2. CASE q = p
  <2>1. Covered(batch', p)
    BY <1>1 DEF StagedFor
  <2> QED
    BY <1>2, <2>1, LedgerRecords DEF Covered, Ledger!StaysCovered
<1>3. CASE q # p
  <2>1. /\ batch \in BatchTables /\ batch' \in BatchTables
        /\ BatchesOf(batch', q) = BatchesOf(batch, q)
        /\ \A d \in BatchesOf(batch, q) : batch'[d] = batch[d]
    BY <1>1, <1>3 DEF BatchesOf
  <2>2. \A c : BoughtAt(batch', q, c) = BoughtAt(batch, q, c)
    BY ONLY <2>1, BoughtElsewhere
  <2>3. \A c : BoughtAt(batch, q, c) \in Nat
    BY <1>1, BoughtAtIsSum
  <2>4. \A c : ~ (BoughtAt(batch', q, c) < BoughtAt(batch, q, c))
    BY <2>2, <2>3
  <2> QED
    BY <2>4, LedgerRecords DEF Ledger!StaysCovered
<1> QED
  BY <1>2, <1>3

\* A purchase recorded, corrected or deleted.
LEMMA EditIsStep ==
  ASSUME LInv, LInv', NEW r \in Req, NEW p, NEW b, NEW new, PurchaseCommitted(r, p, b, new)
  PROVE  b \in BatchIds /\ Ledger!EditBatch(b)
<1>1. /\ b \in BatchIds /\ live' = live /\ entry' = entry
      /\ \A d \in BatchIds \ {b} : batch'[d] = batch[d]
      /\ entry \in EntryTables /\ batch \in BatchTables /\ batch' \in BatchTables
  BY DEF PurchaseCommitted, LInv, IInv, TypeOK, EntryTables, BatchTables
<1>2. ASSUME NEW q \in live
      PROVE  stock'[q] = stock[q] + Bought(batch', q) - Bought(batch, q) /\ stock'[q] >= 0
  <2>1. stock[q] = Balance(entry, batch, q)
    BY DEF LInv, StockConserved
  <2>2. stock'[q] = Balance(entry, batch', q) /\ stock'[q] >= 0
    BY <1>1 DEF LInv, StockConserved, IInv, StockNonNegative
  <2>3. /\ Balance(entry, batch, q) = Bought(batch, q) - AllTaken(entry, q)
        /\ Balance(entry, batch', q) = Bought(batch', q) - AllTaken(entry, q)
        /\ AllTaken(entry, q) \in Nat
    BY <1>1, BalanceIs
  <2>4. Bought(batch, q) \in Nat /\ Bought(batch', q) \in Nat
    BY <1>1, BoughtIsSum
  <2> QED
    BY <2>1, <2>2, <2>3, <2>4
<1>3. \A q \in live : Ledger!StaysCovered(q)
  BY CoverStays
<1> QED
  BY <1>1, <1>2, <1>3, LedgerRecords DEF Ledger!EditBatch

\* A product created.
LEMMA AddIsStep ==
  ASSUME LInv, LInv', NEW r \in Req, Ready(r), kind[r] = "createProduct", CommitProduct(r)
  PROVE  r \in Products /\ Ledger!AddProduct(r)
<1> DEFINE new == job[r].batch
<1>1. /\ IInv /\ Running(r) /\ Session(r) /\ pc[r] = "commit"
  BY DEF LInv, Ready, Running, IInv, JobsFit, EntryKinds
<1>2. /\ new \in Batch /\ new.product = r /\ new.qty \in Nat
      /\ r \in Products /\ r \in BatchIds /\ batch[r] = None /\ r \notin live /\ r \notin OnRecord
  <2>1. new \in Batch /\ new.product = r /\ batch[r] = None
    BY <1>1 DEF IInv, JobsFit, Session, Fresh
  <2>2. r \notin live
    BY <1>1 DEF IInv, ProductsFresh
  <2>3. r \notin OnRecord
    BY <1>1, IdsAreDistinct DEF OnRecord
  <2> QED
    BY <2>1, <2>2, <2>3 DEF Batch, Products, BatchIds
<1>3. /\ live' = live \cup {r} /\ entry' = entry
      /\ \A d \in BatchIds : batch'[d] = IF d = r THEN new ELSE batch[d]
      /\ \A p \in live : stock'[p] = stock[p]
      /\ entry \in EntryTables /\ batch' \in BatchTables
  <2>1. batch' \in BatchTables
    BY DEF LInv, IInv, TypeOK, BatchTables
  <2> QED
    BY <1>1, <1>2, <2>1 DEF CommitProduct, IInv, TypeOK, EntryTables
<1>4. \A q \in live : BatchesOf(batch', q) = BatchesOf(batch, q)
  BY <1>2, <1>3 DEF BatchesOf
<1>5. stock'[r] = Bought(batch', r)
  <2>1. stock'[r] = Balance(entry, batch', r)
    BY <1>3 DEF LInv, StockConserved
  <2>2. Balance(entry, batch', r) = Bought(batch', r) - AllTaken(entry, r)
    BY <1>3, BalanceIs
  <2>3. AllTaken(entry, r) = 0
    BY <1>2, NeverSold
  <2>4. Bought(batch', r) \in Nat
    BY <1>3, BoughtIsSum
  <2> QED
    BY <2>1, <2>2, <2>3, <2>4
<1> QED
  BY <1>2, <1>3, <1>4, <1>5, LedgerRecords DEF Ledger!AddProduct

\* An entry that names no row of p loses nothing with it.
LEMMA OrphanedNothing ==
  ASSUME NEW e \in Entry, NEW p \in Products, p \notin ProductsOf(e)
  PROVE  Orphaned(e, p) = e
<1> DEFINE rs == [i \in DOMAIN e.rows |->
                    IF e.rows[i].product = p THEN [e.rows[i] EXCEPT !.product = None]
                                             ELSE e.rows[i]]
<1>1. Orphaned(e, p) = [e EXCEPT !.rows = rs]
  BY DEF Orphaned
<1>2. p # None
  BY IdsAreDistinct DEF Products
<1>3. \A i \in DOMAIN e.rows : e.rows[i].product # p
  BY <1>2 DEF ProductsOf
<1>4. e.rows \in Seq(Row)
  BY DEF Entry
<1>5. e.rows = [i \in DOMAIN e.rows |-> e.rows[i]]
  BY <1>4, LenProperties
<1>6. rs = e.rows
  BY <1>3, <1>5
<1> HIDE DEF rs
<1> QED
  BY <1>1, <1>6 DEF Entry

\* A product deleted, or one that is already gone.
LEMMA DropIsStep ==
  ASSUME LInv, KeysHold, NEW r \in Req, NEW p, ProductDropped(r, p)
  PROVE  UNCHANGED committed \/ (p \in Products /\ Ledger!RemoveProduct(p))
<1>1. /\ p \in Products /\ live' = live \ {p} /\ stock' = stock
      /\ batch' = [b \in BatchIds |-> IF b \in BatchesOf(batch, p) THEN None ELSE batch[b]]
      /\ entry' = [e \in EntryIds |-> IF entry[e] = None THEN None ELSE Orphaned(entry[e], p)]
      /\ entry \in EntryTables /\ batch \in BatchTables
  BY DEF ProductDropped, LInv, IInv, TypeOK, EntryTables, BatchTables
<1>2. CASE p \in live
  <2>1. \A q \in live' : stock'[q] = stock[q]
    BY <1>1
  <2>2. batch' = [b \in Ledger!BatchIds |->
                    IF b \in Ledger!BatchesOf(batch, p) THEN None ELSE batch[b]]
    BY <1>1, LedgerRecords
  <2>3. entry' = [e \in Ledger!EntryIds |->
                    IF entry[e] = None THEN None ELSE Ledger!Orphaned(entry[e], p)]
    BY <1>1, LedgerRecords
  <2> QED
    BY <1>1, <1>2, <2>1, <2>2, <2>3 DEF Ledger!RemoveProduct
<1>3. CASE p \notin live
  <2>1. live' = live
    BY <1>1, <1>3
  <2>2. BatchesOf(batch, p) = {}
    BY <1>3 DEF KeysHold, BatchesOf
  <2>3. batch' = batch
    BY <1>1, <2>2 DEF BatchTables
  <2>4. \A e \in EntryIds : entry[e] # None => Orphaned(entry[e], p) = entry[e]
    <3>1. TAKE e \in EntryIds
    <3>2. HAVE entry[e] # None
    <3>3. entry[e] \in Entry /\ p \notin ProductsOf(entry[e])
      BY <1>1, <1>3, <3>2 DEF KeysHold, EntryTables
    <3> QED
      BY <1>1, <3>3, OrphanedNothing
  <2>5. \A e \in EntryIds : entry'[e] = entry[e]
    BY <1>1, <2>4
  <2>6. entry' = entry
    BY <1>1, <2>5 DEF EntryTables
  <2> QED
    BY <1>1, <2>1, <2>3, <2>6 DEF committed
<1> QED
  BY <1>2, <1>3

LEMMA StepOfLedger ==
  ASSUME LInv, LInv', KeysHold, [Next]_vars
  PROVE  [Ledger!Next]_(Ledger!vars)
<1>1. CASE UNCHANGED committed
  BY <1>1 DEF committed, Ledger!vars
<1>2. ASSUME NEW r \in Req, Commit(r)
      PROVE  Ledger!Next \/ UNCHANGED committed
  <2>1. Ready(r)
    BY <1>2 DEF Commit
  <2>2. CASE CommitEntry(r)
    <3>1. PICK e, new : EntryCommitted(r, e, new)
      BY <2>1, <2>2, EntryCommit
    <3>2. e \in Ledger!EntryIds
      BY <3>1, LedgerRecords DEF EntryCommitted
    <3> QED
      BY <3>1, <3>2, SaveIsStep, RemoveIsStep DEF Ledger!Next
  <2>3. CASE CommitPurchase(r)
    <3>1. PICK p, b, new : PurchaseCommitted(r, p, b, new)
      BY <2>1, <2>3, PurchaseCommit
    <3>2. b \in Ledger!BatchIds /\ Ledger!EditBatch(b)
      BY <3>1, EditIsStep, LedgerRecords
    <3> QED
      BY <3>2 DEF Ledger!Next
  <2>4. CASE CommitProduct(r) /\ kind[r] = "createProduct"
    <3>1. r \in Ledger!Products /\ Ledger!AddProduct(r)
      BY <2>1, <2>4, AddIsStep, LedgerRecords
    <3> QED
      BY <3>1 DEF Ledger!Next
  <2>5. CASE CommitProduct(r) /\ kind[r] = "deleteProduct"
    <3>1. PICK p : ProductDropped(r, p)
      BY <2>1, <2>5, ProductCommit
    <3>2. UNCHANGED committed \/ (p \in Ledger!Products /\ Ledger!RemoveProduct(p))
      BY <3>1, DropIsStep, LedgerRecords
    <3> QED
      BY <3>2 DEF Ledger!Next
  <2> QED
    BY <1>2, <2>2, <2>3, <2>4, <2>5 DEF Commit, CommitProduct
<1> QED
  BY <1>1, <1>2, OnlyCommits DEF LInv

LEMMA InitOfLedger ==
  ASSUME Init
  PROVE  Ledger!Init /\ KeysHold
<1>1. PICK d \in Databases : live = d.live /\ stock = d.stock /\ entry = d.entry /\ batch = d.batch
  BY DEF Init
<1>2. live \subseteq Catalog /\ \A p \in live : stock[p] >= 0
  BY <1>1, DatabasesTyped
<1>3. \A p \in live : stock[p] = Balance(entry, batch, p)
  BY <1>1, DatabasesSound
<1>4. KeysHold
  BY <1>1, DatabasesSound DEF KeysHold, ProductsOf
<1> QED
  BY <1>2, <1>3, <1>4, LedgerRecords DEF Ledger!Init

(***************************************************************************)
(* The transactions implement the ledger: as long as deletes of entries    *)
(* come alone, every commit of an interleaved request is one step of       *)
(* StockLedger on the rows as they then are, and everything else leaves    *)
(* them alone.                                                             *)
(***************************************************************************)
THEOREM ImplementsLedgerHolds == Spec /\ []DeletesAlone => ImplementsLedger
<1>1. Init => Ledger!Init /\ KeysHold
  BY InitOfLedger
<1>2. LInv /\ KeysHold /\ [Next]_vars => KeysHold'
  BY NextKeysHold
<1>3. LInv /\ LInv' /\ KeysHold /\ [Next]_vars => [Ledger!Next]_(Ledger!vars)
  BY StepOfLedger
<1> QED
  BY <1>1, <1>2, <1>3, LedgerInvariance, PTL DEF Spec, ImplementsLedger, Ledger!Spec

(***************************************************************************)
(* No committed change to the purchases of a product leaves less bought at *)
(* a cost than the final entries sold at it: _guard_qty_reduction and the  *)
(* checks of update_purchase and delete_purchase, made under the           *)
(* product's lock, still hold at the commit.                               *)
(***************************************************************************)
THEOREM EditsStayCoveredHolds == Spec /\ []DeletesAlone => EditsStayCovered
<1> DEFINE Edits == \E r \in Req : kind[r] \in {"addPurchase", "updatePurchase", "deletePurchase"}
                                   /\ pc[r] = "commit" /\ pc'[r] = "done"
           Stay == \A p \in live : Ledger!StaysCovered(p)
<1>1. LInv /\ [Next]_vars /\ Edits => Stay
  <2>1. SUFFICES ASSUME LInv, [Next]_vars,
                        NEW r \in Req, kind[r] \in PurchaseKinds, pc[r] = "commit", pc'[r] = "done"
                 PROVE  Stay
    BY DEF PurchaseKinds
  <2>2. Commit(r)
    BY <2>1, OnlyCommits DEF LInv
  <2>3. CommitPurchase(r) /\ Ready(r)
    BY <2>1, <2>2 DEF Commit, CommitEntry, CommitProduct, PurchaseKinds
  <2>4. PICK p, b, new : PurchaseCommitted(r, p, b, new)
    BY <2>1, <2>3, PurchaseCommit
  <2> QED
    BY <2>1, <2>4, CoverStays
<1>2. LInv /\ [Next]_vars => [Edits => Stay]_vars
  BY <1>1
<1> QED
  BY <1>2, LedgerInvariance, PTL DEF Spec, EditsStayCovered
-----------------------------------------------------------------------------
(***************************************************************************)
(* Deletes come alone if no request that could ask for the same entry      *)
(* arrives with one: an entry that another request creates is not on       *)
(* record for a delete to find.                                            *)
(***************************************************************************)
LoneDeletes ==
  \A l \in Loads : \A r, q \in Req :
    r # q /\ l[r] = "deleteEntry" => l[q] \notin {"updateEntry", "deleteEntry"}

LEMMA LoneDeletesSuffice ==
  ASSUME LoneDeletes, kind \in Loads, LInv
  PROVE  DeletesAlone
<1>1. SUFFICES ASSUME NEW r \in Req, NEW q \in Req, r # q, kind[r] = "deleteEntry",
                      AtEntry(r), AtEntry(q)
               PROVE  job[q].id # job[r].id
  BY DEF DeletesAlone
<1>2. kind[q] = "createEntry"
  BY <1>1 DEF LoneDeletes, AtEntry, EntryKinds
<1>3. Session(r) /\ Session(q)
  BY DEF LInv
<1>4. job[q].id = q /\ entry[q] = None
  BY <1>1, <1>2, <1>3 DEF Session, Held, Fresh, AtEntry
<1>5. entry[job[r].id] # None
  BY <1>1, <1>3 DEF Session, Held
<1> QED
  BY <1>4, <1>5

LEMMA KindStays ==
  ASSUME [Next]_vars
  PROVE  kind' = kind
<1> USE DEF Goto, Reject, End
<1>1. CASE UNCHANGED vars
  BY <1>1 DEF vars
<1>2. ASSUME NEW r \in Req, Arrive(r)
      PROVE  kind' = kind
  BY <1>2 DEF Arrive, CreateEntry, UpdateEntry, DeleteEntry, AddPurchase, UpdatePurchase,
              DeletePurchase, CreateProduct, DeleteProduct, Begin
<1>3. ASSUME NEW r \in Req, Proceed(r)
      PROVE  kind' = kind
  BY <1>3 DEF Proceed, LockEntry, AdjustStock, WriteEntry, WriteRows, RemoveEntry, EditPurchase,
              DropProduct, Commit
<1>4. ASSUME NEW r \in Req, DetectDeadlock(r) \/ Abort(r)
      PROVE  kind' = kind
  BY <1>4 DEF DetectDeadlock, Abort
<1> QED
  BY <1>1, <1>2, <1>3, <1>4 DEF Next, Quiet

(***************************************************************************)
(* Without any hypothesis on the states: where a delete of an entry meets  *)
(* no other update or delete of an entry, as in the loads of               *)
(* MCFuelEntryStock, the running totals agree with the record, the edits   *)
(* stay covered and the transactions implement the ledger.                 *)
(***************************************************************************)
THEOREM LoneDeletesAreSafe ==
  ASSUME LoneDeletes
  PROVE  Spec => []StockConserved /\ EditsStayCovered /\ ImplementsLedger
<1>1. Init => LInv /\ kind \in Loads
  BY InitLInv DEF Init
<1>2. (LInv /\ kind \in Loads) /\ [Next]_vars => (LInv /\ kind \in Loads)'
  BY LoneDeletesSuffice, NextLInv, KindStays
<1>3. LInv /\ kind \in Loads => DeletesAlone
  BY LoneDeletesSuffice
<1>4. Spec => []DeletesAlone
  BY <1>1, <1>2, <1>3, PTL DEF Spec
<1> QED
  BY <1>4, StockConservedHolds, EditsStayCoveredHolds, ImplementsLedgerHolds, PTL
=============================================================================
