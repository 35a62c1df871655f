------------------------ MODULE DashboardCache_proofs ------------------------
(***************************************************************************)
(* Proofs that the tables of DashboardCache keep their shape and that a    *)
(* summary stored in a quiet moment is right for as long as it is cached,  *)
(* for any number of months, rows and requests.                            *)
(***************************************************************************)
EXTENDS DashboardCache, SumTheorems

(***************************************************************************)
(* The sums of the model, as sums of functions                             *)
(***************************************************************************)
LEMMA ItemsSum ==
  ASSUME NEW S
  PROVE  MapThenSumSet(LAMBDA t : t.n, S) = SumOver([t \in S |-> t.n], S)
<1> DEFINE f == [t \in S |-> t.n]
           step(h) == [s \in SUBSET S |->
                         IF s = {} THEN 0 ELSE AnyOf(s).n + h[s \ {AnyOf(s)}]]
<1>1. ASSUME NEW h
      PROVE  step(h) = Fold(f, S, h)
  BY AnyOfIn DEF Fold
<1>2. MapThenSumSet(LAMBDA t : t.n, S) = (CHOOSE h : h = step(h))[S]
  BY DEF MapThenSumSet, MapThenFoldSet, AnyOf
<1> HIDE DEF step, f
<1>3. (CHOOSE h : h = step(h)) = (CHOOSE h : h = Fold(f, S, h))
  BY <1>1, Zenon
<1> QED
  BY <1>2, <1>3, SumIsFold DEF f

LEMMA AmountsSum ==
  ASSUME NEW s, NEW S
  PROVE  MapThenSumSet(LAMBDA i : Amount(s[i]), S) = SumOver([i \in S |-> Amount(s[i])], S)
<1> DEFINE f == [i \in S |-> Amount(s[i])]
           step(h) == [t \in SUBSET S |->
                         IF t = {} THEN 0 ELSE Amount(s[AnyOf(t)]) + h[t \ {AnyOf(t)}]]
<1>1. ASSUME NEW h
      PROVE  step(h) = Fold(f, S, h)
  BY AnyOfIn DEF Fold
<1>2. MapThenSumSet(LAMBDA i : Amount(s[i]), S) = (CHOOSE h : h = step(h))[S]
  BY DEF MapThenSumSet, MapThenFoldSet, AnyOf
<1> HIDE DEF step, f
<1>3. (CHOOSE h : h = step(h)) = (CHOOSE h : h = Fold(f, S, h))
  BY <1>1, Zenon
<1> QED
  BY <1>2, <1>3, SumIsFold DEF f

LEMMA CommissionsSum ==
  ASSUME NEW s, NEW rates, NEW S
  PROVE  MapThenSumSet(LAMBDA i : Commission(s[i], rates), S)
           = SumOver([i \in S |-> Commission(s[i], rates)], S)
<1> DEFINE f == [i \in S |-> Commission(s[i], rates)]
           step(h) == [t \in SUBSET S |->
                         IF t = {} THEN 0
                         ELSE Commission(s[AnyOf(t)], rates) + h[t \ {AnyOf(t)}]]
<1>1. ASSUME NEW h
      PROVE  step(h) = Fold(f, S, h)
  BY AnyOfIn DEF Fold
<1>2. MapThenSumSet(LAMBDA i : Commission(s[i], rates), S) = (CHOOSE h : h = step(h))[S]
  BY DEF MapThenSumSet, MapThenFoldSet, AnyOf
<1> HIDE DEF step, f
<1>3. (CHOOSE h : h = step(h)) = (CHOOSE h : h = Fold(f, S, h))
  BY <1>1, Zenon
<1> QED
  BY <1>2, <1>3, SumIsFold DEF f
-----------------------------------------------------------------------------
(***************************************************************************)
(* What a summary is: a figure, that depends on no other month's rows      *)
(***************************************************************************)
LEMMA AmountNat ==
  ASSUME NEW x \in Row
  PROVE  Amount(x) \in Nat
<1>1. x.items \subseteq [by : RowIds, n : Amounts]
  BY DEF Row
<1>2. IsFiniteSet(x.items)
  <2> DEFINE P == RowIds \X Amounts
             F == {[by |-> p[1], n |-> p[2]] : p \in P}
  <2>1. IsFiniteSet(P)
    BY RowsAreFinite, FS_Product
  <2>2. IsFiniteSet(F)
    <3> DEFINE g == [p \in P |-> [by |-> p[1], n |-> p[2]]]
    <3>1. F = {g[p] : p \in P}
      OBVIOUS
    <3>2. g \in Surjection(P, F)
      BY DEF Surjection
    <3> HIDE DEF P, F, g
    <3> QED
      BY <2>1, <3>2, FS_Surjection
  <2>3. [by : RowIds, n : Amounts] \subseteq F
    <3>1. SUFFICES ASSUME NEW t \in [by : RowIds, n : Amounts]
                   PROVE  t \in F
      OBVIOUS
    <3>2. <<t.by, t.n>> \in P /\ t = [by |-> t.by, n |-> t.n]
      OBVIOUS
    <3> QED
      BY <3>2
  <2> QED
    BY <1>1, <2>2, <2>3, FS_Subset
<1>3. \A t \in x.items : [u \in x.items |-> u.n][t] \in Nat
  BY <1>1, InputsTyped
<1>4. SumOver([u \in x.items |-> u.n], x.items) \in Nat
  BY <1>2, <1>3, SumNat
<1> QED
  BY <1>4, ItemsSum DEF Amount

RowTables == [RowIds -> Row \cup {None}]

SoFar(rates, d) == {i \in RowIds : rates[i] # None /\ rates[i].day <= d}

\* Of finitely many rates one is the latest.
LEMMA LatestExists ==
  ASSUME NEW S, IsFiniteSet(S), S # {}, NEW s, \A i \in S : s[i].day \in Int
  PROVE  \E i \in S : \A j \in S : s[j].day <= s[i].day
<1> DEFINE B == {T \in SUBSET S : T = {} \/ \E i \in T : \A j \in T : s[j].day <= s[i].day}
<1>1. {} \in B
  OBVIOUS
<1>2. ASSUME NEW T \in SUBSET S, T # {}, \A x \in T : T \ {x} \in B
      PROVE  T \in B
  <2>1. PICK x \in T : TRUE
    BY <1>2
  <2>2. CASE T \ {x} = {}
    <3>1. \A j \in T : s[j].day <= s[x].day
      BY <2>2
    <3> QED
      BY <2>1, <3>1
  <2>3. CASE T \ {x} # {}
    <3>1. PICK i \in T \ {x} : \A j \in T \ {x} : s[j].day <= s[i].day
      BY <1>2, <2>1, <2>3
    <3>2. s[i].day \in Int /\ s[x].day \in Int /\ \A j \in T : s[j].day \in Int
      BY <2>1, <3>1
    <3>3. CASE s[x].day <= s[i].day
      BY <3>1, <3>3
    <3>4. CASE ~ (s[x].day <= s[i].day)
      <4>1. \A j \in T : s[j].day <= s[x].day
        BY <3>1, <3>2, <3>4
      <4> QED
        BY <2>1, <4>1
    <3> QED
      BY <3>3, <3>4
  <2> QED
    BY <2>2, <2>3
<1>3. \A T \in SUBSET S : T # {} /\ (\A x \in T : T \ {x} \in B) => T \in B
  BY <1>2
<1>4. S \in B
  <2> HIDE DEF B
  <2>1. \A T \in SUBSET S : T \in B
    BY ONLY <1>1, <1>3, IsFiniteSet(S), SubsetInduction
  <2> QED
    BY <2>1
<1> QED
  BY <1>4

LEMMA RateNat ==
  ASSUME NEW rates \in RowTables, NEW d
  PROVE  RateAt(rates, d) = None \/ RateAt(rates, d) \in Nat
<1>1. CASE SoFar(rates, d) = {}
  BY <1>1 DEF RateAt, SoFar
<1>2. CASE SoFar(rates, d) # {}
  <2> DEFINE latest(i) == \A j \in SoFar(rates, d) : rates[j].day <= rates[i].day
  <2>1. \A i \in SoFar(rates, d) : rates[i].day \in Int
    BY DEF SoFar, RowTables, Row, Days
  <2>2. IsFiniteSet(SoFar(rates, d))
    BY RowsAreFinite, FS_Subset DEF SoFar
  <2>3. \E i \in SoFar(rates, d) : latest(i)
    BY <1>2, <2>1, <2>2, LatestExists
  <2>4. PICK k : k = CHOOSE i \in SoFar(rates, d) : latest(i)
    OBVIOUS
  <2>5. k \in SoFar(rates, d)
    BY <2>3, <2>4, Zenon
  <2>6. RateAt(rates, d) = Amount(rates[k])
    BY <1>2, <2>4 DEF RateAt, SoFar
  <2>7. rates[k] \in Row
    BY <2>5 DEF SoFar, RowTables
  <2> QED
    BY <2>6, <2>7, AmountNat
<1> QED
  BY <1>1, <1>2

LEMMA SummaryTyped ==
  ASSUME NEW e \in RowTables, NEW x \in RowTables, NEW rates \in RowTables, NEW m
  PROVE  Summary(e, x, rates, m) \in Figure
<1> DEFINE final == {i \in InMonth(e, m) : e[i].final}
           spent == InMonth(x, m)
           commissions == [i \in final |-> Commission(e[i], rates)]
<1>1. /\ final \subseteq RowIds /\ spent \subseteq RowIds
      /\ \A i \in final : e[i] \in Row
      /\ \A i \in spent : x[i] \in Row
  BY DEF InMonth, RowTables
<1>2. IsFiniteSet(final) /\ IsFiniteSet(spent)
  BY <1>1, RowsAreFinite, FS_Subset
<1>3. ASSUME NEW i \in final
      PROVE  Commission(e[i], rates) \in Nat
  <2>1. Amount(e[i]) \in Nat
    BY <1>1, AmountNat
  <2>2. RateAt(rates, e[i].day) = None \/ RateAt(rates, e[i].day) \in Nat
    BY RateNat
  <2>3. \A a, b \in Nat : a * b \in Nat
    OBVIOUS
  <2> QED
    BY <2>1, <2>2, <2>3 DEF Commission
<1>4. \A i \in final : [j \in final |-> Amount(e[j])][i] \in Nat
  BY <1>1, AmountNat
<1>5. \A i \in spent : [j \in spent |-> Amount(x[j])][i] \in Nat
  BY <1>1, AmountNat
<1>6. \A i \in final : [j \in final |-> Commission(e[j], rates)][i] \in Nat
  BY <1>3
<1>7. SumOver([j \in final |-> Amount(e[j])], final) \in Nat
  BY <1>2, <1>4, SumNat
<1>8. SumOver([j \in spent |-> Amount(x[j])], spent) \in Nat
  BY <1>2, <1>5, SumNat
<1>9. SumOver([j \in final |-> Commission(e[j], rates)], final) \in Nat
  BY <1>2, <1>6, SumNat
<1> HIDE DEF final, spent
<1>10. MapThenSumSet(LAMBDA i : Amount(e[i]), final) \in Nat
  BY <1>7, AmountsSum
<1>11. MapThenSumSet(LAMBDA i : Amount(x[i]), spent) \in Nat
  BY <1>8, AmountsSum
<1>12. MapThenSumSet(LAMBDA i : Commission(e[i], rates), final) \in Nat
  BY <1>9, CommissionsSum
<1> QED
  BY <1>10, <1>11, <1>12 DEF Summary, Figure, final, spent

LEMMA MonthsOrdered ==
  ASSUME NEW c \in Days, NEW d \in Days, c <= d
  PROVE  MonthOf(c) <= MonthOf(d) /\ MonthOf(c) \in Int /\ MonthOf(d) \in Int
<1>1. c - 1 \in Nat /\ d - 1 \in Nat /\ c - 1 <= d - 1 /\ DaysPerMonth \in Nat \ {0}
  BY CalendarIsNat DEF Days
<1>2. \A a, b \in Nat : \A n \in Nat \ {0} :
        a <= b => a \div n <= b \div n /\ a \div n \in Int /\ b \div n \in Int
  BY SMT
<1> QED
  BY <1>1, <1>2 DEF MonthOf

LEMMA LastDayIn ==
  ASSUME NEW m \in Months
  PROVE  LastDay(m) \in Days /\ MonthOf(LastDay(m)) = m
<1>1. m \in Nat \ {0} /\ m <= LastMonth /\ LastMonth \in Nat \ {0} /\ DaysPerMonth \in Nat \ {0}
  BY CalendarIsNat DEF Months
<1>2. \A a, b, n \in Nat \ {0} :
        /\ (a * n - 1) \div n = a - 1
        /\ a * n \in Nat \ {0}
        /\ a <= b => a * n <= b * n
  BY SMT
<1>3. m * DaysPerMonth \in 1 .. LastMonth * DaysPerMonth
  BY <1>1, <1>2
<1>4. (m * DaysPerMonth - 1) \div DaysPerMonth = m - 1
  BY <1>1, <1>2
<1> QED
  BY <1>1, <1>3, <1>4 DEF LastDay, Days, MonthOf

\* The rates up to month m are the same.
SameRates(s, t, m) ==
  \A i \in RowIds :
    s[i] = t[i] \/ \A x \in {s[i], t[i]} \ {None} : ~ (MonthOf(x.day) <= m)

LEMMA RateSame ==
  ASSUME NEW s \in RowTables, NEW t \in RowTables, NEW m \in Months, SameRates(s, t, m),
         NEW d \in Days, MonthOf(d) <= m
  PROVE  RateAt(s, d) = RateAt(t, d)
<1>1. ASSUME NEW u \in RowTables, NEW i \in RowIds, u[i] # None, u[i].day <= d
      PROVE  MonthOf(u[i].day) <= m
  <2>1. u[i].day \in Days /\ m \in Int
    BY <1>1 DEF RowTables, Row, Months
  <2>2. MonthOf(u[i].day) <= MonthOf(d) /\ MonthOf(u[i].day) \in Int /\ MonthOf(d) \in Int
    BY <1>1, <2>1, MonthsOrdered
  <2> QED
    BY <2>1, <2>2
<1>2. \A i \in RowIds : i \in SoFar(s, d) \/ i \in SoFar(t, d) => s[i] = t[i]
  BY <1>1 DEF SoFar, SameRates
<1>3. SoFar(s, d) = SoFar(t, d)
  BY <1>2 DEF SoFar
<1> DEFINE S == SoFar(s, d)
           k == CHOOSE i \in S : \A j \in S : s[j].day <= s[i].day
           l == CHOOSE i \in S : \A j \in S : t[j].day <= t[i].day
<1>4. RateAt(s, d) = (IF S = {} THEN None ELSE Amount(s[k]))
  BY DEF RateAt, SoFar
<1>5. RateAt(t, d) = (IF S = {} THEN None ELSE Amount(t[l]))
  <2> DEFINE T == SoFar(t, d)
  <2>1. RateAt(t, d) = IF T = {} THEN None
                       ELSE Amount(t[CHOOSE i \in T : \A j \in T : t[j].day <= t[i].day])
    BY DEF RateAt, SoFar
  <2>2. T = S
    BY <1>3
  <2> HIDE DEF S, T
  <2> QED
    BY <2>1, <2>2
<1>6. \A i \in S : s[i] = t[i]
  BY <1>2 DEF SoFar
<1>7. k = l
  <2>1. \A i : (i \in S /\ \A j \in S : s[j].day <= s[i].day)
                <=> (i \in S /\ \A j \in S : t[j].day <= t[i].day)
    BY <1>6
  <2> HIDE DEF S
  <2> QED
    BY <2>1, Zenon
<1>8. S # {} => k \in S
  <2>1. \A i \in S : s[i].day \in Int
    BY DEF SoFar, RowTables, Row, Days
  <2>2. IsFiniteSet(S)
    BY RowsAreFinite, FS_Subset DEF SoFar
  <2> HIDE DEF S
  <2>3. S # {} => \E i \in S : \A j \in S : s[j].day <= s[i].day
    BY <2>1, <2>2, LatestExists
  <2> QED
    BY <2>3, Zenon
<1> HIDE DEF S, k, l
<1>9. S # {} => s[k] = t[k]
  BY <1>6, <1>8
<1> QED
  BY <1>4, <1>5, <1>7, <1>9

\* The rows of month m are the same.
SameRows(e, f, m) == InMonth(f, m) = InMonth(e, m) /\ \A i \in InMonth(e, m) : f[i] = e[i]

LEMMA EntriesSame ==
  ASSUME NEW e \in RowTables, NEW f \in RowTables, NEW x \in RowTables, NEW s \in RowTables,
         NEW m \in Months, SameRows(e, f, m)
  PROVE  Summary(e, x, s, m) = Summary(f, x, s, m)
<1> DEFINE S == {i \in InMonth(e, m) : e[i].final}
<1>1. S = {i \in InMonth(f, m) : f[i].final} /\ \A i \in S : e[i] = f[i]
  BY DEF SameRows
<1> HIDE DEF S
<1>2. MapThenSumSet(LAMBDA i : Amount(e[i]), S) = MapThenSumSet(LAMBDA i : Amount(f[i]), S)
  <2>1. \A i \in S : [j \in S |-> Amount(e[j])][i] = [j \in S |-> Amount(f[j])][i]
    BY <1>1
  <2>2. SumOver([j \in S |-> Amount(e[j])], S) = SumOver([j \in S |-> Amount(f[j])], S)
    BY <2>1, SumEqual
  <2>3. MapThenSumSet(LAMBDA i : Amount(e[i]), S) = SumOver([j \in S |-> Amount(e[j])], S)
    BY AmountsSum
  <2>4. MapThenSumSet(LAMBDA i : Amount(f[i]), S) = SumOver([j \in S |-> Amount(f[j])], S)
    BY AmountsSum
  <2> QED
    BY <2>2, <2>3, <2>4
<1>3. MapThenSumSet(LAMBDA i : Commission(e[i], s), S)
        = MapThenSumSet(LAMBDA i : Commission(f[i], s), S)
  <2>1. \A i \in S : [j \in S |-> Commission(e[j], s)][i] = [j \in S |-> Commission(f[j], s)][i]
    BY <1>1
  <2>2. SumOver([j \in S |-> Commission(e[j], s)], S) = SumOver([j \in S |-> Commission(f[j], s)], S)
    BY <2>1, SumEqual
  <2>3. MapThenSumSet(LAMBDA i : Commission(e[i], s), S)
          = SumOver([j \in S |-> Commission(e[j], s)], S)
    BY ONLY CommissionsSum
  <2>4. MapThenSumSet(LAMBDA i : Commission(f[i], s), S)
          = SumOver([j \in S |-> Commission(f[j], s)], S)
    BY ONLY CommissionsSum
  <2> QED
    BY <2>2, <2>3, <2>4
<1> QED
  BY <1>1, <1>2, <1>3 DEF Summary, S

LEMMA ExpensesSame ==
  ASSUME NEW e \in RowTables, NEW x \in RowTables, NEW y \in RowTables, NEW s \in RowTables,
         NEW m \in Months, SameRows(x, y, m)
  PROVE  Summary(e, x, s, m) = Summary(e, y, s, m)
<1> DEFINE X == InMonth(x, m)
<1>1. X = InMonth(y, m) /\ \A i \in X : Amount(x[i]) = Amount(y[i])
  BY DEF SameRows
<1> HIDE DEF X
<1>2. MapThenSumSet(LAMBDA i : Amount(x[i]), X) = MapThenSumSet(LAMBDA i : Amount(y[i]), X)
  <2>1. \A i \in X : [j \in X |-> Amount(x[j])][i] = [j \in X |-> Amount(y[j])][i]
    BY <1>1
  <2>2. SumOver([j \in X |-> Amount(x[j])], X) = SumOver([j \in X |-> Amount(y[j])], X)
    BY <2>1, SumEqual
  <2>3. MapThenSumSet(LAMBDA i : Amount(x[i]), X) = SumOver([j \in X |-> Amount(x[j])], X)
    BY AmountsSum
  <2>4. MapThenSumSet(LAMBDA i : Amount(y[i]), X) = SumOver([j \in X |-> Amount(y[j])], X)
    BY AmountsSum
  <2> QED
    BY <2>2, <2>3, <2>4
<1> QED
  BY <1>1, <1>2 DEF Summary, X

LEMMA RatesSame ==
  ASSUME NEW e \in RowTables, NEW x \in RowTables, NEW s \in RowTables, NEW t \in RowTables,
         NEW m \in Months, SameRates(s, t, m)
  PROVE  Summary(e, x, s, m) = Summary(e, x, t, m)
<1> DEFINE S == {i \in InMonth(e, m) : e[i].final}
<1>1. m \in Int /\ m <= m
  BY DEF Months
<1>2. \A i \in S : e[i].day \in Days /\ MonthOf(e[i].day) = m
  BY DEF InMonth, RowTables, Row
<1>3. \A i \in S : RateAt(s, e[i].day) = RateAt(t, e[i].day)
  BY <1>1, <1>2, RateSame
<1>4. RateAt(s, LastDay(m)) = RateAt(t, LastDay(m))
  BY <1>1, LastDayIn, RateSame
<1>5. \A i \in S : Commission(e[i], s) = Commission(e[i], t)
  BY <1>3 DEF Commission
<1> HIDE DEF S
<1>6. MapThenSumSet(LAMBDA i : Commission(e[i], s), S)
        = MapThenSumSet(LAMBDA i : Commission(e[i], t), S)
  <2>1. \A i \in S : [j \in S |-> Commission(e[j], s)][i] = [j \in S |-> Commission(e[j], t)][i]
    BY <1>5
  <2>2. SumOver([j \in S |-> Commission(e[j], s)], S) = SumOver([j \in S |-> Commission(e[j], t)], S)
    BY <2>1, SumEqual
  <2>3. MapThenSumSet(LAMBDA i : Commission(e[i], s), S)
          = SumOver([j \in S |-> Commission(e[j], s)], S)
    BY ONLY CommissionsSum
  <2>4. MapThenSumSet(LAMBDA i : Commission(e[i], t), S)
          = SumOver([j \in S |-> Commission(e[j], t)], S)
    BY ONLY CommissionsSum
  <2> QED
    BY <2>2, <2>3, <2>4
<1> QED
  BY <1>4, <1>6 DEF Summary, S

(***************************************************************************)
(* A row that another takes the place of, or none, changes the figures of  *)
(* a month only if it is an entry or an expense of that month, or a rate   *)
(* of that month or an earlier one.                                        *)
(***************************************************************************)
CountsIn(x, m) == IF x.what = "rate" THEN MonthOf(x.day) <= m ELSE MonthOf(x.day) = m

LEMMA FiguresSame ==
  ASSUME rows \in RowTables, rows' \in RowTables, NEW m \in Months,
         \A i \in RowIds : rows[i] = rows'[i]
                           \/ \A x \in {rows[i], rows'[i]} \ {None} : ~ CountsIn(x, m)
  PROVE  Figures(m)' = Figures(m)
<1>1. /\ Of("entry") \in RowTables /\ Of("entry")' \in RowTables
      /\ Of("expense") \in RowTables /\ Of("expense")' \in RowTables
      /\ Of("rate") \in RowTables /\ Of("rate")' \in RowTables
  BY DEF Of, RowTables
<1>2. SameRows(Of("entry"), Of("entry")', m) /\ SameRows(Of("expense"), Of("expense")', m)
  BY DEF SameRows, InMonth, Of, CountsIn
<1>3. SameRates(Of("rate"), Of("rate")', m)
  BY DEF SameRates, Of, CountsIn
<1>4. PICK e, f, x, y, s, t :
        /\ e = Of("entry") /\ f = Of("entry")' /\ x = Of("expense") /\ y = Of("expense")'
        /\ s = Of("rate") /\ t = Of("rate")'
  OBVIOUS
<1>5. /\ e \in RowTables /\ f \in RowTables /\ x \in RowTables /\ y \in RowTables
      /\ s \in RowTables /\ t \in RowTables
      /\ SameRows(e, f, m) /\ SameRows(x, y, m) /\ SameRates(s, t, m)
  BY <1>1, <1>2, <1>3, <1>4
<1>6. Summary(e, x, s, m) = Summary(f, y, t, m)
  <2>1. Summary(e, x, s, m) = Summary(f, x, s, m)
    BY <1>5, EntriesSame
  <2>2. Summary(f, x, s, m) = Summary(f, y, s, m)
    BY <1>5, ExpensesSame
  <2>3. Summary(f, y, s, m) = Summary(f, y, t, m)
    BY <1>5, RatesSame
  <2> QED
    BY <2>1, <2>2, <2>3
<1> QED
  BY <1>4, <1>6 DEF Figures
-----------------------------------------------------------------------------

(***************************************************************************)
(* The invariant                                                           *)
(***************************************************************************)
Writer(r) == Running(r) /\ Writes(r)

\* Its statement has been executed: it holds the row it writes until it ends.
Flushed(r) == pc[r] = "commit" \/ (pc[r] = "invalidate" /\ ~InvalidatesFirst(r))

\* It has invalidated the months it touches.
Invalidated(r) == pc[r] = "commit" \/ (pc[r] = "flush" /\ InvalidatesFirst(r))

\* What a request carries fits what it asks for.
JobFits(r) ==
  /\ Running(r) => kind[r] \in {"add", "change", "remove", "show"}
  /\ Running(r) /\ kind[r] = "show" =>
       pc[r] \in {"entries", "expenses", "rates"} /\ job[r].id \in Months
  /\ Writer(r) =>
       /\ pc[r] \in {"flush", "invalidate", "commit"}
       /\ job[r].id \in RowIds /\ job[r].body \in WriteBody
  /\ Writer(r) /\ kind[r] = "add" => job[r].id = r /\ old[r] = None /\ job[r].body.n \in Amounts
  /\ Writer(r) /\ kind[r] = "change" => job[r].body.n \in Amounts

\* What a change or a removal loaded is what is on record, but for columns others have written.
Loaded(r) ==
  Writer(r) /\ kind[r] # "add" =>
    LET now == rows[job[r].id]
        was == old[r]
        w == job[r].body
    IN  /\ job[r].id \in Req => pc[job[r].id] = "done"
        /\ was # None /\ was.what = w.what
        /\ kind[r] = "remove" => w.day = was.day
        /\ now # None => now.what = w.what
        /\ w.what = "rate" => w.day = was.day /\ (now # None => now.day = w.day)

\* A request that has not begun holds nothing, and what it adds is not there yet.
Fresh(r) ==
  /\ pc[r] # "done" => rows[r] = None
  /\ pc[r] = "idle" => old[r] = None /\ DOMAIN got[r] = {}
  /\ ~ Running(r) => holds[r] = {}

\* The row it is about to write is its own, and the key it writes is free.
Holding(r) ==
  Writer(r) =>
    /\ holds[r] \subseteq {job[r].id}
    /\ holds[r] # {} /\ ~ Flushed(r) => job[r].body.what = "entry"
    /\ Flushed(r) =>
         /\ holds[r] = {job[r].id}
         /\ kind[r] = "change" => rows[job[r].id] # None
         /\ kind[r] # "remove" => ~ DayTaken(job[r].body, job[r].id)

Viewing(r) ==
  Running(r) /\ kind[r] = "show" =>
    /\ holds[r] = {}
    /\ pc[r] \in {"expenses", "rates"} => "entry" \in DOMAIN got[r]
    /\ pc[r] = "rates" => "expense" \in DOMAIN got[r]

RowsApart == \A r, q \in Req : r # q => holds[r] \cap holds[q] = {}
KeysApart ==
  \A r, q \in Req : r # q /\ Writer(r) /\ Writer(q) /\ Flushed(r) /\ Flushed(q) =>
    Keys(r) \cap Keys(q) = {}

\* A summary that no write has met has read what is still on record.
Undisturbed(r) ==
  Running(r) /\ kind[r] = "show" /\ r \notin disturbed =>
    /\ \A q \in Req : ~ Writer(q)
    /\ \A what \in DOMAIN got[r] : got[r][what] = Of(what)

(***************************************************************************)
(* The months that a write has touched are not clean, from its             *)
(* invalidation to its commit; nor is the month to which another request   *)
(* has moved the row meanwhile.                                            *)
(***************************************************************************)
Reached(r) ==
  Writer(r) =>
    /\ Invalidated(r) => MonthsTouched(old[r], job[r].body) \cap clean = {}
    /\ kind[r] # "add" /\ rows[job[r].id] # None
       /\ MonthOf(rows[job[r].id].day) # MonthOf(old[r].day)
       => MonthOf(rows[job[r].id].day) \notin clean

Requests(r) ==
  JobFits(r) /\ Loaded(r) /\ Fresh(r) /\ Holding(r) /\ Viewing(r) /\ Undisturbed(r) /\ Reached(r)

IInv ==
  /\ TypeOK
  /\ RowsApart
  /\ KeysApart
  /\ CleanFiguresAreRight
  /\ \A r \in Req : Requests(r)

-----------------------------------------------------------------------------
(***************************************************************************)
(* Steps that leave the rows alone                                         *)
(***************************************************************************)
\* The private state of a request.
Own(r) == <<pc[r], job[r], old[r], got[r], holds[r]>>

LEMMA OthersStay ==
  ASSUME IInv, UNCHANGED <<rows, kind>>, NEW q \in Req, UNCHANGED Own(q),
         \A p \in Req : pc[p] = "done" => pc'[p] = "done"
  PROVE  JobFits(q)' /\ Loaded(q)' /\ Fresh(q)' /\ Holding(q)' /\ Viewing(q)'
<1>1. /\ pc'[q] = pc[q] /\ job'[q] = job[q] /\ old'[q] = old[q] /\ got'[q] = got[q]
      /\ holds'[q] = holds[q] /\ rows' = rows /\ kind' = kind
      /\ Requests(q)
  BY DEF Own, IInv
<1>2. Running(q)' = Running(q) /\ Writer(q)' = Writer(q)
      /\ (InvalidatesFirst(q)' <=> InvalidatesFirst(q)) /\ (Flushed(q)' <=> Flushed(q))
  BY <1>1 DEF Running, Writer, Writes, InvalidatesFirst, Flushed
<1>3. JobFits(q)'
  BY <1>1, <1>2 DEF Requests, JobFits
<1>4. Loaded(q)'
  BY <1>1, <1>2 DEF Requests, Loaded
<1>5. Fresh(q)'
  BY <1>1, <1>2 DEF Requests, Fresh
<1>6. Holding(q)'
  BY <1>1, <1>2 DEF Requests, Holding, DayTaken
<1>7. Viewing(q)'
  BY <1>1, <1>2 DEF Requests, Viewing
<1> QED
  BY <1>3, <1>4, <1>5, <1>6, <1>7

\* Who gives up locks and writes no new key stays apart from the others.
LEMMA ApartStays ==
  ASSUME IInv, NEW r \in Req, kind' = kind, \A q \in Req \ {r} : UNCHANGED Own(q),
         holds'[r] \subseteq holds[r],
         Writer(r)' /\ Flushed(r)' => Writer(r) /\ Flushed(r) /\ Keys(r)' = Keys(r)
  PROVE  RowsApart' /\ KeysApart'
<1>1. RowsApart'
  BY DEF IInv, RowsApart, Own
<1>2. ASSUME NEW q \in Req, Writer(q)', Flushed(q)'
      PROVE  Writer(q) /\ Flushed(q) /\ Keys(q)' = Keys(q)
  <2>1. CASE q = r
    BY <1>2, <2>1
  <2>2. CASE q # r
    <3>1. pc'[q] = pc[q] /\ job'[q] = job[q] /\ old'[q] = old[q]
      BY <2>2 DEF Own
    <3> QED
      BY <1>2, <3>1 DEF Writer, Running, Writes, Flushed, InvalidatesFirst, Keys
  <2> QED
    BY <2>1, <2>2
<1>3. KeysApart'
  BY <1>2 DEF IInv, KeysApart
<1> QED
  BY <1>1, <1>3

\* A request that a step is not about keeps what it has.
LEMMA RequestsStay ==
  ASSUME IInv, UNCHANGED <<rows, kind>>, NEW q \in Req, UNCHANGED Own(q),
         \A p \in Req : pc[p] = "done" => pc'[p] = "done",
         q \in disturbed => q \in disturbed',
         clean' \subseteq clean \/ \A p \in Req : ~ Writer(p)',
         \/ \A p \in Req : Writer(p)' => Writer(p)
         \/ Running(q) /\ kind[q] = "show" => q \in disturbed'
  PROVE  Requests(q)'
<1>1. JobFits(q)' /\ Loaded(q)' /\ Fresh(q)' /\ Holding(q)' /\ Viewing(q)'
  BY OthersStay
<1>2. /\ pc'[q] = pc[q] /\ job'[q] = job[q] /\ old'[q] = old[q] /\ got'[q] = got[q]
      /\ rows' = rows /\ kind' = kind /\ Requests(q)
  BY DEF Own, IInv
<1>3. Reached(q)'
  <2>1. CASE clean' \subseteq clean
    BY <1>2, <2>1 DEF Requests, Reached, Writer, Running, Writes, Invalidated, InvalidatesFirst
  <2>2. CASE \A p \in Req : ~ Writer(p)'
    BY <2>2 DEF Reached
  <2> QED
    BY <2>1, <2>2
<1>4. Undisturbed(q)'
  <2>1. SUFFICES ASSUME Running(q), kind[q] = "show", q \notin disturbed'
                 PROVE  /\ \A p \in Req : ~ Writer(p)'
                        /\ \A what \in DOMAIN got[q] : got[q][what] = Of(what)'
    BY <1>2 DEF Undisturbed, Running
  <2>2. (\A p \in Req : ~ Writer(p)) /\ \A what \in DOMAIN got[q] : got[q][what] = Of(what)
    BY <1>2, <2>1 DEF Requests, Undisturbed
  <2> QED
    BY <1>2, <2>1, <2>2 DEF Of
<1> QED
  BY <1>1, <1>3, <1>4 DEF Requests

LEMMA QuietStep ==
  ASSUME IInv, NEW r \in Req, UNCHANGED <<rows, kind>>, TypeOK', pc[r] # "done",
         \A q \in Req \ {r} : UNCHANGED Own(q) /\ (q \in disturbed => q \in disturbed'),
         CleanFiguresAreRight', clean' \subseteq clean \/ \A q \in Req : ~ Writer(q)',
         \/ Writer(r)' => Writer(r)
         \/ \A q \in Req \ {r} : Running(q) /\ kind[q] = "show" => q \in disturbed',
         Requests(r)', RowsApart', KeysApart'
  PROVE  IInv'
<1>1. \A p \in Req : pc[p] = "done" => pc'[p] = "done"
  BY DEF Own
<1>2. \A p \in Req \ {r} : Writer(p)' = Writer(p)
  BY DEF Own, Writer, Running, Writes
<1>3. ASSUME NEW q \in Req \ {r}
      PROVE  Requests(q)'
  BY <1>1, <1>2, RequestsStay
<1> QED
  BY <1>3 DEF IInv

\* Months that stay clean stay right when the rows stay.
LEMMA CleanStays ==
  ASSUME IInv, rows' = rows, clean' \subseteq clean, \A m \in clean' : cache'[m] = cache[m]
  PROVE  CleanFiguresAreRight'
BY DEF IInv, CleanFiguresAreRight, Figures, Of

LEMMA EndTypes ==
  ASSUME TypeOK, NEW r \in Req, NEW outcome \in {"done", "failed"}, End(r, outcome)
  PROVE  /\ kind' \in [Req -> Kinds]
         /\ pc' \in [Req -> {"idle", "entries", "expenses", "rates", "flush", "invalidate",
                             "commit", "done", "failed"}]
         /\ job' \in [Req -> [id : RowIds \cup Months, body : WriteBody \cup {None}] \cup {None}]
         /\ old' \in [Req -> Row \cup {None}]
         /\ holds' \in [Req -> SUBSET RowIds]
         /\ DOMAIN got' = Req
         /\ \A q \in Req : /\ DOMAIN got'[q] \subseteq {"entry", "expense"}
                           /\ got'[q] \in [DOMAIN got'[q] -> [RowIds -> Row \cup {None}]]
         /\ disturbed' \subseteq Req
         /\ pc'[r] = outcome /\ holds'[r] = {} /\ kind' = kind
         /\ \A q \in Req \ {r} : UNCHANGED Own(q) /\ (q \in disturbed => q \in disturbed')
<1>1. \A q \in Req : got'[q] = IF q = r THEN [what \in {} |-> None] ELSE got[q]
  BY DEF End, TypeOK
<1>2. \A q \in Req \ {r} : UNCHANGED Own(q)
  BY <1>1 DEF End, Goto, Own, TypeOK
<1>3. ASSUME NEW q \in Req
      PROVE  /\ DOMAIN got'[q] \subseteq {"entry", "expense"}
             /\ got'[q] \in [DOMAIN got'[q] -> [RowIds -> Row \cup {None}]]
  <2>1. CASE q = r
    <3>1. PICK nothing : nothing = [what \in {} |-> None]
      OBVIOUS
    <3>2. DOMAIN nothing = {} /\ nothing \in [{} -> [RowIds -> Row \cup {None}]]
      BY <3>1
    <3> QED
      BY <1>1, <2>1, <3>1, <3>2
  <2>2. CASE q # r
    <3>1. PICK g : g = got[q]
      OBVIOUS
    <3>2. DOMAIN g \subseteq {"entry", "expense"} /\ g \in [DOMAIN g -> [RowIds -> Row \cup {None}]]
      BY <3>1 DEF TypeOK
    <3> QED
      BY <1>1, <2>2, <3>1, <3>2
  <2> QED
    BY <2>1, <2>2
<1>4. DOMAIN got' = Req
  BY DEF End, TypeOK
<1> QED
  BY <1>2, <1>3, <1>4 DEF End, Goto, TypeOK

\* What has ended needs nothing but that its row is there only if it is done.
LEMMA EndedFits ==
  ASSUME NEW r \in Req, pc'[r] \in {"done", "failed"}, holds'[r] = {},
         pc'[r] # "done" => rows'[r] = None
  PROVE  Requests(r)' /\ ~ Writer(r)'
BY DEF Requests, JobFits, Loaded, Fresh, Holding, Viewing, Undisturbed, Reached, Writer, Running

LEMMA Ending ==
  ASSUME IInv, NEW r \in Req, pc[r] # "done", NEW outcome \in {"done", "failed"},
         End(r, outcome), UNCHANGED <<rows, cache, clean>>
  PROVE  IInv'
<1>1. TypeOK
  BY DEF IInv
<1>2. TypeOK'
  BY <1>1, EndTypes DEF TypeOK
<1>3. /\ pc'[r] = outcome /\ holds'[r] = {} /\ kind' = kind
      /\ \A q \in Req \ {r} : UNCHANGED Own(q) /\ (q \in disturbed => q \in disturbed')
  BY <1>1, EndTypes
<1>4. rows[r] = None
  BY DEF IInv, Requests, Fresh
<1>5. Requests(r)' /\ ~ Writer(r)'
  BY <1>3, <1>4, EndedFits
<1>6. RowsApart' /\ KeysApart'
  BY <1>3, <1>5, ApartStays
<1>7. CleanFiguresAreRight'
  BY CleanStays
<1> QED
  BY <1>2, <1>3, <1>5, <1>6, <1>7, QuietStep

-----------------------------------------------------------------------------
(***************************************************************************)
(* A summary                                                               *)
(***************************************************************************)
LEMMA ShowKeeps ==
  ASSUME IInv, NEW r \in Req, Show(r)
  PROVE  IInv'
<1>1. pc[r] = "idle" /\ kind[r] = "show" /\ TypeOK
  BY DEF Show, IInv
<1>2. PICK m \in Months :
        \/ /\ cache[m] # None
           /\ End(r, "done")
           /\ UNCHANGED <<rows, cache, clean>>
        \/ /\ cache[m] = None
           /\ Goto(r, "entries")
           /\ job' = [job EXCEPT ![r] = [id |-> m, body |-> None]]
           /\ disturbed' = IF \E q \in Req : Running(q) /\ Writes(q)
                           THEN disturbed \cup {r} ELSE disturbed
           /\ UNCHANGED <<rows, cache, old, got, holds, clean>>
  BY DEF Show
<1>3. CASE End(r, "done") /\ UNCHANGED <<rows, cache, clean>>
  BY <1>1, <1>3, Ending
<1>4. CASE /\ Goto(r, "entries")
           /\ job' = [job EXCEPT ![r] = [id |-> m, body |-> None]]
           /\ disturbed' = IF \E q \in Req : Running(q) /\ Writes(q)
                           THEN disturbed \cup {r} ELSE disturbed
           /\ UNCHANGED <<rows, cache, old, got, holds, clean>>
  <2>1. TypeOK'
    <3>1. pc' \in [Req -> {"idle", "entries", "expenses", "rates", "flush", "invalidate",
                           "commit", "done", "failed"}]
      BY <1>1, <1>4 DEF TypeOK, Goto
    <3>2. job' \in [Req -> [id : RowIds \cup Months, body : WriteBody \cup {None}] \cup {None}]
      BY <1>1, <1>4 DEF TypeOK
    <3> QED
      BY <1>1, <1>4, <3>1, <3>2 DEF TypeOK, Goto
  <2>2. \A q \in Req \ {r} : UNCHANGED Own(q) /\ (q \in disturbed => q \in disturbed')
    BY <1>1, <1>4 DEF TypeOK, Own, Goto
  <2>3. /\ pc'[r] = "entries" /\ job'[r].id = m /\ rows' = rows /\ kind' = kind
        /\ old' = old /\ got' = got /\ holds' = holds /\ Requests(r)
    BY <1>1, <1>4 DEF TypeOK, Goto, IInv
  <2>4. ~ Writer(r)' /\ rows[r] = None /\ holds[r] = {} /\ DOMAIN got[r] = {}
    BY <1>1, <2>3 DEF Requests, Fresh, Writer, Writes, Running
  <2>5. JobFits(r)' /\ Loaded(r)' /\ Holding(r)' /\ Reached(r)'
    BY <1>1, <2>3, <2>4 DEF JobFits, Loaded, Holding, Reached
  <2>6. Fresh(r)' /\ Viewing(r)'
    BY <2>3, <2>4 DEF Fresh, Viewing, Running
  <2>7. \A q \in Req : Writer(q)' => Writer(q)
    BY <2>2, <2>3, <2>4 DEF Own, Writer, Running, Writes
  <2>8. Undisturbed(r)'
    BY <1>4, <2>3, <2>4, <2>7 DEF Undisturbed, Writer
  <2>9. Requests(r)'
    BY <2>5, <2>6, <2>8 DEF Requests
  <2>10. RowsApart' /\ KeysApart'
    BY <2>2, <2>3, <2>4, ApartStays
  <2>11. CleanFiguresAreRight'
    BY <1>4, CleanStays
  <2> QED
    BY <1>1, <1>4, <2>1, <2>2, <2>3, <2>4, <2>9, <2>10, <2>11, QuietStep
<1> QED
  BY <1>2, <1>3, <1>4

LEMMA ReadKeeps ==
  ASSUME IInv, NEW r \in Req, NEW what \in {"entry", "expense"}, NEW at \in {"expenses", "rates"},
         pc[r] \in {"entries", "expenses"},
         at = "rates" => pc[r] = "expenses" /\ what = "expense",
         at = "expenses" => pc[r] = "entries" /\ what = "entry",
         Goto(r, at), ReadTable(r, what)
  PROVE  IInv'
<1>1. TypeOK /\ Requests(r)
  BY DEF IInv
<1>2. kind[r] = "show" /\ Running(r) /\ ~ Writer(r) /\ rows[r] = None
  <2>1. Running(r) /\ pc[r] # "done" /\ pc[r] \notin {"flush", "invalidate", "commit"}
    BY DEF Running
  <2>2. ~ Writer(r) /\ rows[r] = None
    BY <1>1, <2>1 DEF Requests, JobFits, Fresh
  <2> QED
    BY <1>1, <2>1, <2>2 DEF Requests, JobFits, Writer, Writes
<1>3. /\ pc'[r] = at /\ kind' = kind /\ rows' = rows /\ job' = job /\ old' = old /\ holds' = holds
      /\ disturbed' = disturbed /\ clean' = clean /\ cache' = cache
  BY <1>1 DEF TypeOK, Goto, ReadTable, history
<1>4. \A q \in Req : got'[q] = IF q = r THEN [t \in DOMAIN got[r] \cup {what} |->
                                                IF t = what THEN Of(what) ELSE got[r][t]]
                               ELSE got[q]
  BY <1>1 DEF TypeOK, ReadTable
<1>5. Of(what) \in [RowIds -> Row \cup {None}]
  BY <1>1 DEF Of, TypeOK
<1>6. TypeOK'
  <2>1. DOMAIN got' = Req
    BY <1>1 DEF TypeOK, ReadTable
  <2>2. ASSUME NEW q \in Req \ {r}
        PROVE  /\ DOMAIN got'[q] \subseteq {"entry", "expense"}
               /\ got'[q] \in [DOMAIN got'[q] -> [RowIds -> Row \cup {None}]]
    BY <1>1, <1>4 DEF TypeOK
  <2>3. DOMAIN got'[r] \subseteq {"entry", "expense"}
    <3>1. PICK g, h : g = got[r] /\ h = got'[r]
      OBVIOUS
    <3>2. DOMAIN g \subseteq {"entry", "expense"}
      BY <1>1, <3>1 DEF TypeOK
    <3>3. DOMAIN h = DOMAIN g \cup {what}
      BY <1>4, <3>1
    <3> QED
      BY <3>1, <3>2, <3>3
  <2>4. got'[r] \in [DOMAIN got'[r] -> [RowIds -> Row \cup {None}]]
    <3>1. PICK g, h : g = got[r] /\ h = got'[r]
      OBVIOUS
    <3>2. g \in [DOMAIN g -> [RowIds -> Row \cup {None}]]
      BY <1>1, <3>1 DEF TypeOK
    <3>3. h = [t \in DOMAIN g \cup {what} |-> IF t = what THEN Of(what) ELSE g[t]]
      BY <1>4, <3>1
    <3>4. h \in [DOMAIN h -> [RowIds -> Row \cup {None}]]
      BY <1>5, <3>2, <3>3
    <3> QED
      BY <3>1, <3>4
  <2>5. pc' \in [Req -> {"idle", "entries", "expenses", "rates", "flush", "invalidate",
                         "commit", "done", "failed"}]
    BY <1>1 DEF TypeOK, Goto
  <2> QED
    BY <1>1, <1>3, <2>1, <2>2, <2>3, <2>4, <2>5 DEF TypeOK
<1>7. \A q \in Req \ {r} : UNCHANGED Own(q)
  BY <1>1, <1>3, <1>4 DEF TypeOK, Own, Goto
<1>8. ~ Writer(r)' /\ \A q \in Req : Writer(q)' => Writer(q)
  BY <1>2, <1>3, <1>7 DEF Own, Writer, Running, Writes
<1>9. JobFits(r)' /\ Loaded(r)' /\ Holding(r)' /\ Reached(r)'
  BY <1>1, <1>2, <1>3, <1>8 DEF Requests, JobFits, Loaded, Holding, Reached, Running
<1>10. Fresh(r)'
  BY <1>2, <1>3 DEF Fresh, Running
<1>11. Viewing(r)'
  BY <1>1, <1>2, <1>3, <1>4 DEF Viewing, Requests
<1>12. Undisturbed(r)'
  <2>1. \A t \in Tables : Of(t)' = Of(t)
    BY <1>3 DEF Of
  <2>2. SUFFICES ASSUME r \notin disturbed
                 PROVE  /\ \A q \in Req : ~ Writer(q)'
                        /\ \A t \in DOMAIN got'[r] : got'[r][t] = Of(t)
    <3>1. DOMAIN got'[r] \subseteq Tables
      BY <1>6 DEF TypeOK, Tables
    <3> QED
      BY <1>3, <2>1, <3>1 DEF Undisturbed
  <2>3. (\A q \in Req : ~ Writer(q)) /\ \A t \in DOMAIN got[r] : got[r][t] = Of(t)
    BY <1>1, <1>2, <2>2 DEF Requests, Undisturbed
  <2> QED
    BY <1>4, <1>8, <2>3
<1>13. Requests(r)'
  BY <1>9, <1>10, <1>11, <1>12 DEF Requests
<1>14. RowsApart' /\ KeysApart'
  BY <1>3, <1>7, <1>8, ApartStays
<1>15. CleanFiguresAreRight'
  BY <1>3, CleanStays
<1> QED
  BY <1>3, <1>6, <1>7, <1>8, <1>13, <1>14, <1>15, QuietStep

LEMMA StoreKeeps ==
  ASSUME IInv, NEW r \in Req, ReadRatesAndStore(r)
  PROVE  IInv'
<1> DEFINE m == job[r].id
           figure == Summary(got[r]["entry"], got[r]["expense"], Of("rate"), m)
<1>1. /\ TypeOK /\ Requests(r) /\ pc[r] = "rates" /\ rows' = rows
      /\ cache' = [cache EXCEPT ![m] = figure]
      /\ clean' = IF r \in disturbed THEN clean \ {m} ELSE clean \cup {m}
      /\ End(r, "done")
  BY DEF IInv, ReadRatesAndStore
<1>2. /\ kind[r] = "show" /\ Running(r) /\ ~ Writer(r) /\ m \in Months /\ rows[r] = None
      /\ "entry" \in DOMAIN got[r] /\ "expense" \in DOMAIN got[r]
  <2>1. Running(r)
    BY <1>1 DEF Running
  <2>2. ~ Writer(r) /\ rows[r] = None
    BY <1>1, <2>1 DEF Requests, JobFits, Fresh
  <2>3. kind[r] = "show"
    BY <1>1, <2>1, <2>2 DEF Requests, JobFits, Writer, Writes
  <2> QED
    BY <1>1, <2>1, <2>2, <2>3 DEF Requests, JobFits, Viewing
<1>3. figure \in Figure
  <2>1. got[r]["entry"] \in RowTables /\ got[r]["expense"] \in RowTables
    BY <1>1, <1>2 DEF TypeOK, RowTables
  <2>2. Of("rate") \in RowTables
    BY <1>1 DEF Of, TypeOK, RowTables
  <2> QED
    BY <2>1, <2>2, SummaryTyped
<1>4. r \notin disturbed => figure = Figures(m) /\ \A q \in Req : ~ Writer(q)
  BY <1>1, <1>2 DEF Requests, Undisturbed, Figures
<1> HIDE DEF figure
<1>5. \A n \in Months : cache'[n] = IF n = m THEN figure ELSE cache[n]
  BY <1>1, <1>2 DEF TypeOK
<1>6. figure # None
  BY <1>3, NoneIsNoValue
<1>7. TypeOK'
  <2>1. cache' \in [Months -> Figure \cup {None}]
    BY <1>1, <1>2, <1>3 DEF TypeOK
  <2>2. clean' \subseteq {n \in Months : cache'[n] # None}
    BY <1>1, <1>2, <1>5, <1>6 DEF TypeOK
  <2> QED
    BY <1>1, <2>1, <2>2, EndTypes DEF TypeOK
<1>8. /\ pc'[r] = "done" /\ holds'[r] = {} /\ kind' = kind
      /\ \A q \in Req \ {r} : UNCHANGED Own(q) /\ (q \in disturbed => q \in disturbed')
  BY <1>1, EndTypes
<1>9. Requests(r)' /\ ~ Writer(r)'
  BY <1>8, EndedFits
<1>10. RowsApart' /\ KeysApart'
  BY <1>8, <1>9, ApartStays
<1>11. CleanFiguresAreRight'
  <2>1. \A n \in Months : Figures(n)' = Figures(n)
    BY <1>1 DEF Figures, Of
  <2>2. ASSUME NEW n \in clean'
        PROVE  n \in Months /\ cache'[n] = Figures(n)
    <3>1. n \in Months
      BY <1>7 DEF TypeOK
    <3>2. CASE n = m
      BY <1>1, <1>4, <1>5, <3>1, <3>2
    <3>3. CASE n # m
      BY <1>1, <1>5, <3>1, <3>3 DEF IInv, CleanFiguresAreRight
    <3> QED
      BY <3>1, <3>2, <3>3
  <2> QED
    BY <2>1, <2>2 DEF CleanFiguresAreRight
<1>12. clean' \subseteq clean \/ \A q \in Req : ~ Writer(q)'
  <2>1. \A q \in Req \ {r} : Writer(q)' = Writer(q)
    BY <1>8 DEF Own, Writer, Running, Writes
  <2> QED
    BY <1>1, <1>4, <1>9, <2>1
<1> QED
  BY <1>1, <1>7, <1>8, <1>9, <1>10, <1>11, <1>12, QuietStep
-----------------------------------------------------------------------------
(***************************************************************************)
(* A write, up to its commit                                               *)
(***************************************************************************)
LEMMA StartTypes ==
  ASSUME IInv, NEW r \in Req, NEW k \in {"add", "change", "remove"}, NEW i \in RowIds,
         NEW w \in WriteBody, NEW at \in {"flush", "invalidate"}, Start(r, k, i, w, at)
  PROVE  /\ pc' \in [Req -> {"idle", "entries", "expenses", "rates", "flush", "invalidate",
                             "commit", "done", "failed"}]
         /\ job' \in [Req -> [id : RowIds \cup Months, body : WriteBody \cup {None}] \cup {None}]
         /\ disturbed' \subseteq Req
         /\ pc'[r] = at /\ job'[r].id = i /\ job'[r].body = w
         /\ kind' = kind /\ kind[r] = k /\ pc[r] = "idle"
         /\ rows' = rows /\ cache' = cache /\ got' = got /\ clean' = clean
         /\ rows[r] = None /\ holds[r] = {} /\ old[r] = None /\ Writer(r)'
         /\ CleanFiguresAreRight' /\ Viewing(r)' /\ Undisturbed(r)'
         /\ \A q \in Req \ {r} : /\ pc'[q] = pc[q] /\ job'[q] = job[q] /\ got'[q] = got[q]
                                 /\ q \in disturbed => q \in disturbed'
                                 /\ Running(q) /\ kind[q] = "show" => q \in disturbed'
<1>1. TypeOK /\ Requests(r)
  BY DEF IInv
<1>2. /\ kind' = kind /\ kind[r] = k /\ pc[r] = "idle" /\ pc' = [pc EXCEPT ![r] = at]
      /\ rows' = rows /\ cache' = cache /\ got' = got /\ clean' = clean
      /\ job' = [job EXCEPT ![r] = [id |-> i, body |-> w]]
      /\ disturbed' = disturbed \cup {q \in Req : kind[q] = "show" /\ Running(q)}
  BY DEF Start, Goto
<1>3. /\ pc' \in [Req -> {"idle", "entries", "expenses", "rates", "flush", "invalidate",
                          "commit", "done", "failed"}]
      /\ pc'[r] = at /\ job'[r].id = i /\ job'[r].body = w
      /\ \A q \in Req \ {r} : pc'[q] = pc[q] /\ job'[q] = job[q]
  BY <1>1, <1>2 DEF TypeOK
<1>4. job' \in [Req -> [id : RowIds \cup Months, body : WriteBody \cup {None}] \cup {None}]
  BY <1>1, <1>2 DEF TypeOK
<1>5. rows[r] = None /\ holds[r] = {} /\ old[r] = None
  BY <1>1, <1>2 DEF Requests, Fresh, Running
<1>6. Writer(r)' /\ Viewing(r)' /\ Undisturbed(r)'
  BY <1>2, <1>3 DEF Writer, Running, Writes, Viewing, Undisturbed
<1>7. CleanFiguresAreRight'
  BY <1>2, CleanStays
<1>8. disturbed' \subseteq Req
  BY <1>1, <1>2 DEF TypeOK
<1> QED
  BY <1>2, <1>3, <1>4, <1>5, <1>6, <1>7, <1>8

LEMMA AddKeeps ==
  ASSUME IInv, NEW r \in Req, Add(r)
  PROVE  IInv'
<1>1. PICK w \in Bodies : Start(r, "add", r, w, "flush")
  BY DEF Add
<1>2. w \in WriteBody /\ w.n \in Amounts /\ r \in RowIds
  BY InputsTyped DEF Body, WriteBody, RowIds
<1>3. TypeOK /\ old' = old /\ holds' = holds
  BY DEF IInv, Add
<1>4. TypeOK'
  <2>1. /\ pc' \in [Req -> {"idle", "entries", "expenses", "rates", "flush", "invalidate",
                             "commit", "done", "failed"}]
        /\ job' \in [Req -> [id : RowIds \cup Months, body : WriteBody \cup {None}] \cup {None}]
        /\ disturbed' \subseteq Req
        /\ kind' = kind /\ rows' = rows /\ cache' = cache /\ got' = got /\ clean' = clean
    BY <1>1, <1>2, StartTypes
  <2> QED
    BY <1>3, <2>1 DEF TypeOK
<1>5. /\ pc'[r] = "flush" /\ job'[r].id = r /\ job'[r].body = w
      /\ kind' = kind /\ kind[r] = "add" /\ pc[r] = "idle" /\ rows' = rows /\ clean' = clean
      /\ rows[r] = None /\ holds[r] = {} /\ old[r] = None /\ Writer(r)'
      /\ CleanFiguresAreRight' /\ Viewing(r)' /\ Undisturbed(r)'
      /\ \A q \in Req \ {r} : /\ pc'[q] = pc[q] /\ job'[q] = job[q] /\ got'[q] = got[q]
                              /\ q \in disturbed => q \in disturbed'
                              /\ Running(q) /\ kind[q] = "show" => q \in disturbed'
  BY <1>1, <1>2, StartTypes
<1>6. ~ Flushed(r)' /\ ~ Invalidated(r)'
  BY <1>5 DEF Flushed, Invalidated, InvalidatesFirst
<1>7. JobFits(r)' /\ Loaded(r)' /\ Fresh(r)' /\ Holding(r)' /\ Reached(r)'
  BY <1>2, <1>3, <1>5, <1>6 DEF JobFits, Loaded, Fresh, Holding, Reached, Writer
<1>8. Requests(r)'
  BY <1>5, <1>7 DEF Requests
<1>9. \A q \in Req \ {r} : UNCHANGED Own(q)
  BY <1>3, <1>5 DEF Own
<1>10. RowsApart' /\ KeysApart'
  BY <1>3, <1>5, <1>6, <1>9, ApartStays
<1> QED
  BY <1>4, <1>5, <1>8, <1>9, <1>10, QuietStep

LEMMA ChangeKeeps ==
  ASSUME IInv, NEW r \in Req, Change(r)
  PROVE  IInv'
<1>1. PICK i \in RowIds, w \in Bodies :
        /\ rows[i] # None
        /\ w.what = rows[i].what
        /\ w.what = "rate" => w.day = rows[i].day
        /\ w.what = "entry" => MayHold(r, i)
        /\ Start(r, "change", i, w, "flush")
        /\ old' = [old EXCEPT ![r] = rows[i]]
        /\ holds' = [holds EXCEPT ![r] = IF w.what = "entry" THEN {i} ELSE {}]
  BY DEF Change
<1>2. w \in WriteBody /\ w.n \in Amounts
  BY InputsTyped DEF Body, WriteBody
<1>3. TypeOK
  BY DEF IInv
<1>4. /\ pc'[r] = "flush" /\ job'[r].id = i /\ job'[r].body = w
      /\ kind' = kind /\ kind[r] = "change" /\ pc[r] = "idle" /\ rows' = rows /\ clean' = clean
      /\ rows[r] = None /\ Writer(r)'
      /\ CleanFiguresAreRight' /\ Viewing(r)' /\ Undisturbed(r)'
      /\ \A q \in Req \ {r} : /\ pc'[q] = pc[q] /\ job'[q] = job[q] /\ got'[q] = got[q]
                              /\ q \in disturbed => q \in disturbed'
                              /\ Running(q) /\ kind[q] = "show" => q \in disturbed'
  BY <1>1, <1>2, StartTypes
<1>5. /\ old'[r] = rows[i] /\ holds'[r] = (IF w.what = "entry" THEN {i} ELSE {})
      /\ \A q \in Req \ {r} : old'[q] = old[q] /\ holds'[q] = holds[q]
      /\ old' \in [Req -> Row \cup {None}] /\ holds' \in [Req -> SUBSET RowIds]
  BY <1>1, <1>3 DEF TypeOK
<1>6. TypeOK'
  BY <1>1, <1>2, <1>3, <1>5, StartTypes DEF TypeOK
<1>7. ~ Flushed(r)' /\ ~ Invalidated(r)'
  BY <1>4 DEF Flushed, Invalidated, InvalidatesFirst
<1>8. i \in Req => pc[i] = "done" /\ pc'[i] = "done"
  BY <1>1, <1>4 DEF IInv, Requests, Fresh
<1>9. JobFits(r)' /\ Loaded(r)' /\ Fresh(r)' /\ Holding(r)' /\ Reached(r)'
  <2>1. JobFits(r)' /\ Fresh(r)'
    BY <1>1, <1>2, <1>4 DEF JobFits, Fresh, Writer
  <2>2. Loaded(r)'
    BY <1>1, <1>4, <1>5, <1>8 DEF Loaded
  <2>3. Holding(r)' /\ Reached(r)'
    BY <1>4, <1>5, <1>7 DEF Holding, Reached
  <2> QED
    BY <2>1, <2>2, <2>3
<1>10. Requests(r)'
  BY <1>4, <1>9 DEF Requests
<1>11. \A q \in Req \ {r} : UNCHANGED Own(q)
  BY <1>4, <1>5 DEF Own
<1>12. RowsApart'
  BY <1>1, <1>5 DEF IInv, RowsApart, MayHold
<1>13. KeysApart'
  <2>1. \A q \in Req \ {r} : (Writer(q)' <=> Writer(q)) /\ (Flushed(q)' <=> Flushed(q)) /\ Keys(q)' = Keys(q)
    BY <1>4, <1>5 DEF Writer, Running, Writes, Flushed, InvalidatesFirst, Keys
  <2> QED
    BY <1>7, <2>1 DEF IInv, KeysApart
<1> QED
  BY <1>4, <1>6, <1>10, <1>11, <1>12, <1>13, QuietStep

LEMMA RemoveKeeps ==
  ASSUME IInv, NEW r \in Req, Remove(r)
  PROVE  IInv'
<1>1. PICK i \in RowIds :
        /\ rows[i] # None
        /\ Start(r, "remove", i, Sent(rows[i]), IF rows[i].what = "rate" THEN "flush" ELSE "invalidate")
        /\ old' = [old EXCEPT ![r] = rows[i]]
        /\ holds' = holds
  BY DEF Remove
<1>2. TypeOK /\ rows[i] \in Row
  BY <1>1 DEF IInv, TypeOK
<1>3. PICK w, at : w = Sent(rows[i]) /\ at = IF rows[i].what = "rate" THEN "flush" ELSE "invalidate"
  OBVIOUS
<1>4. /\ w \in WriteBody /\ w.what = rows[i].what /\ w.day = rows[i].day
      /\ at \in {"flush", "invalidate"} /\ (at = "flush" <=> w.what = "rate")
  <2>1. Amount(rows[i]) \in Nat
    BY <1>2, AmountNat
  <2> QED
    BY <1>2, <1>3, <2>1 DEF Sent, WriteBody, Row
<1>5. Start(r, "remove", i, w, at)
  BY <1>1, <1>3
<1>6. /\ pc'[r] = at /\ job'[r].id = i /\ job'[r].body = w
      /\ kind' = kind /\ kind[r] = "remove" /\ pc[r] = "idle" /\ rows' = rows /\ clean' = clean
      /\ rows[r] = None /\ holds[r] = {} /\ Writer(r)'
      /\ CleanFiguresAreRight' /\ Viewing(r)' /\ Undisturbed(r)'
      /\ \A q \in Req \ {r} : /\ pc'[q] = pc[q] /\ job'[q] = job[q] /\ got'[q] = got[q]
                              /\ q \in disturbed => q \in disturbed'
                              /\ Running(q) /\ kind[q] = "show" => q \in disturbed'
  BY <1>4, <1>5, StartTypes
<1>7. /\ old'[r] = rows[i]
      /\ \A q \in Req \ {r} : old'[q] = old[q]
      /\ old' \in [Req -> Row \cup {None}]
  BY <1>1, <1>2 DEF TypeOK
<1>8. TypeOK'
  BY <1>1, <1>2, <1>4, <1>5, <1>7, StartTypes DEF TypeOK
<1>9. ~ Flushed(r)' /\ ~ Invalidated(r)'
  BY <1>4, <1>6 DEF Flushed, Invalidated, InvalidatesFirst
<1>10. i \in Req => pc[i] = "done" /\ pc'[i] = "done"
  BY <1>1, <1>6 DEF IInv, Requests, Fresh
<1>11. JobFits(r)' /\ Loaded(r)' /\ Fresh(r)' /\ Holding(r)' /\ Reached(r)'
  <2>1. JobFits(r)' /\ Fresh(r)'
    BY <1>4, <1>6 DEF JobFits, Fresh, Writer
  <2>2. Loaded(r)'
    BY <1>1, <1>4, <1>6, <1>7, <1>10 DEF Loaded
  <2>3. Holding(r)' /\ Reached(r)'
    BY <1>1, <1>6, <1>7, <1>9 DEF Holding, Reached
  <2> QED
    BY <2>1, <2>2, <2>3
<1>12. Requests(r)'
  BY <1>6, <1>11 DEF Requests
<1>13. \A q \in Req \ {r} : UNCHANGED Own(q)
  BY <1>1, <1>6, <1>7 DEF Own
<1>14. RowsApart' /\ KeysApart'
  BY <1>1, <1>6, <1>9, <1>13, ApartStays
<1> QED
  BY <1>6, <1>8, <1>12, <1>13, <1>14, QuietStep

LEMMA FlushKeeps ==
  ASSUME IInv, NEW r \in Req, Flush(r)
  PROVE  IInv'
<1> DEFINE i == job[r].id
<1>1. TypeOK /\ Requests(r) /\ pc[r] = "flush" /\ MayHold(r, i) /\ MayUseKeys(r)
  BY DEF IInv, Flush
<1>2. Writer(r) /\ Running(r) /\ i \in RowIds
  BY <1>1 DEF Requests, JobFits, Writer, Running, Writes
<1>3. CASE Reject(r)
  BY <1>1, <1>3, Ending DEF Reject
<1>4. CASE /\ ~ (kind[r] = "change" /\ rows[i] = None)
           /\ ~ (kind[r] # "remove" /\ DayTaken(job[r].body, i))
           /\ Goto(r, IF InvalidatesFirst(r) THEN "commit" ELSE "invalidate")
           /\ holds' = [holds EXCEPT ![r] = {i}]
           /\ UNCHANGED <<rows, cache, job, old, got, history>>
  <2>1. /\ rows' = rows /\ cache' = cache /\ job' = job /\ old' = old /\ got' = got
        /\ disturbed' = disturbed /\ clean' = clean /\ kind' = kind
        /\ pc'[r] = (IF InvalidatesFirst(r) THEN "commit" ELSE "invalidate")
        /\ holds'[r] = {i}
        /\ \A q \in Req \ {r} : pc'[q] = pc[q] /\ holds'[q] = holds[q]
    BY <1>1, <1>4 DEF history, Goto, TypeOK
  <2>2. TypeOK'
    <3>1. pc' \in [Req -> {"idle", "entries", "expenses", "rates", "flush", "invalidate",
                           "commit", "done", "failed"}]
      BY <1>1, <1>4 DEF TypeOK, Goto
    <3>2. holds' \in [Req -> SUBSET RowIds]
      BY <1>1, <1>2, <1>4 DEF TypeOK
    <3> QED
      BY <1>1, <2>1, <3>1, <3>2 DEF TypeOK
  <2>3. \A q \in Req \ {r} : UNCHANGED Own(q) /\ (q \in disturbed => q \in disturbed')
    BY <2>1 DEF Own
  <2>4. Writer(r)' /\ Flushed(r)' /\ kind[r] # "show" /\ (InvalidatesFirst(r)' <=> InvalidatesFirst(r))
    BY <1>2, <2>1 DEF Writer, Running, Writes, Flushed, InvalidatesFirst
  <2>5. JobFits(r)' /\ Loaded(r)' /\ Fresh(r)' /\ Viewing(r)' /\ Undisturbed(r)'
    <3>1. JobFits(r)' /\ Fresh(r)'
      BY <1>1, <1>2, <2>1 DEF Requests, JobFits, Fresh, Writer, Writes, Running
    <3>2. Loaded(r)'
      BY <1>1, <1>2, <2>1 DEF Requests, Loaded
    <3>3. Viewing(r)' /\ Undisturbed(r)'
      BY <2>1, <2>4 DEF Viewing, Undisturbed
    <3> QED
      BY <3>1, <3>2, <3>3
  <2>6. Holding(r)'
    BY <1>4, <2>1, <2>4 DEF Holding, DayTaken
  <2>7. Reached(r)'
    <3>1. Invalidated(r)' => Invalidated(r)
      BY <1>1, <2>1, <2>4 DEF Invalidated
    <3> QED
      BY <1>1, <1>2, <2>1, <3>1 DEF Requests, Reached
  <2>8. Requests(r)'
    BY <2>5, <2>6, <2>7 DEF Requests
  <2>9. RowsApart'
    BY <1>1, <2>1 DEF IInv, RowsApart, MayHold
  <2>10. KeysApart'
    <3>1. \A q \in Req : Keys(q)' = Keys(q)
      BY <2>1 DEF Keys
    <3>2. \A q \in Req \ {r} : (Writer(q)' <=> Writer(q)) /\ (Flushed(q)' <=> Flushed(q))
      BY <2>1 DEF Writer, Running, Writes, Flushed, InvalidatesFirst
    <3>3. \A q \in Req \ {r} : Writer(q) /\ Flushed(q) => Keys(q) \cap Keys(r) = {}
      BY <1>1 DEF IInv, Requests, Holding, MayUseKeys
    <3> QED
      BY <3>1, <3>2, <3>3 DEF IInv, KeysApart
  <2>11. CleanFiguresAreRight'
    BY <2>1, CleanStays
  <2> QED
    BY <1>1, <1>2, <2>1, <2>2, <2>3, <2>8, <2>9, <2>10, <2>11, QuietStep
<1> QED
  BY <1>3, <1>4 DEF Flush

LEMMA InvalidateKeeps ==
  ASSUME IInv, NEW r \in Req, Invalidate(r)
  PROVE  IInv'
<1> DEFINE gone == MonthsTouched(old[r], job[r].body)
<1>1. /\ TypeOK /\ Requests(r) /\ pc[r] = "invalidate"
      /\ cache' = [m \in Months |-> IF m \in gone THEN None ELSE cache[m]]
      /\ clean' = clean \ gone
  BY DEF IInv, Invalidate
<1>2. Writer(r) /\ Running(r)
  BY <1>1 DEF Requests, JobFits, Writer, Running, Writes
<1>3. /\ rows' = rows /\ job' = job /\ old' = old /\ got' = got /\ holds' = holds
      /\ disturbed' = disturbed /\ kind' = kind
      /\ pc'[r] = (IF InvalidatesFirst(r) THEN "flush" ELSE "commit")
      /\ \A q \in Req \ {r} : pc'[q] = pc[q]
      /\ pc' \in [Req -> {"idle", "entries", "expenses", "rates", "flush", "invalidate",
                          "commit", "done", "failed"}]
  BY <1>1 DEF Invalidate, Goto, TypeOK
<1>4. TypeOK'
  BY <1>1, <1>3 DEF TypeOK
<1>5. \A q \in Req \ {r} : UNCHANGED Own(q) /\ (q \in disturbed => q \in disturbed')
  BY <1>3 DEF Own
<1>6. /\ Writer(r)' /\ kind[r] # "show" /\ (InvalidatesFirst(r)' <=> InvalidatesFirst(r))
      /\ (Flushed(r)' <=> Flushed(r)) /\ Keys(r)' = Keys(r)
  BY <1>1, <1>2, <1>3 DEF Writer, Running, Writes, Flushed, InvalidatesFirst, Keys
<1>7. JobFits(r)' /\ Fresh(r)'
  BY <1>1, <1>2, <1>3 DEF Requests, JobFits, Fresh, Writer, Writes, Running
<1>8. Loaded(r)'
  BY <1>1, <1>2, <1>3 DEF Requests, Loaded
<1>9. Viewing(r)' /\ Undisturbed(r)'
  BY <1>3, <1>6 DEF Viewing, Undisturbed
<1>10. Holding(r)'
  BY <1>1, <1>2, <1>3, <1>6 DEF Requests, Holding, DayTaken
<1>11. Reached(r)'
  BY <1>1, <1>2, <1>3 DEF Requests, Reached
<1>12. Requests(r)'
  BY <1>7, <1>8, <1>9, <1>10, <1>11 DEF Requests
<1>13. RowsApart' /\ KeysApart'
  BY <1>2, <1>3, <1>5, <1>6, ApartStays
<1>14. CleanFiguresAreRight'
  <2>1. \A m \in clean' : m \in clean /\ cache'[m] = cache[m]
    BY <1>1 DEF TypeOK
  <2> QED
    BY <1>3, <2>1, CleanStays
<1> QED
  BY <1>1, <1>2, <1>3, <1>4, <1>5, <1>12, <1>13, <1>14, QuietStep

-----------------------------------------------------------------------------
(***************************************************************************)
(* The commit                                                              *)
(***************************************************************************)
\* What r writes where i was: nothing, or a row of the same table, of the day it was sent or
\* the day it already had, that neither another row nor another request has taken.
Written(r, i, n) ==
  /\ i = job[r].id /\ i \in RowIds /\ Writer(r) /\ Flushed(r) /\ Invalidated(r)
  /\ rows' = [rows EXCEPT ![i] = n]
  /\ n \in Row \cup {None}
  /\ (i \in Req \ {r} => pc[i] = "done") /\ (i = r => rows[i] = None)
  /\ n # None => kind[r] # "remove" /\ n.what = job[r].body.what
  /\ n # None /\ n.day # job[r].body.day => rows[i] # None /\ n.day = rows[i].day
  /\ kind[r] = "change" => n # None
  /\ rows[i] # None => kind[r] # "add" /\ rows[i].what = job[r].body.what
  /\ rows[i] # None /\ job[r].body.what = "rate" => rows[i].day = job[r].body.day

LEMMA CommitWrites ==
  ASSUME IInv, NEW r \in Req, Commit(r)
  PROVE  /\ \E n \in Row \cup {None} : Written(r, job[r].id, n)
         /\ End(r, "done") /\ UNCHANGED <<cache, clean>>
<1>1. TypeOK /\ Requests(r) /\ pc[r] = "commit" /\ End(r, "done") /\ UNCHANGED <<cache, clean>>
  BY DEF IInv, Commit
<1>2. PICK i, w, was : i = job[r].id /\ w = job[r].body /\ was = old[r]
  OBVIOUS
<1>3. Writer(r) /\ Flushed(r) /\ Invalidated(r) /\ i \in RowIds /\ w \in WriteBody
  BY <1>1, <1>2 DEF Requests, JobFits, Writer, Running, Writes, Flushed, Invalidated
<1>4. PICK n : n = CASE kind[r] = "add" -> NewRow(r, w)
                     [] kind[r] = "change" -> Merged(r, rows[i], was, w)
                     [] kind[r] = "remove" -> None
  OBVIOUS
<1>5. rows' = [rows EXCEPT ![i] = n]
  BY <1>2, <1>4 DEF Commit
<1>6. CASE kind[r] = "add"
  <2>1. i = r /\ w.n \in Amounts /\ rows[r] = None /\ r \in RowIds
    BY <1>1, <1>2, <1>3, <1>6 DEF Requests, JobFits, Fresh, RowIds
  <2>2. n = NewRow(r, w)
    BY <1>4, <1>6
  <2>3. n \in Row /\ n.what = w.what /\ n.day = w.day /\ n # None
    BY <1>3, <2>1, <2>2, NoneIsNoValue DEF NewRow, Row, WriteBody
  <2> QED
    BY <1>1, <1>2, <1>3, <1>5, <1>6, <2>1, <2>3 DEF Written
<1>7. CASE kind[r] = "change"
  <2>1. /\ w.n \in Amounts /\ rows[i] # None /\ was # None /\ was.what = w.what
        /\ rows[i].what = w.what /\ (i \in Req => pc[i] = "done")
        /\ w.what = "rate" => w.day = was.day /\ rows[i].day = w.day
    BY <1>1, <1>2, <1>3, <1>7 DEF Requests, JobFits, Loaded, Holding
  <2>2. rows[i] \in Row /\ was \in Row /\ r \in RowIds
    BY <1>1, <1>2, <1>3, <2>1 DEF TypeOK, RowIds
  <2>3. n = Merged(r, rows[i], was, w)
    BY <1>4, <1>7
  <2>4. {[by |-> r, n |-> w.n]} \in SUBSET [by : RowIds, n : Amounts]
    BY <2>1, <2>2
  <2>5. PICK its : its = IF w.what # "rate" THEN (rows[i].items \ was.items) \cup {[by |-> r, n |-> w.n]}
                         ELSE IF w.n = Amount(was) THEN rows[i].items ELSE {[by |-> r, n |-> w.n]}
    OBVIOUS
  <2>6. its \in SUBSET [by : RowIds, n : Amounts]
    BY <2>2, <2>4, <2>5 DEF Row
  <2>7. n = [rows[i] EXCEPT !.day = IF w.day = was.day THEN @ ELSE w.day,
                            !.final = IF w.final = was.final THEN @ ELSE w.final,
                            !.items = its]
    BY <2>3, <2>5 DEF Merged, NewRow
  <2>8. n \in Row /\ n.what = w.what /\ (n.day = w.day \/ n.day = rows[i].day)
    BY <1>3, <2>1, <2>2, <2>6, <2>7 DEF Row, WriteBody
  <2>9. n # None
    BY <2>8, NoneIsNoValue
  <2> QED
    BY <1>1, <1>2, <1>3, <1>5, <1>7, <2>1, <2>8, <2>9 DEF Written
<1>8. CASE kind[r] = "remove"
  <2>1. n = None
    BY <1>4, <1>8
  <2>2. /\ (i \in Req => pc[i] = "done")
        /\ rows[i] # None => rows[i].what = w.what
        /\ w.what = "rate" /\ rows[i] # None => rows[i].day = w.day
    BY <1>1, <1>2, <1>3, <1>8 DEF Requests, Loaded
  <2> QED
    BY <1>1, <1>2, <1>3, <1>5, <1>8, <2>1, <2>2 DEF Written
<1> QED
  BY <1>1, <1>3, <1>6, <1>7, <1>8 DEF Writer, Writes

LEMMA CommitKeepsOthers ==
  ASSUME IInv, NEW r \in Req, NEW i, NEW n, Written(r, i, n), End(r, "done"), clean' = clean,
         NEW q \in Req \ {r}
  PROVE  Requests(q)'
<1>1. /\ pc'[q] = pc[q] /\ job'[q] = job[q] /\ old'[q] = old[q] /\ got'[q] = got[q]
      /\ holds'[q] = holds[q] /\ kind' = kind /\ (q \in disturbed => q \in disturbed')
  BY EndTypes DEF IInv, Own
<1>2. /\ Requests(q) /\ Requests(r) /\ TypeOK
      /\ \A p \in Req : pc[p] = "done" => pc'[p] = "done"
  BY EndTypes DEF IInv, Own
<1>3. \A j \in RowIds : rows'[j] = IF j = i THEN n ELSE rows[j]
  BY <1>2 DEF TypeOK, Written
<1>4. PICK w, v, k : w = job[r].body /\ v = job[q].body /\ k = job[q].id
  OBVIOUS
<1>5. (Running(q)' <=> Running(q)) /\ (Writer(q)' <=> Writer(q))
      /\ (Flushed(q)' <=> Flushed(q)) /\ (Invalidated(q)' <=> Invalidated(q))
  BY <1>1 DEF Running, Writer, Writes, Flushed, Invalidated, InvalidatesFirst
<1>6. JobFits(q)' /\ Viewing(q)'
  BY <1>1, <1>2, <1>5 DEF Requests, JobFits, Viewing
<1>7. Writer(q) /\ kind[q] # "add" /\ k = i => i # r
  BY <1>2, <1>4 DEF Requests, Loaded, Written, Writer, Running
<1>8. Loaded(q)'
  <2>1. SUFFICES ASSUME Writer(q), kind[q] # "add"
                 PROVE  Loaded(q)'
    BY <1>1, <1>5 DEF Loaded
  <2>2. /\ (k \in Req => pc[k] = "done") /\ k \in RowIds
        /\ old[q] # None /\ old[q].what = v.what
        /\ kind[q] = "remove" => v.day = old[q].day
        /\ rows[k] # None => rows[k].what = v.what
        /\ v.what = "rate" => v.day = old[q].day /\ (rows[k] # None => rows[k].day = v.day)
    BY <1>2, <1>4, <2>1 DEF Requests, Loaded, JobFits
  <2>3. rows'[k] # None => rows'[k].what = v.what /\ (v.what = "rate" => rows'[k].day = v.day)
    <3>1. CASE k # i
      BY <1>3, <2>2, <3>1
    <3>2. CASE k = i
      <4>1. n # None => rows[i] # None
        BY <1>2, <1>7, <2>1, <2>2, <3>2 DEF Requests, Holding, JobFits, Written, Writer, Writes
      <4>2. n # None => n.what = w.what /\ rows[i].what = w.what
        BY <1>4, <4>1 DEF Written
      <4>3. n # None /\ v.what = "rate" => n.day = rows[i].day
        BY <1>4, <2>2, <3>2, <4>1, <4>2 DEF Written
      <4> QED
        BY <1>3, <2>2, <3>2, <4>1, <4>2, <4>3
    <3> QED
      BY <3>1, <3>2
  <2> QED
    BY <1>1, <1>2, <1>4, <2>2, <2>3 DEF Loaded
<1>9. Fresh(q)'
  <2>1. q \in RowIds /\ (q = i => pc[q] = "done")
    BY DEF Written, RowIds
  <2> QED
    BY <1>1, <1>2, <1>3, <1>5, <2>1 DEF Requests, Fresh
<1>10. Holding(q)'
  <2>1. SUFFICES ASSUME Writer(q)
                 PROVE  Holding(q)'
    BY <1>5 DEF Holding
  <2>2. /\ holds[q] \subseteq {k} /\ k \in RowIds
        /\ holds[q] # {} /\ ~ Flushed(q) => v.what = "entry"
        /\ Flushed(q) => /\ holds[q] = {k}
                         /\ kind[q] = "change" => rows[k] # None
                         /\ kind[q] # "remove" => ~ DayTaken(v, k)
    BY <1>2, <1>4, <2>1 DEF Requests, Holding, JobFits
  <2>3. Flushed(q) => k # i
    BY <1>2, <2>2 DEF IInv, RowsApart, Requests, Holding, Written
  <2>4. ASSUME Flushed(q), kind[q] # "remove", DayTaken(v, k)'
        PROVE  FALSE
    <3>1. v' = v /\ k' = k
      OBVIOUS
    <3>2. v.what # "entry" /\ \E j \in RowIds \ {k} : rows'[j] # None /\ rows'[j].what = v.what /\ rows'[j].day = v.day
      BY <2>4 DEF DayTaken
    <3>3. PICK j \in RowIds \ {k} : rows'[j] # None /\ rows'[j].what = v.what /\ rows'[j].day = v.day
      BY <3>2
    <3>4. ~ (rows[j] # None /\ rows[j].what = v.what /\ rows[j].day = v.day)
      BY <2>2, <2>4, <3>2 DEF DayTaken
    <3>5. j = i /\ n # None /\ n.what = v.what /\ n.day = v.day
      BY <1>3, <3>3, <3>4
    <3>6. n.what = w.what /\ (n.day = w.day \/ (rows[i] # None /\ rows[i].what = w.what /\ n.day = rows[i].day))
      BY <1>4, <3>5 DEF Written
    <3>7. w.what = v.what /\ w.day = v.day
      BY <3>4, <3>5, <3>6
    <3>8. Keys(r) \cap Keys(q) = {}
      BY <2>1, <2>4 DEF IInv, KeysApart, Written
    <3>9. v # None /\ w # None
      BY <1>2, <1>4, <2>1, NoneIsNoValue DEF Requests, JobFits, Written
    <3>10. <<v.what, v.day>> \in Keys(q) /\ <<w.what, w.day>> \in Keys(r)
      BY <1>4, <3>2, <3>7, <3>9 DEF Keys
    <3> QED
      BY <3>7, <3>8, <3>10
  <2> QED
    BY <1>1, <1>3, <1>4, <1>5, <2>2, <2>3, <2>4 DEF Holding
<1>11. Undisturbed(q)'
  BY <1>1, <1>2, <1>5 DEF Requests, Undisturbed, Written
<1>12. Reached(q)'
  <2>1. SUFFICES ASSUME Writer(q)
                 PROVE  Reached(q)'
    BY <1>5 DEF Reached
  <2>2. /\ Invalidated(q) => MonthsTouched(old[q], v) \cap clean = {}
        /\ kind[q] # "add" /\ rows[k] # None /\ MonthOf(rows[k].day) # MonthOf(old[q].day)
             => MonthOf(rows[k].day) \notin clean
        /\ k \in RowIds
    BY <1>2, <1>4, <2>1 DEF Requests, Reached, JobFits
  <2>3. ASSUME kind[q] # "add", rows'[k] # None, MonthOf(rows'[k].day) # MonthOf(old[q].day)
        PROVE  MonthOf(rows'[k].day) \notin clean
    <3>1. CASE k # i
      BY <1>3, <2>2, <2>3, <3>1
    <3>2. CASE k = i /\ n.day # w.day
      BY <1>3, <1>4, <2>2, <2>3, <3>2 DEF Written
    <3>3. CASE k = i /\ n.day = w.day
      <4>1. MonthsTouched(old[r], w) \cap clean = {}
        BY <1>2, <1>4 DEF Requests, Reached, Written
      <4>2. clean \subseteq Months /\ \A m \in Months : m >= m
        BY <1>2 DEF TypeOK, Months
      <4>3. MonthOf(w.day) \notin clean
        BY <4>1, <4>2 DEF MonthsTouched
      <4> QED
        BY <1>3, <2>2, <3>3, <4>3
    <3> QED
      BY <3>1, <3>2, <3>3
  <2> QED
    BY <1>1, <1>4, <1>5, <2>2, <2>3 DEF Reached
<1> QED
  BY <1>6, <1>8, <1>9, <1>10, <1>11, <1>12 DEF Requests

LEMMA CommitKeeps ==
  ASSUME IInv, NEW r \in Req, Commit(r)
  PROVE  IInv'
<1>1. End(r, "done") /\ cache' = cache /\ clean' = clean /\ TypeOK /\ Requests(r)
  BY CommitWrites DEF IInv
<1>2. PICK i, w, n : i = job[r].id /\ w = job[r].body /\ n \in Row \cup {None} /\ Written(r, i, n)
  BY CommitWrites
<1>3. \A j \in RowIds : rows'[j] = IF j = i THEN n ELSE rows[j]
  BY <1>1, <1>2 DEF TypeOK, Written
<1>4. w \in WriteBody /\ Writer(r) /\ Flushed(r) /\ i \in RowIds
  BY <1>1, <1>2 DEF Requests, JobFits, Written
<1>5. TypeOK'
  <2>1. rows' \in [RowIds -> Row \cup {None}]
    BY <1>1, <1>2 DEF TypeOK, Written
  <2>2. ASSUME NEW j \in RowIds \ {i}, rows[j] # None, n # None, n.what # "entry"
        PROVE  <<rows[j].what, rows[j].day>> # <<n.what, n.day>>
    <3>1. n.what = w.what /\ (n.day # w.day => rows[i] # None /\ n.day = rows[i].day /\ rows[i].what = w.what)
      BY <1>2, <2>2 DEF Written
    <3>2. ~ DayTaken(w, i)
      BY <1>1, <1>2, <1>4, <2>2 DEF Requests, Holding, Written
    <3>3. CASE n.day = w.day
      BY <2>2, <3>1, <3>2, <3>3 DEF DayTaken
    <3>4. CASE n.day # w.day
      BY <1>1, <1>4, <2>2, <3>1, <3>4 DEF TypeOK
    <3> QED
      BY <3>3, <3>4
  <2>3. ASSUME NEW j \in RowIds, NEW k \in RowIds, j # k, rows'[j] # None, rows'[k] # None,
               rows'[j].what # "entry"
        PROVE  <<rows'[j].what, rows'[j].day>> # <<rows'[k].what, rows'[k].day>>
    <3>1. CASE j = i
      BY <1>3, <2>2, <2>3, <3>1
    <3>2. CASE k = i
      <4>1. n = rows'[k] /\ rows[j] = rows'[j] /\ j \in RowIds \ {i}
        BY <1>3, <2>3, <3>2
      <4>2. CASE n.what = "entry"
        BY <2>3, <4>1, <4>2
      <4>3. CASE n.what # "entry"
        BY <2>2, <2>3, <4>1, <4>3
      <4> QED
        BY <4>2, <4>3
    <3>3. CASE j # i /\ k # i
      BY <1>1, <1>3, <2>3, <3>3 DEF TypeOK
    <3> QED
      BY <3>1, <3>2, <3>3
  <2> QED
    BY <1>1, <2>1, <2>3, EndTypes DEF TypeOK
<1>6. CleanFiguresAreRight'
  <2>1. SUFFICES ASSUME NEW m \in clean
                 PROVE  Figures(m)' = Figures(m)
    BY <1>1 DEF IInv, CleanFiguresAreRight
  <2>2. m \in Months
    BY <1>1 DEF TypeOK
  <2>3. MonthsTouched(old[r], w) \cap clean = {}
    BY <1>1, <1>2 DEF Requests, Reached, Written
  <2>4. rows[i] # None => /\ rows[i].what = w.what
                          /\ w.what = "rate" => rows[i].day = w.day
                          /\ old[r] # None
                          /\ MonthOf(rows[i].day) # MonthOf(old[r].day) => MonthOf(rows[i].day) \notin clean
    BY <1>1, <1>2, <1>4 DEF Requests, Loaded, Reached, Written
  <2>5. ~ CountsIn(w, m)
    <3>1. CASE w.what = "rate"
      <4>1. ~ (m >= MonthOf(w.day))
        BY <2>2, <2>3, <3>1 DEF MonthsTouched
      <4>2. m \in Int /\ MonthOf(w.day) \in Int
        <5>1. w.day \in Days
          BY <1>4 DEF WriteBody
        <5>2. w.day <= w.day
          BY <5>1 DEF Days
        <5> QED
          BY <2>2, <5>1, <5>2, MonthsOrdered DEF Months
      <4> QED
        BY <3>1, <4>1, <4>2 DEF CountsIn
    <3>2. CASE w.what # "rate"
      BY <2>3, <3>2 DEF MonthsTouched, CountsIn
    <3> QED
      BY <3>1, <3>2
  <2>6. rows[i] # None => ~ CountsIn(rows[i], m)
    <3>1. SUFFICES ASSUME rows[i] # None
                   PROVE  ~ CountsIn(rows[i], m)
      OBVIOUS
    <3>2. CASE w.what = "rate"
      BY <2>4, <2>5, <3>1, <3>2 DEF CountsIn
    <3>3. CASE w.what # "rate"
      BY <2>3, <2>4, <3>1, <3>3 DEF MonthsTouched, CountsIn
    <3> QED
      BY <3>2, <3>3
  <2>7. n # None => ~ CountsIn(n, m)
    <3>1. SUFFICES ASSUME n # None
                   PROVE  ~ CountsIn(n, m)
      OBVIOUS
    <3>2. n.what = w.what /\ (n.day = w.day \/ (rows[i] # None /\ n.day = rows[i].day))
      BY <1>2, <3>1 DEF Written
    <3> QED
      BY <2>4, <2>5, <2>6, <3>2 DEF CountsIn
  <2>8. \A j \in RowIds : \/ rows[j] = rows'[j]
                          \/ \A x \in {rows[j], rows'[j]} \ {None} : ~ CountsIn(x, m)
    BY <1>3, <2>6, <2>7
  <2>9. rows \in RowTables /\ rows' \in RowTables
    BY <1>1, <1>5 DEF TypeOK, RowTables
  <2> QED
    BY <2>2, <2>8, <2>9, FiguresSame
<1>7. /\ pc'[r] = "done" /\ holds'[r] = {} /\ kind' = kind
      /\ \A q \in Req \ {r} : UNCHANGED Own(q) /\ (q \in disturbed => q \in disturbed')
  BY <1>1, EndTypes
<1>8. Requests(r)' /\ ~ Writer(r)'
  BY <1>7, EndedFits
<1>9. RowsApart' /\ KeysApart'
  BY <1>7, <1>8, ApartStays
<1>10. \A q \in Req \ {r} : Requests(q)'
  BY <1>1, <1>2, CommitKeepsOthers
<1> QED
  BY <1>5, <1>6, <1>8, <1>9, <1>10 DEF IInv

-----------------------------------------------------------------------------
(***************************************************************************)
(* The invariant holds                                                     *)
(***************************************************************************)
LEMMA ExpireKeeps ==
  ASSUME IInv, NEW m \in Months, Expire(m)
  PROVE  IInv'
<1>1. /\ TypeOK /\ cache' = [cache EXCEPT ![m] = None] /\ clean' = clean \ {m}
      /\ rows' = rows /\ kind' = kind /\ pc' = pc /\ job' = job /\ old' = old /\ got' = got
      /\ holds' = holds /\ disturbed' = disturbed
  BY DEF IInv, Expire, private
<1>2. \A n \in Months : cache'[n] = IF n = m THEN None ELSE cache[n]
  BY <1>1 DEF TypeOK
<1>3. TypeOK'
  <2>1. cache' \in [Months -> Figure \cup {None}]
    BY <1>1 DEF TypeOK
  <2>2. clean' \subseteq {n \in Months : cache'[n] # None}
    BY <1>1, <1>2 DEF TypeOK
  <2> QED
    BY <1>1, <2>1, <2>2 DEF TypeOK
<1>4. CleanFiguresAreRight'
  <2>1. clean \subseteq Months
    BY <1>1 DEF TypeOK
  <2> QED
    BY <1>1, <1>2, <2>1, CleanStays
<1>5. \A q \in Req : Writer(q)' = Writer(q)
  BY <1>1 DEF Writer, Running, Writes
<1>6. ASSUME NEW q \in Req
      PROVE  Requests(q)'
  BY <1>1, <1>5, RequestsStay DEF Own
<1>7. RowsApart' /\ KeysApart'
  BY <1>1 DEF IInv, RowsApart, KeysApart, Writer, Running, Writes, Flushed, InvalidatesFirst, Keys
<1> QED
  BY <1>3, <1>4, <1>6, <1>7 DEF IInv

LEMMA RestartKeeps ==
  ASSUME IInv, Restart
  PROVE  IInv'
<1>1. /\ TypeOK /\ rows' = rows /\ kind' = kind
      /\ pc' = [r \in Req |-> IF Running(r) THEN "failed" ELSE pc[r]]
      /\ cache' = [m \in Months |-> None]
      /\ job' = [r \in Req |-> None]
      /\ old' = [r \in Req |-> None]
      /\ got' = [r \in Req |-> [what \in {} |-> None]]
      /\ holds' = [r \in Req |-> {}]
      /\ disturbed' = {} /\ clean' = {}
  BY DEF IInv, Restart
<1>2. TypeOK'
  BY <1>1 DEF TypeOK
<1>3. CleanFiguresAreRight'
  BY <1>1 DEF CleanFiguresAreRight
<1>4. ASSUME NEW q \in Req
      PROVE  Requests(q)' /\ ~ Running(q)'
  <2>1. ~ Running(q)'
    BY <1>1 DEF Running
  <2>2. Fresh(q)'
    <3>1. pc'[q] # "done" => rows[q] = None
      BY <1>1 DEF IInv, Requests, Fresh, Running
    <3>2. old'[q] = None /\ DOMAIN got'[q] = {} /\ holds'[q] = {}
      BY <1>1
    <3> QED
      BY <1>1, <3>1, <3>2 DEF Fresh
  <2> QED
    BY <2>1, <2>2 DEF Requests, JobFits, Loaded, Holding, Viewing, Undisturbed, Reached, Writer
<1>5. RowsApart' /\ KeysApart'
  BY <1>1, <1>4 DEF RowsApart, KeysApart, Writer
<1> QED
  BY <1>2, <1>3, <1>4, <1>5 DEF IInv

LEMMA InvariantHolds == Spec => []IInv
<1>1. Init => IInv
  <2> SUFFICES ASSUME Init
               PROVE  IInv
    OBVIOUS
  <2>1. TypeOK
    <3>1. \A i, j \in RowIds :
            i # j /\ rows[i] # None /\ rows[j] # None /\ rows[i].what # "entry"
            => <<rows[i].what, rows[i].day>> # <<rows[j].what, rows[j].day>>
      BY DaysAreUnique DEF Init
    <3> QED
      BY <3>1, InputsTyped DEF Init, TypeOK
  <2>2. ASSUME NEW q \in Req
        PROVE  Requests(q) /\ ~ Running(q)
    <3>1. /\ ~ Running(q) /\ rows[q] = None /\ old[q] = None /\ DOMAIN got[q] = {}
          /\ holds[q] = {}
      BY InputsTyped DEF Init, Running
    <3> QED
      BY <3>1 DEF Requests, JobFits, Loaded, Fresh, Holding, Viewing, Undisturbed, Reached, Writer
  <2>3. CleanFiguresAreRight
    BY DEF Init, CleanFiguresAreRight
  <2>4. RowsApart /\ KeysApart
    BY <2>2 DEF Init, RowsApart, KeysApart, Writer
  <2> QED
    BY <2>1, <2>2, <2>3, <2>4 DEF IInv
<1>2. IInv /\ [Next]_vars => IInv'
  <2> SUFFICES ASSUME IInv, [Next]_vars
               PROVE  IInv'
    OBVIOUS
  <2>1. ASSUME NEW r \in Req, Show(r)
        PROVE  IInv'
    BY <2>1, ShowKeeps
  <2>2. ASSUME NEW r \in Req, ReadEntries(r)
        PROVE  IInv'
    BY <2>2, ReadKeeps DEF ReadEntries
  <2>3. ASSUME NEW r \in Req, ReadExpenses(r)
        PROVE  IInv'
    BY <2>3, ReadKeeps DEF ReadExpenses
  <2>4. ASSUME NEW r \in Req, ReadRatesAndStore(r)
        PROVE  IInv'
    BY <2>4, StoreKeeps
  <2>5. ASSUME NEW r \in Req, Add(r)
        PROVE  IInv'
    BY <2>5, AddKeeps
  <2>6. ASSUME NEW r \in Req, Change(r)
        PROVE  IInv'
    BY <2>6, ChangeKeeps
  <2>7. ASSUME NEW r \in Req, Remove(r)
        PROVE  IInv'
    BY <2>7, RemoveKeeps
  <2>8. ASSUME NEW r \in Req, Flush(r)
        PROVE  IInv'
    BY <2>8, FlushKeeps
  <2>9. ASSUME NEW r \in Req, Invalidate(r)
        PROVE  IInv'
    BY <2>9, InvalidateKeeps
  <2>10. ASSUME NEW r \in Req, Commit(r)
         PROVE  IInv'
    BY <2>10, CommitKeeps
  <2>11. ASSUME NEW r \in Req, Abort(r)
         PROVE  IInv'
    BY <2>11, Ending DEF Abort, Reject, Running
  <2>12. ASSUME NEW m \in Months, Expire(m)
         PROVE  IInv'
    BY <2>12, ExpireKeeps
  <2>13. CASE Restart
    BY <2>13, RestartKeeps
  <2>14. CASE UNCHANGED vars
    <3>1. /\ rows' = rows /\ cache' = cache /\ kind' = kind /\ pc' = pc /\ job' = job /\ old' = old
          /\ got' = got /\ holds' = holds /\ disturbed' = disturbed /\ clean' = clean
      BY <2>14 DEF vars, private, history
    <3>2. \A q \in Req : Writer(q)' = Writer(q)
      BY <3>1 DEF Writer, Running, Writes
    <3>3. ASSUME NEW q \in Req
          PROVE  Requests(q)'
      BY <3>1, <3>2, RequestsStay DEF Own
    <3>4. TypeOK'
      BY <3>1 DEF IInv, TypeOK
    <3>5. RowsApart' /\ KeysApart'
      BY <3>1 DEF IInv, RowsApart, KeysApart, Writer, Running, Writes, Flushed, InvalidatesFirst, Keys
    <3>6. CleanFiguresAreRight'
      BY <3>1, CleanStays
    <3> QED
      BY <3>3, <3>4, <3>5, <3>6 DEF IInv
  <2> QED
    BY <2>1, <2>2, <2>3, <2>4, <2>5, <2>6, <2>7, <2>8, <2>9, <2>10, <2>11, <2>12, <2>13, <2>14
       DEF Next, Quiet
<1> QED
  BY <1>1, <1>2, PTL DEF Spec

(***************************************************************************)
(* The tables keep their shape and their unique days, whatever requests    *)
(* run into each other.                                                    *)
(***************************************************************************)
THEOREM TypesHold == Spec => []TypeOK
<1>1. IInv => TypeOK
  BY DEF IInv
<1> QED
  BY <1>1, InvariantHolds, PTL

(***************************************************************************)
(* A summary computed while nothing was being written is what the tables   *)
(* say for as long as it is cached: no later write of an entry, an expense *)
(* day or a rate is committed without having emptied the months it counts  *)
(* in (dashboard_service, cache.py and the invalidations of the services). *)
(***************************************************************************)
THEOREM CleanFiguresAreRightHolds == Spec => []CleanFiguresAreRight
<1>1. IInv => CleanFiguresAreRight
  BY DEF IInv
<1> QED
  BY <1>1, InvariantHolds, PTL
=============================================================================
