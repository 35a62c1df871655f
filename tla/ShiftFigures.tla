---------------------------- MODULE ShiftFigures ----------------------------
(***************************************************************************)
(* The money of one shift: what its meters, oil rows and payment lines     *)
(* amount to, computed twice by FuelEntryService, once to tie a shortage   *)
(* or an excess to the worker and once for the screen.                     *)
(*                                                                         *)
(* The code uses exact decimals of different scales, which are integers    *)
(* here: what is kept with two decimals (payments, the offer, what is owed *)
(* on record) counts hundredths; a quantity times its rate counts the      *)
(* smallest part such a product can have, of which Unit make a hundredth.  *)
(***************************************************************************)
EXTENDS Integers, Sequences, FiniteSets, FiniteSetsExt

CONSTANTS
  None,
  Unit    \* 10^4: litres and rates have three decimals

Fuels == {"petrol", "diesel", "oil"}
Nozzles == {"nozzle1", "nozzle2"}

\* What the form sends for one nozzle, and the row kept for it.
ReadingIn == [opening : Nat, closing : Nat, testing : Nat, rate : Nat]
Reading == [fuel : Fuels, nozzle : Nozzles, opening : Nat, closing : Nat, testing : Nat, rate : Nat]
NozzlesIn == [Nozzles -> ReadingIn]
OilRowIn == [count : Nat, rate : Nat]
OilRow == [type : {"pocket", "cane"}, count : Nat, rate : Nat]

ASSUME NoneIsNoFigure == None \notin [Nozzles -> Nat]
ASSUME UnitIsPositive == Unit \in Nat \ {0}

Zero == [opening |-> 0, closing |-> 0, testing |-> 0, rate |-> 0]
Total(f(_), S) == MapThenSumSet(f, S)
Largest(a, b) == IF a >= b THEN a ELSE b

\* A column with two decimals, Numeric(_, 2), keeps the nearest hundredth, of two the larger.
Hundredths(n) == (2 * n + Unit) \div (2 * Unit)

ReadingLiters(r) == Largest(0, r.closing - r.opening - r.testing)
ReadingAmount(r) == ReadingLiters(r) * r.rate

\* A final shift's meters only ran forwards, and nothing sold is free of charge.
ValidFinalReadings(body) ==
  \A f \in {g \in Fuels : body.meters[g] # None}, n \in Nozzles :
    LET r == body.meters[f][n] IN
    /\ r.closing - r.opening - r.testing >= 0
    /\ ReadingLiters(r) > 0 => r.rate > 0

BuildReadings(body) ==
  {[fuel |-> f, nozzle |-> n, opening |-> body.meters[f][n].opening,
    closing |-> body.meters[f][n].closing, testing |-> body.meters[f][n].testing,
    rate |-> body.meters[f][n].rate] :
      f \in {g \in Fuels : body.meters[g] # None}, n \in Nozzles}

Typed(type, rows) ==
  [i \in DOMAIN rows |-> [type |-> type, count |-> rows[i].count, rate |-> rows[i].rate]]
BuildOilRows(body) == Typed("pocket", body.pocket) \o Typed("cane", body.cane)

OilTotal(entry, type) ==
  Total(LAMBDA i : entry.oil[i].count * entry.oil[i].rate,
        {i \in DOMAIN entry.oil : entry.oil[i].type = type})

\* The offer takes nothing off pocket oil or fuel, however large it is.
CaneTotal(entry) == Largest(0, OilTotal(entry, "cane") - entry.offer * Unit)
PaymentsTotal(entry) == Total(LAMBDA i : entry.lines[i].amount, DOMAIN entry.lines) * Unit

\* Mutation of ShiftTotals: the offer is taken off all the oil.
OfferOffAll(entry) ==
  [sale |-> Total(ReadingAmount, entry.readings)
            + Largest(0, OilTotal(entry, "pocket") + OilTotal(entry, "cane") - entry.offer * Unit),
   paid |-> PaymentsTotal(entry)]

\* _shift_totals: every stored reading.
ShiftTotals(entry) ==
  [sale |-> Total(ReadingAmount, entry.readings) + OilTotal(entry, "pocket") + CaneTotal(entry),
   paid |-> PaymentsTotal(entry)]

\* What the screen shows for one fuel: both nozzles, zeros for one that has no
\* reading, nothing at all when neither has.
NozzlesOut(entry, fuel) ==
  LET of(n) == {r \in entry.readings : r.fuel = fuel /\ r.nozzle = n} IN
  IF \A n \in Nozzles : of(n) = {} THEN None
  ELSE [n \in Nozzles |-> LET r == IF of(n) = {} THEN Zero ELSE CHOOSE x \in of(n) : TRUE
                          IN  ReadingLiters(r) * r.rate]

ExcessShortage(entry) ==
  LET shown == {f \in Fuels : NozzlesOut(entry, f) # None}
      fuel == Total(LAMBDA f : NozzlesOut(entry, f)["nozzle1"] + NozzlesOut(entry, f)["nozzle2"], shown)
  IN  PaymentsTotal(entry) - (fuel + OilTotal(entry, "pocket") + CaneTotal(entry))
=============================================================================
