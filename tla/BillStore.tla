----------------------------- MODULE BillStore ------------------------------
(***************************************************************************)
(* What the storage of bill photos promises, with no requests and no       *)
(* transactions: a photo is stored before a row names it, and it is taken  *)
(* away only once no row names it any more.  CreditLedger is shown to      *)
(* implement this specification.                                           *)
(***************************************************************************)
EXTENDS FiniteSets

VARIABLES
  named,    \* keys that rows name
  stored    \* keys of the objects in storage

vars == <<named, stored>>

Init == named \subseteq stored

\* An upload, under a key nothing has.
Store == /\ \E key \in stored' \ stored : stored' = stored \cup {key}
         /\ UNCHANGED named

\* Rows are written: a row can only come to name what is there.
Name == named' \subseteq stored /\ UNCHANGED stored

\* Objects that nothing names go.  They need not: an object left over does no harm.
Discard == stored' \subseteq stored /\ named \subseteq stored' /\ UNCHANGED named

Next == Store \/ Name \/ Discard

Spec == Init /\ [][Next]_vars
=============================================================================
