------------------------------ MODULE Product ------------------------------
(***************************************************************************)
(* The data every part of the stock manager shares: products, the requests *)
(* of client.h, and C's int.  A product is a name and a quantity           *)
(* (include/product.h); names are a small set, the quantity keeps the      *)
(* wrap-around of a C int.                                                 *)
(***************************************************************************)
EXTENDS Integers

CONSTANTS
  Names,        \* product names in play
  Quantities,   \* quantities a caller passes to add, deposit and take
  IntMax,       \* INT_MAX: an int is one of -(IntMax+1) .. IntMax
  Absent        \* there is no tuple (file) of that name

ASSUME IntMaxAssumption == IntMax \in Nat

Ints == -(IntMax + 1) .. IntMax

ASSUME QuantitiesAssumption == Quantities \subseteq Ints

ASSUME AbsentAssumption == Absent \notin Int

\* What the hardware does to the sum of two ints.
Wrap(x) == ((x + IntMax + 1) % (2 * (IntMax + 1))) - (IntMax + 1)

\* The five operations of client.h; show and remove take no quantity.
Requests ==
  [op : {"show", "remove"}, name : Names, quantity : {0}]
    \cup [op : {"add", "deposit", "take"}, name : Names, quantity : Quantities]

\* deposit and take refuse a negative quantity before anything else happens.
Refused(r) == r.op \in {"deposit", "take"} /\ r.quantity < 0

\* The signed quantity a deposit or a take adds to the stored one.
Delta(r) == IF r.op = "take" THEN -r.quantity ELSE r.quantity

=============================================================================
