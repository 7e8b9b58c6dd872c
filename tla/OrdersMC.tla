------------------------------- MODULE OrdersMC -------------------------------
(* Instances of Orders for TLC. *)
EXTENDS Orders

CONSTANTS p1, p2

Product(s, price, n) == [sku |-> s, price |-> price, stock |-> n, active |-> TRUE]

TwoSkus == {Product("x", 1, 1), Product("y", 1, 2)}

OneSku == {Product("x", 1, 1)}

(* Price and availability change together or apart, so that a mixture of   *)
(* two catalogs is no catalog.                                             *)
AnyPatch == {[price |-> 2], [active |-> FALSE], [stock |-> 0], [sku |-> "x"]}

NoPatch == {}

Line(p, n) == [product |-> p, quantity |-> n]

(* One line for each product, or two for one, more than its stock in all.  *)
TwoLines == {<<Line(p1, 1), Line(p2, 1)>>, <<Line(p2, 2), Line(p2, 1)>>}

SameTwice == {<<Line(p1, 1), Line(p1, 1)>>}
===============================================================================
