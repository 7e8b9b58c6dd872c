------------------------------ MODULE PaymentsMC ------------------------------
(***************************************************************************)
(* Instances of Payments for TLC.  Transactions are named for the provider *)
(* that issues them: s1, s2 are Stripe PaymentIntents, b1 a bKash payment. *)
(***************************************************************************)
EXTENDS Payments

CONSTANTS pen, cup, o1, o2, s1, s2, b1

ProviderOf == [t \in Txns |-> IF t = b1 THEN "BKASH" ELSE "STRIPE"]

Line(p, n) == [product |-> p, quantity |-> n]

(* Units of each product in the first n lines of a sequence of lines.      *)
TotalsOf(items) ==
    LET totals[n \in 0..Len(items)] ==
            [p \in Products |->
                IF n = 0 THEN 0
                ELSE totals[n-1][p] +
                     IF items[n].product = p THEN items[n].quantity ELSE 0]
    IN  totals

(* One order with one line of two units.                                   *)
OneLine == [o \in Orders |-> <<Line(pen, 2)>>]

(* Crossed orders, one of which takes the last product twice.              *)
Mixed == [o \in Orders |->
    IF o = o1 THEN <<Line(pen, 1), Line(cup, 1)>>
              ELSE <<Line(cup, 1), Line(pen, 1), Line(cup, 1)>>]

(* Two orders that take the same products in opposite order.               *)
Crossed == [o \in Orders |-> IF o = o1 THEN <<Line(pen, 1), Line(cup, 1)>>
                                       ELSE <<Line(cup, 1), Line(pen, 1)>>]

TakenOneLine     == [o \in Orders |-> TotalsOf(OneLine[o])]
TakenMixed       == [o \in Orders |-> TotalsOf(Mixed[o])]
TakenCrossed     == [o \in Orders |-> TotalsOf(Crossed[o])]

Stock2 == [p \in Products |-> 2]
Stock4 == [p \in Products |-> 4]
===============================================================================
