--------------------------------- MODULE Money ---------------------------------
(***************************************************************************)
(* Amounts as the code computes them.  The database holds whole cents      *)
(* (DECIMAL(12,2)), JavaScript computes with doubles.  Here a double is a  *)
(* number of grains, Grain of which are a cent, and every operation of its *)
(* arithmetic is off by some e, at most Err grains in either direction.    *)
(* MathRound is monotonic, so that one e for all operations of a           *)
(* computation reaches whatever mixed errors reach.                        *)
(***************************************************************************)
EXTENDS Integers, Sequences

CONSTANTS
    Grain,
    Err,
    MaxMoney        \* the largest amount, in cents, that fits its column

(* Three operations in a row stay within half a cent.                      *)
ASSUME RoundingAssumption ==
    /\ Grain \in Nat \ {0} /\ Err \in Nat /\ MaxMoney \in Nat
    /\ 6 * Err < Grain

Errors == -Err..Err

MathFloor(g) == g \div Grain                              \* mutant of MathRound

(* Math.round: the nearest cent, upwards from the half. *)
MathRound(g) == (2 * g + Grain) \div (2 * Grain)

(* Math.round(quantity * unitPrice * 100): the price as a double, and two  *)
(* multiplications.                                                        *)
Subtotal(quantity, price, e) == MathRound(quantity * price * Grain + 3 * e)

(* SumUpTo(q)[n] is q[1] + ... + q[n]. *)
SumUpTo(q) ==
    LET sum[n \in Nat] == IF n = 0 THEN 0 ELSE sum[n-1] + q[n]
    IN  sum

Doubles(subtotals, e) == [i \in 1..Len(subtotals) |-> subtotals[i] * Grain + 2 * e]

Truncated(subtotals, e) ==                                \* mutant of Total
    SumUpTo(Doubles(subtotals, e))[Len(subtotals)] \div Grain

(* The subtotals, each a double again, are added to 0 and the sum rounded. *)
(* The first addition is exact, the multiplication by 100 takes its place. *)
Total(subtotals, e) == MathRound(SumUpTo(Doubles(subtotals, e))[Len(subtotals)])

(* The number a provider is told: Stripe Math.round(amount * 100), bKash   *)
(* amount.toFixed(2).  The currency that goes with it is a constant of     *)
(* each strategy, usd for Stripe and BDT for bKash, and not modelled: the  *)
(* database stores a number without one.                                   *)
StripeAmount(total, e) == MathRound(total * Grain + 2 * e)
BkashAmount(total, e)  == MathRound(total * Grain + e)

Fits(amount) == amount \in 0..MaxMoney
===============================================================================
