------------------------------ MODULE Settlement ------------------------------
(***************************************************************************)
(* What PaymentsService promises its callers, with no requests, providers, *)
(* locks or transactions in sight: an order is placed, a payment is opened *)
(* for it, and later it is settled or rejected.  A settlement is one       *)
(* indivisible step: the payment succeeds, its order is paid and the whole *)
(* order leaves the stock, and only while the stock covers all of it.      *)
(***************************************************************************)
EXTENDS Integers

CONSTANTS
    Products, Orders, Txns,
    None,           \* the order of a payment that was never opened
    InitialStock,   \* stock at the start, per product
    Demands,        \* what an order may take: units per product
    StockInputs     \* stock values an administrator may write

VARIABLES
    stock,          \* units on hand, per product
    orderStatus,    \* "NONE", "PENDING" or "PAID", per order
    demand,         \* demand[o][p]: units of p that order o takes in all
    payment,        \* "NONE", "PENDING", "SUCCESS" or "FAILED", per transaction
    payOrder        \* the order a payment was opened for

vars == <<stock, orderStatus, demand, payment, payOrder>>

Init ==
    /\ stock = InitialStock
    /\ orderStatus \in [Orders -> {"NONE", "PENDING"}]
    /\ DOMAIN demand = Orders
    /\ payment = [t \in Txns |-> "NONE"]
    /\ payOrder = [t \in Txns |-> None]

Covers(o) == \A p \in Products : stock[p] >= demand[o][p]

Place(o, d) ==
    /\ orderStatus[o] = "NONE"
    /\ orderStatus' = [orderStatus EXCEPT ![o] = "PENDING"]
    /\ demand' = [demand EXCEPT ![o] = d]
    /\ UNCHANGED <<stock, payment, payOrder>>

Open(t, o) ==
    /\ payment[t] = "NONE" /\ orderStatus[o] # "NONE"
    /\ payment' = [payment EXCEPT ![t] = "PENDING"]
    /\ payOrder' = [payOrder EXCEPT ![t] = o]
    /\ UNCHANGED <<stock, orderStatus, demand>>

Settle(t) ==
    /\ payment[t] # "NONE"
    /\ Covers(payOrder[t])
    /\ payment' = [payment EXCEPT ![t] = "SUCCESS"]
    /\ orderStatus' = [orderStatus EXCEPT ![payOrder[t]] = "PAID"]
    /\ stock' = [p \in Products |-> stock[p] - demand[payOrder[t]][p]]
    /\ UNCHANGED <<demand, payOrder>>

Reject(t) ==
    /\ payment[t] # "NONE"
    /\ payment' = [payment EXCEPT ![t] = "FAILED"]
    /\ UNCHANGED <<stock, orderStatus, demand, payOrder>>

SetStock(p, n) ==
    /\ stock' = [stock EXCEPT ![p] = n]
    /\ UNCHANGED <<orderStatus, demand, payment, payOrder>>

Administer == \E p \in Products, n \in StockInputs : SetStock(p, n)

(* Settlements are atomic, however often they happen. *)
Next ==
    \/ \E o \in Orders, d \in Demands : Place(o, d)
    \/ \E t \in Txns, o \in Orders : Open(t, o)
    \/ \E t \in Txns : Settle(t) \/ Reject(t)
    \/ Administer

Spec == Init /\ [][Next]_vars

(* Moreover a payment is decided once, and an order is paid once.          *)
SettleOnce(t) ==
    /\ payment[t] = "PENDING"
    /\ orderStatus[payOrder[t]] = "PENDING"
    /\ Settle(t)

RejectOnce(t) == payment[t] = "PENDING" /\ Reject(t)

OnceNext ==
    \/ \E o \in Orders, d \in Demands : Place(o, d)
    \/ \E t \in Txns, o \in Orders : Open(t, o)
    \/ \E t \in Txns : SettleOnce(t) \/ RejectOnce(t)
    \/ Administer

OnceSpec == Init /\ [][OnceNext]_vars
===============================================================================
