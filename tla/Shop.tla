---------------------------------- MODULE Shop ----------------------------------
(***************************************************************************)
(* Orders and payments over one catalog: orders are placed from it, paid   *)
(* at the amount that was stored with them, and settled against its stock, *)
(* while administrators change prices, stock and the products themselves.  *)
(* A settlement is one step here, and may be repeated: that is what        *)
(* Payments shows of PaymentsService (Payments!AtomicSettlement).          *)
(***************************************************************************)
EXTENDS Orders

CONSTANT Txns

VARIABLES
    status,         \* orders.status
    payments        \* [order, amount, status] per transaction, or Absent;
                    \* the amount is what the provider was told

shopVars == <<vars, status, payments>>

Bills == [order : Orders, amount : 0..MaxMoney, status : {"PENDING", "SUCCESS", "FAILED"}]

ASSUME NotAPayment == Absent \notin Bills

ShopInit ==
    /\ Init
    /\ status = [o \in Orders |-> "PENDING"]
    /\ payments = [t \in Txns |-> Absent]

Paying(t) == payments[t] # Absent

OrderOf(t) == payments[t].order

LiveTotal(o) ==
    {Exact([i \in 1..Len(orders[o].lines) |->
        [orders[o].lines[i] EXCEPT !.price = catalog[orders[o].lines[i].product].price]])}

ChargedLive(t, o) ==                                      \* mutant of InitiatePayment
    /\ Placed(o) /\ status[o] = "PENDING" /\ ~ Paying(t)
    /\ \E amount \in LiveTotal(o) :
           payments' = [payments EXCEPT ![t] =
                           [order |-> o, amount |-> amount, status |-> "PENDING"]]
    /\ UNCHANGED <<vars, status>>

(* The amount is Number(order.totalAmount), in the provider's notation.    *)
InitiatePayment(t, o) ==
    /\ Placed(o) /\ status[o] = "PENDING" /\ ~ Paying(t)
    /\ \E e \in Errors :
           \E amount \in {StripeAmount(orders[o].total, e), BkashAmount(orders[o].total, e)} :
               payments' = [payments EXCEPT ![t] =
                               [order |-> o, amount |-> amount, status |-> "PENDING"]]
    /\ UNCHANGED <<vars, status>>

LineByLine(lines) ==                                      \* mutant of AllInStock
    \A i \in 1..Len(lines) :
        Exists(lines[i].product) /\ catalog[lines[i].product].stock >= lines[i].quantity

(* reduceStockSafely matches a row for each line in turn, what the lines   *)
(* before it took included.                                                *)
AllInStock(lines) ==
    \A i \in 1..Len(lines) :
        LET p == lines[i].product IN
        Exists(p) /\ catalog[p].stock - UnitsUpTo(lines, p)[i-1] >= lines[i].quantity

Settle(t) ==
    /\ Paying(t)
    /\ LET lines == orders[OrderOf(t)].lines IN
       /\ AllInStock(lines)
       /\ catalog' = [p \in Products |->
                         IF Exists(p) THEN [catalog[p] EXCEPT !.stock = @ - Units(lines, p)]
                         ELSE catalog[p]]
       /\ catalogs' = catalogs \union {catalog'}
    /\ status' = [status EXCEPT ![OrderOf(t)] = "PAID"]
    /\ payments' = [payments EXCEPT ![t].status = "SUCCESS"]
    /\ UNCHANGED <<orders, job>>

Reject(t) ==
    /\ Paying(t)
    /\ payments' = [payments EXCEPT ![t].status = "FAILED"]
    /\ UNCHANGED <<vars, status>>

ShopNext ==
    \/ Next /\ UNCHANGED <<status, payments>>
    \/ \E t \in Txns :
           \/ \E o \in Orders : InitiatePayment(t, o)
           \/ Settle(t) \/ Reject(t)

ShopSpec == ShopInit /\ [][ShopNext]_shopVars

-------------------------------------------------------------------------------
(* README: prices are "snapshots, not live joins".  The number charged for *)
(* an order is, to two digits, what its lines cost in one catalog that was *)
(* in force once, whatever has become of the prices since then and however *)
(* often it went through a double.  (Of the number only: the provider      *)
(* chosen adds its own currency to it, whatever that of the prices is.)    *)
ChargedAsQuoted ==
    \A t \in Txns : Paying(t) =>
        \E c \in catalogs : LET lines == orders[OrderOf(t)].lines IN
            /\ QuotedIn(lines, c)
            /\ payments[t].amount =
                   Exact([i \in 1..Len(lines) |->
                             [lines[i] EXCEPT !.price = c[lines[i].product].price]])

(* What the shop looks like to a customer who sees stock, orders and       *)
(* payments: a product that is not there has no stock, and an order takes  *)
(* the units of all its lines.                                             *)
Sales == INSTANCE Settlement WITH
    stock        <- [p \in Products |-> IF Exists(p) THEN catalog[p].stock ELSE 0],
    orderStatus  <- [o \in Orders |-> IF Placed(o) THEN status[o] ELSE "NONE"],
    demand       <- [o \in Orders |-> [p \in Products |->
                        IF Placed(o) THEN Units(orders[o].lines, p) ELSE 0]],
    payment      <- [t \in Txns |-> IF Paying(t) THEN payments[t].status ELSE "NONE"],
    payOrder     <- [t \in Txns |-> IF Paying(t) THEN OrderOf(t) ELSE Absent],
    None         <- Absent,
    InitialStock <- [p \in Products |-> 0],
    Demands      <- {[p \in Products |-> Units(cart, p)] : cart \in Carts}
                        \union {[p \in Products |-> 0]},
    StockInputs  <- {row.stock : row \in NewRows} \union {0}
                        \union {patch.stock : patch \in {q \in Patches : "stock" \in DOMAIN q}}

(* The shop implements Settlement with orders that are placed on the way:  *)
(* no change of the catalog takes a product, or units, from an order that  *)
(* is being settled, and line by line is as good as all at once.           *)
ShopSettles == Sales!Spec
===============================================================================
