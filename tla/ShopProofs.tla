------------------------------- MODULE ShopProofs -------------------------------
(***************************************************************************)
(* The shop as a whole, for any products, carts, administrators' changes,  *)
(* requests and transactions: what an order promises stays true while it   *)
(* is paid, and the shop implements Settlement.                            *)
(***************************************************************************)
EXTENDS Shop, OrdersProofs

(* An order that is not placed is not paid; a bill is for an order that    *)
(* is there, and for its total.                                            *)
BillsOK ==
    /\ status \in [Orders -> {"PENDING", "PAID"}]
    /\ \A o \in Orders : ~ Placed(o) => status[o] = "PENDING"
    /\ payments \in [Txns -> Bills \union {Absent}]
    /\ \A t \in Txns : Paying(t) =>
           Placed(OrderOf(t)) /\ payments[t].amount = orders[OrderOf(t)].total

SInv == IInv /\ BillsOK

-------------------------------------------------------------------------------
(* Shapes.                                                                 *)

LEMMA PayingShape ==
    ASSUME SInv, NEW t \in Txns, Paying(t)
    PROVE  /\ OrderOf(t) \in Orders /\ Placed(OrderOf(t))
           /\ payments[t] \in Bills /\ payments[t].status \in {"PENDING", "SUCCESS", "FAILED"}
BY DEF SInv, BillsOK, Paying, OrderOf, Bills

LEMMA PlacedShape ==
    ASSUME IInv, NEW o \in Orders, Placed(o)
    PROVE  /\ orders[o].lines \in Seq(Lines) /\ orders[o].total \in 0..MaxMoney
           /\ orders[o].total \in Nat
           /\ Billed(orders[o].lines) /\ orders[o].total = Exact(orders[o].lines)
BY RoundingAssumption DEF IInv, TypeOK, Placed, Receipts, OrdersOK

-------------------------------------------------------------------------------
(* Line by line is as good as all at once, and no stock goes below zero.   *)
LEMMA StockCovers ==
    ASSUME IInv, NEW lines \in Seq(Lines), AllInStock(lines),
           NEW p \in Products, Exists(p)
    PROVE  catalog[p].stock \in Nat /\ catalog[p].stock >= Units(lines, p)
<1>. DEFINE units == UnitsUpTo(lines, p)
            S == {n \in Nat : n <= Len(lines) => catalog[p].stock >= units[n]}
<1>1. catalog[p].stock \in Nat /\ Len(lines) \in Nat
  BY RowShape, LinesShape DEF IInv, Rows
<1>2. /\ units[0] = 0 /\ \A n \in 0..Len(lines) : units[n] \in Nat
      /\ \A n \in 0..Len(lines)-1 :
             units[n+1] = units[n]
                 + IF lines[n+1].product = p THEN lines[n+1].quantity ELSE 0
  BY UnitsStep
<1>3. \A n \in 0..Len(lines)-1 :
          /\ lines[n+1].quantity \in Nat
          /\ lines[n+1].product = p => catalog[p].stock - units[n] >= lines[n+1].quantity
  <2>. SUFFICES ASSUME NEW n \in 0..Len(lines)-1
                PROVE  /\ lines[n+1].quantity \in Nat
                       /\ lines[n+1].product = p =>
                              catalog[p].stock - units[n] >= lines[n+1].quantity
    OBVIOUS
  <2>1. n + 1 \in 1..Len(lines) /\ (n + 1) - 1 = n
    BY <1>1
  <2>. QED
    BY <2>1, LinesShape DEF AllInStock
<1>. HIDE DEF units
<1>4. 0 \in S /\ \A n \in S : n + 1 \in S
  <2>1. 0 \in S
    BY <1>1, <1>2
  <2>2. ASSUME NEW n \in S PROVE n + 1 \in S
    <3>1. SUFFICES ASSUME n + 1 <= Len(lines) PROVE catalog[p].stock >= units[n+1]
      OBVIOUS
    <3>2. n \in 0..Len(lines)-1 /\ n \in 0..Len(lines) /\ catalog[p].stock >= units[n]
      BY <1>1, <3>1
    <3>3. /\ units[n] \in Nat
          /\ units[n+1] = units[n]
                 + IF lines[n+1].product = p THEN lines[n+1].quantity ELSE 0
      BY <1>2, <3>2
    <3>4. CASE lines[n+1].product = p
      <4>1. /\ lines[n+1].quantity \in Nat
            /\ catalog[p].stock - units[n] >= lines[n+1].quantity
        BY <1>3, <3>2, <3>4
      <4>. QED
        BY <1>1, <3>3, <3>4, <4>1
    <3>5. CASE lines[n+1].product # p
      BY <1>1, <3>2, <3>3, <3>5
    <3>. QED
      BY <3>4, <3>5
  <2>. QED
    BY <2>1, <2>2
<1>5. S = Nat
  <2>. HIDE DEF S
  <2>1. S \in SUBSET Nat
    BY DEF S
  <2>. QED
    BY <1>4, <2>1, SetInduction
<1>. QED
  BY <1>1, <1>5 DEF units, Units

-------------------------------------------------------------------------------
(* The invariant.                                                          *)

(* Requests of Orders leave bills alone, and orders that are there as they are. *)
LEMMA OrdersStay ==
    ASSUME IInv, [Next]_vars, NEW o \in Orders, Placed(o)
    PROVE  orders'[o] = orders[o]
<1>1. ASSUME NEW w \in Workers, InsertOrder(w)
      PROVE  orders'[o] = orders[o]
  <2>1. job[w].order \in Orders /\ job[w].order # o
    BY <1>1, JobShape DEF IInv, InsertOrder, At, Own, Placing
  <2>. QED
    BY <1>1, <2>1 DEF InsertOrder, IInv, TypeOK
<1>2. \/ orders' = orders \/ \E w \in Workers : InsertOrder(w)
  BY DEF Next, vars, PlaceOrder, ReadProducts, CreateProduct, UpdateProduct, RemoveProduct,
         FindProduct, CheckSku, WriteProduct, Begin
<1>. QED
  BY <1>1, <1>2

(* A bill is decided: its order and amount stay. *)
LEMMA BillDecided ==
    ASSUME SInv, NEW t \in Txns, Paying(t), NEW s \in {"SUCCESS", "FAILED"},
           payments' = [payments EXCEPT ![t].status = s]
    PROVE  /\ payments' \in [Txns -> Bills \union {Absent}]
           /\ \A u \in Txns : Paying(u)' => /\ Paying(u)
                                            /\ payments'[u].order = payments[u].order
                                            /\ payments'[u].amount = payments[u].amount
<1>1. payments \in [Txns -> Bills \union {Absent}] /\ payments[t] \in Bills
  BY PayingShape DEF SInv, BillsOK
<1>2. /\ payments'[t] = [payments[t] EXCEPT !.status = s]
      /\ \A u \in Txns \ {t} : payments'[u] = payments[u]
  BY <1>1
<1>3. /\ payments'[t] \in Bills /\ payments'[t].order = payments[t].order
      /\ payments'[t].amount = payments[t].amount
  BY <1>1, <1>2 DEF Bills
<1>4. payments' \in [Txns -> Bills \union {Absent}]
  BY <1>1, <1>3
<1>. QED
  BY <1>2, <1>3, <1>4 DEF Paying

LEMMA SettleStep ==
    ASSUME SInv, NEW t \in Txns, Settle(t)
    PROVE  SInv'
<1>. DEFINE o == OrderOf(t)
            lines == orders[o].lines
<1>1. /\ o \in Orders /\ Placed(o) /\ lines \in Seq(Lines)
      /\ AllInStock(lines) /\ payments[t] \in Bills
      /\ UNCHANGED <<orders, job>>
  BY PayingShape, PlacedShape DEF SInv, Settle
<1>2. /\ catalog' = [p \in Products |->
                        IF Exists(p) THEN [catalog[p] EXCEPT !.stock = @ - Units(lines, p)]
                        ELSE catalog[p]]
      /\ catalogs' = catalogs \union {catalog'}
  BY DEF Settle
<1>3. ASSUME NEW p \in Products, Exists(p)
      PROVE  /\ catalog'[p] \in Rows /\ catalog'[p].sku = catalog[p].sku
  <2>1. PICK units \in Nat : units = Units(lines, p)
    <3>1. Units(lines, p) \in Nat
      BY <1>1, UnitsStep DEF Units
    <3>. QED
      BY <3>1
  <2>2. catalog[p] \in Rows /\ catalog[p].stock - units \in Nat
    BY <1>1, <1>3, <2>1, StockCovers, RowShape DEF SInv, IInv
  <2>3. catalog'[p] = [catalog[p] EXCEPT !.stock = @ - units]
    BY <1>2, <1>3, <2>1
  <2>. QED
    BY <2>2, <2>3 DEF Rows
<1>4. \A p \in Products : ~ Exists(p) => catalog'[p] = catalog[p]
  BY <1>2
<1>5. \A p \in Products : Exists(p)' <=> Exists(p)
  BY <1>3, <1>4, RowIsRow DEF Exists, Row
<1>6. catalog' \in [Products -> Rows \union {Absent, Gone}]
  BY <1>2, <1>3, <1>4 DEF SInv, IInv, TypeOK
<1>7. UniqueSku'
  BY <1>3, <1>5 DEF SInv, IInv, UniqueSku
<1>8. NoDanglingLine'
  <2>. SUFFICES ASSUME NEW x \in Orders, Placed(x), NEW i \in 1..Len(orders[x].lines)
                PROVE  Exists(orders[x].lines[i].product)'
    BY <1>1 DEF NoDanglingLine, Placed
  <2>1. orders[x].lines[i].product \in Products
    BY PlacedShape, LinesShape DEF SInv
  <2>. QED
    BY <1>1, <1>5, <2>1 DEF SInv, IInv, NoDanglingLine
<1>9. IInv'
  BY <1>1, <1>2, <1>6, <1>7, <1>8, CatalogStep DEF SInv, IInv, TypeOK
<1>10. BillsOK'
  <2>1. status' = [status EXCEPT ![o] = "PAID"]
        /\ payments' = [payments EXCEPT ![t].status = "SUCCESS"]
    BY DEF Settle
  <2>2. /\ payments' \in [Txns -> Bills \union {Absent}]
        /\ \A u \in Txns : Paying(u)' => /\ Paying(u)
                                         /\ payments'[u].order = payments[u].order
                                         /\ payments'[u].amount = payments[u].amount
    BY <2>1, BillDecided DEF Settle
  <2>. QED
    BY <1>1, <2>1, <2>2 DEF SInv, BillsOK, Placed, OrderOf
<1>. QED
  BY <1>9, <1>10 DEF SInv

LEMMA VarsStay ==
    ASSUME SInv, UNCHANGED vars
    PROVE  IInv'
BY NextHolds DEF SInv

LEMMA RejectStep ==
    ASSUME SInv, NEW t \in Txns, Reject(t)
    PROVE  SInv'
<1>1. IInv' /\ UNCHANGED <<orders, status>>
  BY VarsStay DEF Reject, vars
<1>2. /\ payments' \in [Txns -> Bills \union {Absent}]
      /\ \A u \in Txns : Paying(u)' => /\ Paying(u)
                                       /\ payments'[u].order = payments[u].order
                                       /\ payments'[u].amount = payments[u].amount
  BY BillDecided DEF Reject
<1>. QED
  BY <1>1, <1>2 DEF SInv, BillsOK, Placed, OrderOf

LEMMA InitiateStep ==
    ASSUME SInv, NEW t \in Txns, NEW o \in Orders, InitiatePayment(t, o)
    PROVE  /\ SInv' /\ Paying(t)'
           /\ payments' = [payments EXCEPT ![t] =
                              [order |-> o, amount |-> orders[o].total, status |-> "PENDING"]]
<1>1. IInv' /\ UNCHANGED <<orders, status>> /\ Placed(o)
  BY VarsStay DEF InitiatePayment, vars
<1>2. PICK total \in 0..MaxMoney : total = orders[o].total /\ total \in Nat
  BY <1>1, PlacedShape DEF SInv
<1>3. payments' = [payments EXCEPT ![t] =
                      [order |-> o, amount |-> total, status |-> "PENDING"]]
  BY <1>2, ProviderAmountExact DEF InitiatePayment
<1>4. [order |-> o, amount |-> total, status |-> "PENDING"] \in Bills
  BY DEF Bills
<1>5. payments' \in [Txns -> Bills \union {Absent}] /\ Paying(t)'
  BY <1>3, <1>4, NotAPayment DEF SInv, BillsOK, Paying
<1>6. \A u \in Txns : Paying(u)' => Placed(OrderOf(u))'
                          /\ payments'[u].amount = orders'[payments'[u].order].total
  BY <1>1, <1>2, <1>3 DEF SInv, BillsOK, Paying, OrderOf, Placed
<1>. QED
  BY <1>1, <1>2, <1>3, <1>5, <1>6 DEF SInv, BillsOK, OrderOf, Placed

LEMMA ShopInitHolds == ShopInit => SInv
<1>. SUFFICES ASSUME ShopInit PROVE SInv
  OBVIOUS
<1>1. IInv
  BY InitHolds DEF ShopInit
<1>2. BillsOK
  BY DEF ShopInit, BillsOK, Paying
<1>. QED
  BY <1>1, <1>2 DEF SInv

LEMMA ShopNextHolds == SInv /\ [ShopNext]_shopVars => SInv'
<1>. SUFFICES ASSUME SInv, [ShopNext]_shopVars PROVE SInv'
  OBVIOUS
<1>1. CASE [Next]_vars /\ UNCHANGED <<status, payments>>
  <2>1. IInv'
    BY <1>1, NextHolds DEF SInv
  <2>2. \A o \in Orders : Placed(o) => Placed(o)' /\ orders'[o] = orders[o]
    BY <1>1, OrdersStay DEF SInv, Placed
  <2>3. BillsOK'
    BY <1>1, <2>2 DEF SInv, BillsOK, Paying, OrderOf, Bills
  <2>. QED
    BY <2>1, <2>3 DEF SInv
<1>. QED
  BY <1>1, SettleStep, RejectStep, InitiateStep DEF ShopNext, shopVars

(* The inductive invariant of the shop: an order keeps the lines and the   *)
(* total it was inserted with (orders.service.ts), whatever changes in the *)
(* catalog, and every bill is for that total (payments.service.ts).        *)
THEOREM ShopInvariance == ShopSpec => []SInv
BY ShopInitHolds, ShopNextHolds, PTL DEF ShopSpec

(* Tables and requests keep their shape, amounts fit DECIMAL(12,2).        *)
THEOREM ShopTypeCorrect == ShopSpec => []TypeOK
<1>1. SInv => TypeOK
  BY DEF SInv, IInv
<1>. QED
  BY <1>1, ShopInvariance, PTL

(* products.service.ts: two requests may both find a sku free, and no two  *)
(* products ever have it.                                                  *)
THEOREM SkusAreUnique == ShopSpec => []UniqueSku
<1>1. SInv => UniqueSku
  BY DEF SInv, IInv
<1>. QED
  BY <1>1, ShopInvariance, PTL

(* schema.prisma, OrderItem: a product with orders is not removed, and an  *)
(* order is not placed for a product that is gone.                         *)
THEOREM LinesHold == ShopSpec => []NoDanglingLine
<1>1. SInv => NoDanglingLine
  BY DEF SInv, IInv
<1>. QED
  BY <1>1, ShopInvariance, PTL

(* orders.service.ts, create: every order could have been taken at one     *)
(* instant, at that instant's prices.                                      *)
THEOREM OrdersAreQuotable == ShopSpec => []Quotable
<1>1. SInv => Quotable
  BY DEF SInv, IInv
<1>. QED
  BY <1>1, ShopInvariance, PTL

(* order.entity.ts: subtotals are exact to the cent.                       *)
THEOREM SubtotalsExact == ShopSpec => []SubtotalsAreExact
<1>1. SInv => SubtotalsAreExact
  BY DEF SInv, IInv, OrdersOK, Billed, SubtotalsAreExact
<1>. QED
  BY <1>1, ShopInvariance, PTL

(* order.entity.ts, calculateTotal: and so are totals.                     *)
THEOREM TotalsExact == ShopSpec => []TotalIsExact
<1>1. SInv => TotalIsExact
  BY DEF SInv, IInv, OrdersOK, TotalIsExact
<1>. QED
  BY <1>1, ShopInvariance, PTL

(* README, stripe.strategy.ts, bkash.strategy.ts: the number the provider  *)
(* is told is what the lines cost in one catalog that was in force once.   *)
THEOREM ChargesAreQuoted == ShopSpec => []ChargedAsQuoted
<1>1. ASSUME SInv, NEW t \in Txns, Paying(t)
      PROVE  \E c \in catalogs : LET lines == orders[OrderOf(t)].lines IN
                 /\ QuotedIn(lines, c)
                 /\ payments[t].amount =
                        Exact([i \in 1..Len(lines) |->
                                  [lines[i] EXCEPT !.price = c[lines[i].product].price]])
  <2>1. PICK lines \in Seq(Lines), c \in catalogs :
            /\ lines = orders[OrderOf(t)].lines
            /\ QuotedIn(lines, c)
            /\ payments[t].amount = Exact(lines)
    <3>1. /\ OrderOf(t) \in Orders /\ Placed(OrderOf(t))
          /\ payments[t].amount = orders[OrderOf(t)].total
      BY <1>1, PayingShape DEF SInv, BillsOK
    <3>. QED
      BY <1>1, <3>1, PlacedShape DEF SInv, IInv, Quotable
  <2>. DEFINE quoted == [i \in 1..Len(lines) |->
                            [lines[i] EXCEPT !.price = c[lines[i].product].price]]
  <2>2. ASSUME NEW i \in 1..Len(lines) PROVE quoted[i] = lines[i]
    <3>1. lines[i] \in Lines /\ lines[i].price = c[lines[i].product].price
      BY <2>1 DEF QuotedIn
    <3>2. [lines[i] EXCEPT !.price = c[lines[i].product].price] = lines[i]
      BY <3>1 DEF Lines
    <3>. QED
      BY <3>2
  <2>3. lines = [i \in 1..Len(lines) |-> lines[i]]
    OBVIOUS
  <2>4. quoted = lines
    BY <2>2, <2>3
  <2>5. payments[t].amount = Exact(quoted)
    BY <2>1, <2>4
  <2>. QED
    BY <2>1, <2>5
<1>2. SInv => ChargedAsQuoted
  BY <1>1 DEF ChargedAsQuoted
<1>. QED
  BY <1>2, ShopInvariance, PTL

-------------------------------------------------------------------------------
(* The refinement.                                                         *)

(* What the abstract shop sees.                                            *)
Stock  == [p \in Products |-> IF Exists(p) THEN catalog[p].stock ELSE 0]
Status == [o \in Orders |-> IF Placed(o) THEN status[o] ELSE "NONE"]
Demand == [o \in Orders |-> [p \in Products |->
              IF Placed(o) THEN Units(orders[o].lines, p) ELSE 0]]
Verdicts == [t \in Txns |-> IF Paying(t) THEN payments[t].status ELSE "NONE"]
PaidFor == [t \in Txns |-> IF Paying(t) THEN OrderOf(t) ELSE Absent]

Demands == {[p \in Products |-> Units(cart, p)] : cart \in Carts}
               \union {[p \in Products |-> 0]}

LEMMA Stutters ==
    ASSUME UNCHANGED <<Stock, Status, Demand, Verdicts, PaidFor>>
    PROVE  UNCHANGED Sales!vars
BY DEF Sales!vars, Stock, Status, Demand, Verdicts, PaidFor

LEMMA SameCatalog ==
    ASSUME UNCHANGED catalog
    PROVE  UNCHANGED Stock
BY DEF Stock, Exists

LEMMA SameOrders ==
    ASSUME UNCHANGED <<orders, status>>
    PROVE  UNCHANGED <<Status, Demand>>
BY DEF Status, Demand, Placed

LEMMA SamePayments ==
    ASSUME UNCHANGED payments
    PROVE  UNCHANGED <<Verdicts, PaidFor>>
BY DEF Verdicts, PaidFor, Paying, OrderOf

LEMMA InitRefines == ShopInit => Sales!Init
<1>. SUFFICES ASSUME ShopInit PROVE Sales!Init
  OBVIOUS
<1>. QED
  BY DEF ShopInit, Init, Sales!Init, Exists, Row, Placed, Paying

(* An order that is inserted is placed, with the demand of a cart.         *)
LEMMA InsertRefines ==
    ASSUME SInv, NEW w \in Workers, InsertOrder(w), UNCHANGED <<status, payments>>
    PROVE  [Sales!Next]_Sales!vars
<1>1. PICK o \in Orders, lines \in Seq(Lines) :
          /\ o = job[w].order /\ lines = job[w].lines
          /\ ~ Placed(o) /\ AskedFor(lines)
          /\ UNCHANGED <<catalog, catalogs, status, payments>>
  BY JobShape DEF SInv, IInv, InsertOrder, At, Own, Placing, JobOK
<1>2. CASE orders' = orders
  BY <1>1, <1>2, SameCatalog, SameOrders, SamePayments, Stutters
<1>3. CASE orders' # orders
  <2>1. PICK e \in Errors :
            /\ Accepted(lines, Total(Subtotals(lines), e))
            /\ orders' = [orders EXCEPT ![o] =
                             [lines |-> lines, total |-> Total(Subtotals(lines), e)]]
    BY <1>1, <1>3 DEF InsertOrder
  <2>2. PICK receipt \in Receipts :
            receipt.lines = lines /\ orders' = [orders EXCEPT ![o] = receipt]
    <3>1. [lines |-> lines, total |-> Total(Subtotals(lines), e)] \in Receipts
      BY <1>1, <2>1 DEF Receipts, Accepted, Fits
    <3>. QED
      BY <2>1, <3>1
  <2>3. PICK d \in Demands : d = [p \in Products |-> Units(lines, p)]
    <3>1. PICK cart \in Carts : \A p \in Products : Units(lines, p) = Units(cart, p)
      BY <1>1 DEF AskedFor
    <3>2. [p \in Products |-> Units(lines, p)] = [p \in Products |-> Units(cart, p)]
      BY <3>1
    <3>. QED
      BY <3>2 DEF Demands
  <2>4. /\ Placed(o)' /\ orders'[o] = receipt
        /\ \A x \in Orders \ {o} : orders'[x] = orders[x]
    BY <1>1, <2>2, NotAReceipt DEF SInv, IInv, TypeOK, Placed
  <2>5. Status[o] = "NONE" /\ Status' = [Status EXCEPT ![o] = "PENDING"]
    BY <1>1, <2>4 DEF Status, Placed, SInv, BillsOK
  <2>6. Demand' = [Demand EXCEPT ![o] = d]
    <3>. SUFFICES ASSUME NEW x \in Orders
                  PROVE  Demand'[x] = [Demand EXCEPT ![o] = d][x]
      BY DEF Demand
    <3>1. CASE x = o
      BY <1>1, <2>2, <2>3, <2>4, <3>1 DEF Demand
    <3>2. CASE x # o
      BY <2>4, <3>2 DEF Demand, Placed
    <3>. QED
      BY <3>1, <3>2
  <2>7. UNCHANGED <<Stock, Verdicts, PaidFor>>
    BY <1>1, SameCatalog, SamePayments
  <2>8. Sales!Place(o, d)
    BY <2>5, <2>6, <2>7 DEF Sales!Place, Stock, Status, Demand, Verdicts, PaidFor
  <2>. QED
    BY <2>8 DEF Sales!Next, Demands
<1>. QED
  BY <1>2, <1>3

(* An edit writes a stock level, or nothing that the abstract shop sees.   *)
LEMMA WriteRefines ==
    ASSUME SInv, NEW w \in Workers, WriteProduct(w), UNCHANGED <<status, payments>>
    PROVE  [Sales!Next]_Sales!vars
<1>. DEFINE p == job[w].id
            set == job[w].set
<1>1. /\ p \in Products /\ UNCHANGED <<orders, status, payments>>
      /\ \/ job[w].op = "create" /\ set \in NewRows
         \/ job[w].op = "update" /\ set \in Patches
         \/ job[w].op = "remove" /\ set = <<>>
  BY JobShape DEF SInv, IInv, WriteProduct
<1>2. UNCHANGED <<Status, Demand, Verdicts, PaidFor>>
  BY <1>1, SameOrders, SamePayments
<1>3. CASE UNCHANGED catalog
  BY <1>2, <1>3, SameCatalog, Stutters
<1>4. CASE ~ Rejected(w)
  <2>1. ASSUME NEW n, Stock' = [Stock EXCEPT ![p] = n],
               n \in {row.stock : row \in NewRows} \union {0}
                        \union {patch.stock : patch \in {q \in Patches : "stock" \in DOMAIN q}}
        PROVE  Sales!Next
    <3>1. Sales!SetStock(p, n)
      BY <1>2, <2>1 DEF Sales!SetStock, Stock, Status, Demand, Verdicts, PaidFor
    <3>. QED
      BY <1>1, <2>1, <3>1 DEF Sales!Next, Sales!Administer
  <2>2. ASSUME NEW row, Store(p, row)
        PROVE  Stock' = [Stock EXCEPT ![p] = IF Row(row) THEN row.stock ELSE 0]
    <3>. HIDE DEF p
    <3>1. catalog' = [catalog EXCEPT ![p] = row] /\ catalog \in [Products -> Rows \union {Absent, Gone}]
      BY <2>2 DEF Store, SInv, IInv, TypeOK
    <3>2. \A q \in Products : catalog'[q] = IF q = p THEN row ELSE catalog[q]
      BY <1>1, <3>1
    <3>. QED
      BY <3>2 DEF Stock, Exists
  <2>3. CASE job[w].op = "create"
    <3>1. set \in NewRows /\ set \in Rows /\ Store(p, set)
      BY <1>1, <1>4, <2>3, CatalogAssumption DEF WriteProduct
    <3>2. Row(set)
      BY <3>1, RowIsRow
    <3>. QED
      BY <2>1, <2>2, <3>1, <3>2
  <2>4. CASE job[w].op = "update"
    <3>1. set \in Patches /\ Exists(p) /\ Store(p, Merge(catalog[p], set))
      BY <1>1, <1>4, <2>4 DEF WriteProduct, Rejected
    <3>2. catalog[p] \in Rows
      BY <1>1, <3>1, RowShape DEF SInv, IInv
    <3>3. Row(Merge(catalog[p], set))
      BY <3>1, <3>2, MergeShape, RowIsRow
    <3>4. Stock' = [Stock EXCEPT ![p] = Merge(catalog[p], set).stock]
      BY <2>2, <3>1, <3>3
    <3>5. CASE "stock" \in DOMAIN set
      <4>1. Merge(catalog[p], set).stock = set.stock
        BY <3>5 DEF Merge
      <4>. QED
        BY <2>1, <3>1, <3>4, <3>5, <4>1
    <3>6. CASE "stock" \notin DOMAIN set
      <4>1. Merge(catalog[p], set).stock = Stock[p]
        BY <1>1, <3>1, <3>6 DEF Merge, Stock
      <4>2. Stock' = Stock
        BY <3>4, <4>1 DEF Stock
      <4>. QED
        BY <1>2, <4>2, Stutters
    <3>. QED
      BY <3>5, <3>6
  <2>5. CASE job[w].op = "remove"
    <3>1. Store(p, Gone) /\ ~ Row(Gone)
      BY <1>4, <2>5 DEF WriteProduct, Row
    <3>. QED
      BY <2>1, <2>2, <3>1
  <2>. QED
    BY <1>1, <2>3, <2>4, <2>5
<1>. QED
  BY <1>3, <1>4 DEF WriteProduct

LEMMA RequestRefines ==
    ASSUME SInv, [Next]_vars, UNCHANGED <<status, payments>>
    PROVE  [Sales!Next]_Sales!vars
<1>1. CASE UNCHANGED <<catalog, orders>>
  BY <1>1, SameCatalog, SameOrders, SamePayments, Stutters
<1>2. \/ UNCHANGED <<catalog, orders>>
      \/ \E w \in Workers : InsertOrder(w) \/ WriteProduct(w)
  BY DEF Next, vars, PlaceOrder, ReadProducts, CreateProduct, UpdateProduct, RemoveProduct,
         FindProduct, CheckSku, Begin
<1>. QED
  BY <1>1, <1>2, InsertRefines, WriteRefines

LEMMA InitiateRefines ==
    ASSUME SInv, NEW t \in Txns, NEW o \in Orders, InitiatePayment(t, o)
    PROVE  Sales!Next
<1>1. /\ ~ Paying(t) /\ Paying(t)' /\ Placed(o) /\ status[o] = "PENDING"
      /\ UNCHANGED <<catalog, orders, status>>
      /\ payments' = [payments EXCEPT ![t] =
                         [order |-> o, amount |-> orders[o].total, status |-> "PENDING"]]
  BY InitiateStep DEF InitiatePayment, vars
<1>2. /\ payments'[t].order = o /\ payments'[t].status = "PENDING"
      /\ \A u \in Txns \ {t} : payments'[u] = payments[u]
  BY <1>1 DEF SInv, BillsOK
<1>3. UNCHANGED <<Stock, Status, Demand>>
  BY <1>1, SameCatalog, SameOrders
<1>4. \A u \in Txns : Paying(u)' <=> (Paying(u) \/ u = t)
  BY <1>1, <1>2 DEF Paying
<1>5. Verdicts[t] = "NONE" /\ Verdicts' = [Verdicts EXCEPT ![t] = "PENDING"]
  <2>1. \A u \in Txns : Verdicts'[u] = IF u = t THEN "PENDING" ELSE Verdicts[u]
    BY <1>1, <1>2, <1>4 DEF Verdicts
  <2>. QED
    BY <1>1, <2>1 DEF Verdicts
<1>6. PaidFor' = [PaidFor EXCEPT ![t] = o]
  <2>1. \A u \in Txns : PaidFor'[u] = IF u = t THEN o ELSE PaidFor[u]
    BY <1>1, <1>2, <1>4 DEF PaidFor, OrderOf
  <2>. QED
    BY <2>1 DEF PaidFor
<1>7. Status[o] # "NONE"
  BY <1>1 DEF Status
<1>8. Sales!Open(t, o)
  BY <1>3, <1>5, <1>6, <1>7 DEF Sales!Open, Stock, Status, Demand, Verdicts, PaidFor
<1>. QED
  BY <1>8 DEF Sales!Next

LEMMA VerdictRefines ==
    ASSUME SInv, NEW t \in Txns, Paying(t), NEW s \in {"SUCCESS", "FAILED"},
           payments' = [payments EXCEPT ![t].status = s]
    PROVE  Verdicts' = [Verdicts EXCEPT ![t] = s] /\ UNCHANGED PaidFor
<1>1. payments \in [Txns -> Bills \union {Absent}] /\ payments[t] \in Bills
  BY PayingShape DEF SInv, BillsOK
<1>2. /\ payments'[t] = [payments[t] EXCEPT !.status = s]
      /\ \A u \in Txns \ {t} : payments'[u] = payments[u]
  BY <1>1
<1>3. payments'[t] \in Bills /\ payments'[t].status = s /\ payments'[t].order = payments[t].order
  BY <1>1, <1>2 DEF Bills
<1>4. Paying(t)'
  BY <1>3, NotAPayment DEF Paying
<1>5. \A u \in Txns : Paying(u)' <=> Paying(u)
  BY <1>2, <1>4 DEF Paying
<1>6. \A u \in Txns : /\ Verdicts'[u] = IF u = t THEN s ELSE Verdicts[u]
                      /\ PaidFor'[u] = PaidFor[u]
  BY <1>2, <1>3, <1>4, <1>5 DEF Verdicts, PaidFor, OrderOf
<1>. QED
  BY <1>6 DEF Verdicts, PaidFor

LEMMA RejectRefines ==
    ASSUME SInv, NEW t \in Txns, Reject(t)
    PROVE  Sales!Next
<1>1. Verdicts' = [Verdicts EXCEPT ![t] = "FAILED"] /\ UNCHANGED PaidFor
  BY VerdictRefines DEF Reject
<1>2. UNCHANGED <<Stock, Status, Demand>>
  BY SameCatalog, SameOrders DEF Reject, vars
<1>3. Verdicts[t] # "NONE"
  BY PayingShape DEF Verdicts, Reject
<1>4. Sales!Reject(t)
  BY <1>1, <1>2, <1>3 DEF Sales!Reject, Stock, Status, Demand, Verdicts, PaidFor
<1>. QED
  BY <1>4 DEF Sales!Next

LEMMA SettleRefines ==
    ASSUME SInv, NEW t \in Txns, Settle(t)
    PROVE  Sales!Next
<1>1. PICK o \in Orders, lines \in Seq(Lines) :
          /\ o = OrderOf(t) /\ lines = orders[o].lines
          /\ Placed(o) /\ AllInStock(lines) /\ Paying(t) /\ UNCHANGED orders
  BY PayingShape, PlacedShape DEF SInv, Settle
<1>2. Verdicts' = [Verdicts EXCEPT ![t] = "SUCCESS"] /\ UNCHANGED PaidFor
  BY VerdictRefines DEF Settle
<1>3. Verdicts[t] # "NONE" /\ PaidFor[t] = o
  BY <1>1, PayingShape DEF Verdicts, PaidFor
<1>4. Status' = [Status EXCEPT ![o] = "PAID"] /\ UNCHANGED Demand
  BY <1>1 DEF Settle, Status, Demand, Placed, SInv, BillsOK
<1>5. ASSUME NEW p \in Products
      PROVE  Stock[p] >= Demand[o][p] /\ Stock'[p] = Stock[p] - Demand[o][p]
  <2>1. Demand[o][p] = Units(lines, p)
    BY <1>1 DEF Demand
  <2>2. catalog'[p] = IF Exists(p) THEN [catalog[p] EXCEPT !.stock = @ - Units(lines, p)]
                      ELSE catalog[p]
    BY <1>1 DEF Settle
  <2>3. CASE Exists(p)
    <3>1. PICK units : units = Units(lines, p)
      OBVIOUS
    <3>2. catalog[p] \in Rows /\ catalog[p].stock >= units
      BY <1>1, <2>3, <3>1, StockCovers, RowShape DEF SInv, IInv
    <3>3. catalog'[p] = [catalog[p] EXCEPT !.stock = @ - units]
      BY <2>2, <2>3, <3>1
    <3>4. catalog'[p].stock = catalog[p].stock - units
      BY <3>2, <3>3 DEF Rows
    <3>5. Exists(p)'
      <4>1. UnitsUpTo(lines, p)[Len(lines)] \in Nat
        BY <1>1, UnitsStep
      <4>2. catalog[p].stock - units \in Nat
        BY <1>1, <2>3, <3>1, <4>1, StockCovers DEF SInv, Units
      <4>3. catalog'[p] \in Rows
        BY <3>2, <3>3, <4>2 DEF Rows
      <4>. QED
        BY <4>3, RowIsRow DEF Exists
    <3>. QED
      BY <2>1, <2>3, <3>1, <3>2, <3>4, <3>5 DEF Stock
  <2>4. CASE ~ Exists(p)
    <3>1. \A i \in 1..Len(lines) : lines[i].product # p
      BY <1>1, <2>4 DEF SInv, IInv, NoDanglingLine
    <3>2. Units(lines, p) = 0
      BY <1>1, <3>1, NoUnits
    <3>3. ~ Exists(p)'
      BY <2>2, <2>4 DEF Exists
    <3>. QED
      BY <2>1, <2>4, <3>2, <3>3 DEF Stock
  <2>. QED
    BY <2>3, <2>4
<1>6. Stock' = [p \in Products |-> Stock[p] - Demand[o][p]]
  BY <1>5 DEF Stock
<1>7. Sales!Covers(o)
  BY <1>5 DEF Sales!Covers, Stock, Demand
<1>8. Sales!Settle(t)
  BY <1>2, <1>3, <1>4, <1>6, <1>7
  DEF Sales!Settle, Stock, Status, Demand, Verdicts, PaidFor
<1>. QED
  BY <1>8 DEF Sales!Next

LEMMA ShopStepRefines == SInv /\ [ShopNext]_shopVars => [Sales!Next]_Sales!vars
<1>. SUFFICES ASSUME SInv, [ShopNext]_shopVars PROVE [Sales!Next]_Sales!vars
  OBVIOUS
<1>1. CASE [Next]_vars /\ UNCHANGED <<status, payments>>
  BY <1>1, RequestRefines
<1>. QED
  BY <1>1, InitiateRefines, SettleRefines, RejectRefines DEF ShopNext, shopVars

(* The shop implements Settlement: a settlement takes the whole order from *)
(* a stock that covers it (products.service.ts, reduceStockSafely), while  *)
(* orders are placed and administrators edit and remove products.          *)
THEOREM ShopRefinement == ShopSpec => ShopSettles
<1>. QED
  BY InitRefines, ShopStepRefines, ShopInvariance, PTL DEF ShopSpec, Sales!Spec, ShopSettles
===============================================================================
