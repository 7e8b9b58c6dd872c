------------------------------ MODULE OrdersProofs ------------------------------
(***************************************************************************)
(* Orders and the catalog, for any products, carts and administrators'     *)
(* changes, any number of requests at once, and every Grain and Err.       *)
(***************************************************************************)
EXTENDS Orders, MoneyProofs

(* Lines that are billed to the cent, and few enough to be totalled so. *)
Billed(lines) ==
    /\ 4 * Len(lines) * Err < Grain
    /\ \A i \in 1..Len(lines) : lines[i].subtotal = lines[i].quantity * lines[i].price

(* Lines for what a customer may ask for. *)
AskedFor(lines) ==
    \E cart \in Carts : \A p \in Products : Units(lines, p) = Units(cart, p)

(* What a request that is about to insert an order carries. *)
JobOK(j) ==
    j.step = "insert" =>
        /\ Billed(j.lines) /\ AskedFor(j.lines)
        /\ \E c \in catalogs : QuotedIn(j.lines, c)

Placing(j) == j.step \in {"read", "insert"}

(* The order of the job j of w is new, and nobody else's.                  *)
Own(w, j) ==
    Placing(j) => /\ ~ Placed(j.order)
                  /\ \A v \in Workers \ {w} : Placing(job[v]) => job[v].order # j.order

OrdersOK ==
    \A o \in Orders : Placed(o) => Billed(orders[o].lines)
                                   /\ orders[o].total = Exact(orders[o].lines)

IInv ==
    /\ TypeOK /\ UniqueSku /\ NoDanglingLine /\ Quotable /\ OrdersOK
    /\ catalog \in catalogs
    /\ \A w \in Workers : JobOK(job[w]) /\ Own(w, job[w])

-------------------------------------------------------------------------------
(* Shapes.                                                                 *)

LEMMA JobShape ==
    ASSUME TypeOK, NEW w \in Workers
    PROVE  /\ At(w, "read") => job[w].order \in Orders /\ job[w].cart \in Carts
           /\ At(w, "insert") => job[w].order \in Orders /\ job[w].lines \in Seq(Lines)
           /\ At(w, "find") \/ At(w, "sku") \/ At(w, "write") =>
                  /\ job[w].id \in Products
                  /\ \/ job[w].op = "create" /\ job[w].set \in NewRows /\ ~ At(w, "find")
                     \/ job[w].op = "update" /\ job[w].set \in Patches
                     \/ job[w].op = "remove" /\ job[w].set = <<>> /\ ~ At(w, "sku")
<1>. job[w] \in JobSet
  BY DEF TypeOK
<1>. QED
  BY DEF JobSet, NoJob, At

LEMMA NoJobShape == NoJob \in JobSet /\ JobOK(NoJob)
BY DEF NoJob, JobSet, JobOK

LEMMA NoJobIsOwn == ASSUME NEW w PROVE Own(w, NoJob)
BY DEF NoJob, Own, Placing

(* An existing product has a row. *)
LEMMA RowShape ==
    ASSUME TypeOK, NEW p \in Products
    PROVE  Exists(p) <=> catalog[p] \in Rows
BY Distinct DEF TypeOK, Exists, Row

LEMMA RowIsRow ==
    ASSUME NEW row \in Rows
    PROVE  Row(row) /\ row # Absent /\ row # Gone
BY Distinct DEF Row

LEMMA CartShape ==
    ASSUME NEW cart \in Carts
    PROVE  /\ Len(cart) \in Nat /\ 4 * Len(cart) * Err < Grain
           /\ \A i \in 1..Len(cart) : /\ cart[i].product \in Products
                                      /\ cart[i].quantity \in Nat \ {0}
<1>. DEFINE C == [product : Products, quantity : Nat \ {0}]
<1>1. cart \in Seq(C) /\ 4 * Len(cart) * Err < Grain
  BY CartAssumption
<1>2. Len(cart) \in Nat /\ \A i \in 1..Len(cart) : cart[i] \in C
  <2>. HIDE DEF C
  <2>. QED
    BY <1>1
<1>. QED
  BY <1>1, <1>2

LEMMA LinesShape ==
    ASSUME NEW lines \in Seq(Lines)
    PROVE  /\ Len(lines) \in Nat
           /\ \A i \in 1..Len(lines) :
                  /\ lines[i].product \in Products /\ lines[i].quantity \in Nat \ {0}
                  /\ lines[i].price \in 0..MaxMoney /\ lines[i].price \in Nat
                  /\ lines[i].subtotal \in Nat
<1>1. Len(lines) \in Nat /\ \A i \in 1..Len(lines) : lines[i] \in Lines
  OBVIOUS
<1>. QED
  BY <1>1, RoundingAssumption DEF Lines

LEMMA MergeShape ==
    ASSUME NEW row \in Rows, NEW patch \in Patches
    PROVE  /\ Merge(row, patch) \in Rows
           /\ "sku" \in DOMAIN patch => Merge(row, patch).sku = patch.sku
           /\ "sku" \notin DOMAIN patch => Merge(row, patch).sku = row.sku
<1>. DEFINE field(f) == IF f \in DOMAIN patch THEN patch[f] ELSE row[f]
<1>1. /\ row.sku \in Skus /\ row.price \in 0..MaxMoney
      /\ row.stock \in Nat /\ row.active \in BOOLEAN
  BY DEF Rows
<1>2. /\ "sku" \in DOMAIN patch => patch["sku"] \in Skus
      /\ "price" \in DOMAIN patch => patch["price"] \in 0..MaxMoney
      /\ "stock" \in DOMAIN patch => patch["stock"] \in Nat
      /\ "active" \in DOMAIN patch => patch["active"] \in BOOLEAN
  <2>1. \A f \in DOMAIN patch : f \in DOMAIN Column /\ patch[f] \in Column[f]
    BY CatalogAssumption
  <2>2. /\ Column["sku"] = Skus /\ Column["price"] = 0..MaxMoney
        /\ Column["stock"] = Nat /\ Column["active"] = BOOLEAN
    BY DEF Column
  <2>. HIDE DEF Column
  <2>. QED
    BY <2>1, <2>2
<1>3. /\ field("sku") \in Skus /\ field("price") \in 0..MaxMoney
      /\ field("stock") \in Nat /\ field("active") \in BOOLEAN
  BY <1>1, <1>2
<1>4. Merge(row, patch) = [sku |-> field("sku"), price |-> field("price"),
                           stock |-> field("stock"), active |-> field("active")]
  BY DEF Merge
<1>. HIDE DEF field
<1>5. Merge(row, patch) \in Rows /\ Merge(row, patch).sku = field("sku")
  BY <1>3, <1>4 DEF Rows
<1>. QED
  BY <1>5 DEF field

-------------------------------------------------------------------------------
(* Steps by what they leave alone.                                         *)

LEMMA JobStep ==
    ASSUME IInv, NEW w \in Workers, NEW j \in JobSet, JobOK(j), Own(w, j),
           Become(w, j), UNCHANGED <<catalog, orders, catalogs>>
    PROVE  IInv'
<1>1. TypeOK'
  BY DEF IInv, TypeOK, Become
<1>2. UniqueSku' /\ NoDanglingLine' /\ Quotable' /\ OrdersOK' /\ (catalog \in catalogs)'
  BY DEF IInv, UniqueSku, NoDanglingLine, Quotable, OrdersOK, Placed, Exists
<1>3. ASSUME NEW v \in Workers PROVE JobOK(job[v])'
  <2>1. job'[v] = j \/ job'[v] = job[v]
    BY DEF IInv, TypeOK, Become
  <2>. QED
    BY <2>1 DEF IInv, JobOK
<1>4. ASSUME NEW v \in Workers PROVE Own(v, job[v])'
  <2>1. /\ job'[w] = j /\ \A u \in Workers \ {w} : job'[u] = job[u]
        /\ orders' = orders
    BY DEF IInv, TypeOK, Become
  <2>2. CASE v = w
    BY <2>1, <2>2 DEF Own, Placing, Placed
  <2>3. CASE v # w
    BY <2>1, <2>3 DEF IInv, Own, Placing, Placed
  <2>. QED
    BY <2>2, <2>3
<1>. QED
  BY <1>1, <1>2, <1>3, <1>4 DEF IInv

LEMMA FinishStep ==
    ASSUME IInv, NEW w \in Workers, Finish(w), UNCHANGED <<catalog, orders, catalogs>>
    PROVE  IInv'
BY NoJobShape, NoJobIsOwn, JobStep DEF Finish

(* The history only grows, so what was quoted once stays quoted.           *)
LEMMA CatalogStep ==
    ASSUME IInv, UNCHANGED orders,
           catalog' \in [Products -> Rows \union {Absent, Gone}],
           catalogs' = catalogs \union {catalog'},
           UniqueSku', NoDanglingLine',
           job' \in [Workers -> JobSet],
           \A w \in Workers : job'[w] \in {job[w], NoJob}
    PROVE  IInv'
<1>1. TypeOK'
  BY DEF IInv, TypeOK
<1>2. OrdersOK'
  BY DEF IInv, OrdersOK, Placed
<1>3. Quotable'
  BY DEF IInv, Quotable, Placed
<1>4. ASSUME NEW w \in Workers PROVE JobOK(job[w])'
  <2>1. CASE job'[w] = job[w]
    BY <2>1 DEF IInv, JobOK
  <2>2. CASE job'[w] = NoJob
    BY <2>2 DEF JobOK, NoJob
  <2>. QED
    BY <2>1, <2>2
<1>5. ASSUME NEW w \in Workers PROVE Own(w, job[w])'
  <2>1. orders' = orders /\ \A v \in Workers : job'[v] = job[v] \/ ~ Placing(job'[v])
    BY DEF NoJob, Placing
  <2>. QED
    BY <2>1 DEF IInv, Own, Placing, Placed
<1>. QED
  BY <1>1, <1>2, <1>3, <1>4, <1>5 DEF IInv

-------------------------------------------------------------------------------
(* POST /orders.                                                           *)

(* The lines are quoted in, and computed from, the catalog that is read.   *)
LEMMA PricedLines ==
    ASSUME TypeOK, NEW cart \in Carts, NEW e \in Errors,
           \A i \in 1..Len(cart) : Orderable(catalog[cart[i].product], cart[i].quantity)
    PROVE  /\ Priced(cart, catalog, e) \in Seq(Lines)
           /\ Billed(Priced(cart, catalog, e)) /\ AskedFor(Priced(cart, catalog, e))
           /\ QuotedIn(Priced(cart, catalog, e), catalog)
<1>. DEFINE lines == Priced(cart, catalog, e)
            line(i) ==
                LET price == catalog[cart[i].product].price IN
                [product |-> cart[i].product, quantity |-> cart[i].quantity,
                 price |-> price, subtotal |-> Subtotal(cart[i].quantity, price, e)]
<1>1. PICK N \in Nat : N = Len(cart)
  BY CartShape
<1>2. lines = [i \in 1..N |-> line(i)]
  BY <1>1 DEF Priced
<1>3. ASSUME NEW i \in 1..N
      PROVE  /\ line(i) \in Lines
             /\ line(i).subtotal = line(i).quantity * line(i).price
             /\ Orderable(catalog[line(i).product], line(i).quantity)
             /\ line(i).price = catalog[line(i).product].price
             /\ line(i).product = cart[i].product /\ line(i).quantity = cart[i].quantity
  <2>. DEFINE row == catalog[cart[i].product]
  <2>1. /\ cart[i].product \in Products /\ cart[i].quantity \in Nat \ {0}
        /\ Orderable(row, cart[i].quantity)
    BY <1>1, CartShape
  <2>2. row \in Rows
    BY <2>1, RowShape DEF Orderable, Exists
  <2>3. row.price \in 0..MaxMoney /\ row.price \in Nat
    BY <2>2, RoundingAssumption DEF Rows
  <2>4. Subtotal(cart[i].quantity, row.price, e) = cart[i].quantity * row.price
    BY <2>1, <2>3, SubtotalExact
  <2>5. cart[i].quantity * row.price \in Nat
    BY <2>1, <2>3
  <2>. HIDE DEF row
  <2>6. line(i) = [product |-> cart[i].product, quantity |-> cart[i].quantity,
                   price |-> row.price, subtotal |-> cart[i].quantity * row.price]
    BY <2>4 DEF row
  <2>. HIDE DEF line
  <2>. QED
    BY <2>1, <2>3, <2>5, <2>6 DEF Lines, row
<1>. HIDE DEF line
<1>4. lines \in Seq(Lines) /\ Len(lines) = N /\ \A i \in 1..N : lines[i] = line(i)
  BY <1>2, <1>3
<1>. HIDE DEF lines
<1>5. Billed(lines)
  BY <1>1, <1>3, <1>4, CartShape DEF Billed
<1>6. QuotedIn(lines, catalog)
  BY <1>3, <1>4 DEF QuotedIn, Orderable
<1>7. \A p \in Products : Units(lines, p) = Units(cart, p)
  BY <1>1, <1>3, <1>4 DEF Units, UnitsUpTo
<1>. QED
  BY <1>4, <1>5, <1>6, <1>7 DEF lines, AskedFor

LEMMA ReadProductsStep ==
    ASSUME IInv, NEW w \in Workers, ReadProducts(w)
    PROVE  IInv'
<1>1. /\ job[w].order \in Orders /\ job[w].cart \in Carts
      /\ UNCHANGED <<catalog, orders, catalogs>>
  BY JobShape DEF IInv, ReadProducts
<1>2. CASE Finish(w)
  BY <1>1, <1>2, FinishStep
<1>3. ASSUME NEW e \in Errors,
             \A i \in 1..Len(job[w].cart) :
                 Orderable(catalog[job[w].cart[i].product], job[w].cart[i].quantity),
             Become(w, [step |-> "insert", order |-> job[w].order,
                        lines |-> Priced(job[w].cart, catalog, e)])
      PROVE  IInv'
  <2>1. PICK lines : lines = Priced(job[w].cart, catalog, e)
    OBVIOUS
  <2>2. /\ lines \in Seq(Lines) /\ Billed(lines) /\ AskedFor(lines)
        /\ QuotedIn(lines, catalog)
    BY <1>1, <1>3, <2>1, PricedLines DEF IInv
  <2>3. [step |-> "insert", order |-> job[w].order, lines |-> lines] \in JobSet
    BY <1>1, <2>2 DEF JobSet
  <2>4. JobOK([step |-> "insert", order |-> job[w].order, lines |-> lines])
    BY <2>2 DEF JobOK, IInv
  <2>5. Become(w, [step |-> "insert", order |-> job[w].order, lines |-> lines])
    BY <1>3, <2>1
  <2>6. Own(w, [step |-> "insert", order |-> job[w].order, lines |-> lines])
    BY DEF IInv, Own, Placing, ReadProducts, At
  <2>. QED
    BY <1>1, <2>3, <2>4, <2>5, <2>6, JobStep
<1>. QED
  BY <1>2, <1>3 DEF ReadProducts

(* The total of billed lines is exact. *)
LEMMA TotalOfBilled ==
    ASSUME NEW lines \in Seq(Lines), Billed(lines), NEW e \in Errors
    PROVE  Total(Subtotals(lines), e) = Exact(lines)
<1>1. PICK N \in Nat : N = Len(lines)
  OBVIOUS
<1>2. Subtotals(lines) \in Seq(Nat) /\ Len(Subtotals(lines)) = N
  BY <1>1, LinesShape DEF Subtotals
<1>3. Total(Subtotals(lines), e) = SumUpTo(Subtotals(lines))[N]
  BY <1>1, <1>2, TotalExact DEF Billed
<1>. DEFINE costs == [i \in 1..Len(lines) |-> lines[i].quantity * lines[i].price]
<1>4. \A i \in 1..N : Subtotals(lines)[i] = costs[i]
  BY <1>1 DEF Subtotals, Billed
<1>5. \A n \in 0..N : SumUpTo(Subtotals(lines))[n] = SumUpTo(costs)[n]
  <2>. HIDE DEF costs
  <2>. QED
    BY <1>4, SumSame
<1>. QED
  BY <1>1, <1>3, <1>5 DEF Exact

LEMMA InsertOrderStep ==
    ASSUME IInv, NEW w \in Workers, InsertOrder(w)
    PROVE  IInv'
<1>. DEFINE lines == job[w].lines
            o == job[w].order
<1>1. /\ o \in Orders /\ lines \in Seq(Lines)
      /\ Billed(lines) /\ \E c \in catalogs : QuotedIn(lines, c)
      /\ UNCHANGED <<catalog, catalogs>> /\ Finish(w)
  BY JobShape DEF IInv, InsertOrder, JobOK, At
<1>2. PICK e \in Errors :
          orders' = IF ~ Accepted(lines, Total(Subtotals(lines), e)) THEN orders
                    ELSE [orders EXCEPT ![o] =
                             [lines |-> lines, total |-> Total(Subtotals(lines), e)]]
  BY DEF InsertOrder
<1>3. CASE orders' = orders
  BY <1>1, <1>3, FinishStep
<1>4. CASE /\ Accepted(lines, Total(Subtotals(lines), e))
           /\ orders' = [orders EXCEPT ![o] =
                             [lines |-> lines, total |-> Total(Subtotals(lines), e)]]
  <2>1. PICK ls \in Seq(Lines), total \in 0..MaxMoney :
            /\ ls = lines /\ total = Total(Subtotals(lines), e) /\ total = Exact(lines)
    BY <1>1, <1>4, TotalOfBilled DEF Accepted, Fits
  <2>2. /\ orders' = [orders EXCEPT ![o] = [lines |-> ls, total |-> total]]
        /\ Billed(ls) /\ (\E c \in catalogs : QuotedIn(ls, c)) /\ total = Exact(ls)
        /\ \A i \in 1..Len(ls) : Exists(ls[i].product)
    BY <1>1, <1>4, <2>1 DEF Accepted
  <2>. HIDE DEF lines
  <2>3. orders' \in [Orders -> Receipts \union {Absent}]
    BY <1>1, <2>1, <2>2 DEF IInv, TypeOK, Receipts
  <2>4. job' \in [Workers -> JobSet] /\ \A v \in Workers : job'[v] \in {job[v], NoJob}
    BY <1>1, NoJobShape DEF Finish, Become, IInv, TypeOK
  <2>5. TypeOK'
    BY <1>1, <2>3, <2>4 DEF IInv, TypeOK
  <2>6. UniqueSku' /\ (catalog \in catalogs)'
    BY <1>1 DEF IInv, UniqueSku, Exists
  <2>7. ASSUME NEW x \in Orders, Placed(x)'
        PROVE  \/ x # o /\ Placed(x) /\ orders'[x] = orders[x]
               \/ x = o /\ orders'[x] = [lines |-> ls, total |-> total]
    BY <1>1, <2>2, <2>7 DEF Placed, IInv, TypeOK
  <2>8. NoDanglingLine'
    BY <1>1, <2>2, <2>7 DEF IInv, NoDanglingLine, Exists
  <2>9. Quotable'
    BY <1>1, <2>2, <2>7 DEF IInv, Quotable
  <2>10. OrdersOK'
    BY <2>2, <2>7 DEF IInv, OrdersOK
  <2>11. ASSUME NEW v \in Workers PROVE JobOK(job[v])'
    BY <1>1, <2>4 DEF IInv, JobOK, NoJob
  <2>12. ASSUME NEW v \in Workers PROVE Own(v, job[v])'
    <3>1. SUFFICES ASSUME Placing(job'[v]) PROVE Own(v, job[v])'
      BY DEF Own
    <3>2. v # w /\ job'[v] = job[v]
      BY <1>1, <2>4, <3>1 DEF Finish, Become, NoJob, Placing, IInv, TypeOK
    <3>3. Own(v, job[v]) /\ Placing(job[w]) /\ Placing(job[v])
      BY <3>1, <3>2 DEF IInv, InsertOrder, At, Placing
    <3>4. job[v].order # o /\ ~ Placed(job[v].order)
      BY <3>2, <3>3 DEF Own
    <3>5. job[v].order \in Orders
      BY <3>3, JobShape DEF Placing, At, IInv
    <3>6. ~ Placed(job[v].order)'
      BY <2>7, <3>2, <3>4, <3>5
    <3>7. \A u \in Workers : job'[u] = job[u] \/ ~ Placing(job'[u])
      BY <2>4 DEF NoJob, Placing
    <3>. QED
      BY <3>2, <3>3, <3>6, <3>7 DEF Own, Placed
  <2>. QED
    BY <2>5, <2>6, <2>8, <2>9, <2>10, <2>11, <2>12 DEF IInv
<1>. QED
  BY <1>2, <1>3, <1>4

-------------------------------------------------------------------------------
(* Administrators.                                                         *)

LEMMA BeginStep ==
    ASSUME IInv, NEW w \in Workers, NEW j \in JobSet, j.step # "insert", Own(w, j), Begin(w, j)
    PROVE  IInv'
BY JobStep DEF Begin, JobOK

LEMMA RequestStep ==
    ASSUME IInv, NEW w \in Workers,
           \/ \E o \in Orders, cart \in Carts : PlaceOrder(w, o, cart)
           \/ \E p \in Products :
                  \/ \E row \in NewRows : CreateProduct(w, p, row)
                  \/ \E patch \in Patches : UpdateProduct(w, p, patch)
                  \/ RemoveProduct(w, p)
    PROVE  IInv'
<1>1. ASSUME NEW o \in Orders, NEW cart \in Carts, PlaceOrder(w, o, cart)
      PROVE  IInv'
  <2>1. [step |-> "read", order |-> o, cart |-> cart] \in JobSet
    BY DEF JobSet
  <2>2. Own(w, [step |-> "read", order |-> o, cart |-> cart])
    BY <1>1 DEF PlaceOrder, Own, Placing, At
  <2>. QED
    BY <1>1, <2>1, <2>2, BeginStep DEF PlaceOrder
<1>2. ASSUME NEW p \in Products, NEW row \in NewRows, CreateProduct(w, p, row)
      PROVE  IInv'
  <2>1. [step |-> "sku", op |-> "create", id |-> p, set |-> row] \in JobSet
    BY DEF JobSet
  <2>. QED
    BY <1>2, <2>1, BeginStep DEF CreateProduct, Own, Placing
<1>3. ASSUME NEW p \in Products, NEW patch \in Patches, UpdateProduct(w, p, patch)
      PROVE  IInv'
  <2>1. [step |-> "find", op |-> "update", id |-> p, set |-> patch] \in JobSet
    BY DEF JobSet
  <2>. QED
    BY <1>3, <2>1, BeginStep DEF UpdateProduct, Own, Placing
<1>4. ASSUME NEW p \in Products, RemoveProduct(w, p)
      PROVE  IInv'
  <2>1. [step |-> "find", op |-> "remove", id |-> p, set |-> <<>>] \in JobSet
    BY DEF JobSet
  <2>. QED
    BY <1>4, <2>1, BeginStep DEF RemoveProduct, Own, Placing
<1>. QED
  BY <1>1, <1>2, <1>3, <1>4

LEMMA GoToStep ==
    ASSUME IInv, NEW w \in Workers, NEW s \in {"sku", "write"},
           At(w, "find") \/ At(w, "sku"),
           s = "sku" => ChangesSku(w),
           GoTo(w, s), UNCHANGED <<catalog, orders, catalogs>>
    PROVE  IInv'
<1>1. job[w] \in JobSet
  BY DEF IInv, TypeOK
<1>2. s = "sku" => job[w].set # <<>>
  BY DEF ChangesSku
<1>3. PICK j : j = [job[w] EXCEPT !.step = s]
  OBVIOUS
<1>4. j \in JobSet /\ j.step = s
  <2>1. CASE job[w] \in [step : {"sku", "write"}, op : {"create"}, id : Products, set : NewRows]
    BY <1>3, <2>1 DEF JobSet
  <2>2. CASE job[w] \in [step : {"find", "sku", "write"}, op : {"update"},
                         id : Products, set : Patches]
    BY <1>3, <2>2 DEF JobSet
  <2>3. CASE job[w] \in [step : {"find", "write"}, op : {"remove"},
                         id : Products, set : {<<>>}]
    <3>1. s = "write"
      BY <1>2, <2>3
    <3>. QED
      BY <1>3, <2>3, <3>1 DEF JobSet
  <2>. QED
    BY <1>1, <2>1, <2>2, <2>3 DEF JobSet, NoJob, At
<1>5. Become(w, j)
  BY <1>3 DEF GoTo
<1>. QED
  BY <1>4, <1>5, JobStep DEF JobOK, Own, Placing

LEMMA FindProductStep ==
    ASSUME IInv, NEW w \in Workers, FindProduct(w)
    PROVE  IInv'
BY FinishStep, GoToStep DEF FindProduct

LEMMA CheckSkuStep ==
    ASSUME IInv, NEW w \in Workers, CheckSku(w)
    PROVE  IInv'
BY FinishStep, GoToStep DEF CheckSku

(* One row of the table is written, created or removed.                    *)
LEMMA WriteRow ==
    ASSUME IInv, NEW p \in Products, NEW row \in Rows \union {Gone},
           catalog' = [catalog EXCEPT ![p] = row],
           row \in Rows => \A q \in Products \ {p} : Exists(q) => catalog[q].sku # row.sku,
           row = Gone => ~ Ordered(p),
           UNCHANGED orders
    PROVE  /\ catalog' \in [Products -> Rows \union {Absent, Gone}]
           /\ UniqueSku' /\ NoDanglingLine'
<1>1. catalog \in [Products -> Rows \union {Absent, Gone}]
  BY DEF IInv, TypeOK
<1>2. \A q \in Products : q # p => (Exists(q)' <=> Exists(q)) /\ catalog'[q] = catalog[q]
  BY <1>1 DEF Exists
<1>3. catalog'[p] = row /\ (row \in Rows => Exists(p)') /\ (row = Gone => ~ Exists(p)')
  BY <1>1, RowIsRow DEF Exists, Row
<1>4. UniqueSku'
  BY <1>2, <1>3 DEF IInv, UniqueSku
<1>5. ASSUME NEW o \in Orders, Placed(o), NEW i \in 1..Len(orders[o].lines)
      PROVE  Exists(orders[o].lines[i].product)'
  <2>1. Exists(orders[o].lines[i].product)
    BY <1>5 DEF IInv, NoDanglingLine
  <2>2. orders[o].lines \in Seq(Lines)
    BY <1>5 DEF IInv, TypeOK, Placed, Receipts
  <2>3. orders[o].lines[i].product \in Products
    BY <1>5, <2>2, LinesShape
  <2>4. row = Gone => orders[o].lines[i].product # p
    BY <1>5 DEF Ordered
  <2>. QED
    BY <1>2, <1>3, <2>1, <2>3, <2>4
<1>6. NoDanglingLine'
  BY <1>5 DEF NoDanglingLine, Placed
<1>. QED
  BY <1>1, <1>4, <1>6

(* Which sku the row that is written has, and that it is free.             *)
LEMMA WriteProductStep ==
    ASSUME IInv, NEW w \in Workers, WriteProduct(w)
    PROVE  IInv'
<1>. DEFINE p == job[w].id
            set == job[w].set
<1>1. /\ p \in Products /\ Finish(w) /\ UNCHANGED orders
      /\ \/ job[w].op = "create" /\ set \in NewRows
         \/ job[w].op = "update" /\ set \in Patches
         \/ job[w].op = "remove" /\ set = <<>>
  BY JobShape DEF IInv, WriteProduct
<1>2. CASE UNCHANGED <<catalog, catalogs>>
  BY <1>1, <1>2, FinishStep
<1>3. CASE ~ Rejected(w)
  <2>1. job' \in [Workers -> JobSet] /\ \A v \in Workers : job'[v] \in {job[v], NoJob}
    BY <1>1, NoJobShape DEF Finish, Become, IInv, TypeOK
  <2>2. ASSUME NEW row \in Rows \union {Gone}, Store(p, row),
               row \in Rows => \A q \in Products \ {p} : Exists(q) => catalog[q].sku # row.sku,
               row = Gone => ~ Ordered(p)
        PROVE  IInv'
    <3>1. /\ catalog' \in [Products -> Rows \union {Absent, Gone}]
          /\ UniqueSku' /\ NoDanglingLine'
      <4>. HIDE DEF p
      <4>. QED
        BY <1>1, <2>2, WriteRow DEF Store
    <3>. QED
      BY <1>1, <2>1, <2>2, <3>1, CatalogStep DEF Store
  <2>3. CASE job[w].op = "create"
    <3>1. set \in Rows /\ Store(p, set)
      BY <1>1, <1>3, <2>3, CatalogAssumption DEF WriteProduct
    <3>2. "sku" \in DOMAIN set /\ set # Gone
      BY <3>1, RowIsRow DEF Rows
    <3>. QED
      BY <1>3, <2>2, <3>1, <3>2 DEF Rejected, SkuTaken, ChangesSku
  <2>4. CASE job[w].op = "update"
    <3>1. set \in Patches /\ Exists(p) /\ Store(p, Merge(catalog[p], set))
      BY <1>1, <1>3, <2>4 DEF WriteProduct, Rejected
    <3>2. catalog[p] \in Rows
      BY <1>1, <3>1, RowShape DEF IInv
    <3>3. PICK row \in Rows :
              /\ row = Merge(catalog[p], set)
              /\ "sku" \in DOMAIN set => row.sku = set.sku
              /\ "sku" \notin DOMAIN set => row.sku = catalog[p].sku
      BY <3>1, <3>2, MergeShape
    <3>4. \A q \in Products \ {p} : Exists(q) => catalog[q].sku # row.sku
      <4>1. CASE "sku" \in DOMAIN set
        BY <1>3, <3>3, <4>1 DEF Rejected, SkuTaken, ChangesSku
      <4>2. CASE "sku" \notin DOMAIN set
        BY <1>1, <3>1, <3>3, <4>2 DEF IInv, UniqueSku
      <4>. QED
        BY <4>1, <4>2
    <3>. QED
      BY <2>2, <3>1, <3>3, <3>4, RowIsRow
  <2>5. CASE job[w].op = "remove"
    <3>1. Store(p, Gone) /\ ~ Ordered(p) /\ Gone \notin Rows
      BY <1>3, <2>5, Distinct DEF WriteProduct, Rejected
    <3>. QED
      BY <2>2, <3>1
  <2>. QED
    BY <1>1, <2>3, <2>4, <2>5
<1>. QED
  BY <1>2, <1>3 DEF WriteProduct

-------------------------------------------------------------------------------
LEMMA InitHolds == Init => IInv
<1>. SUFFICES ASSUME Init PROVE IInv
  OBVIOUS
<1>1. TypeOK
  BY NoJobShape DEF Init, TypeOK
<1>2. UniqueSku
  BY DEF Init, UniqueSku, Exists, Row
<1>3. NoDanglingLine /\ Quotable /\ OrdersOK /\ catalog \in catalogs
  BY DEF Init, NoDanglingLine, Quotable, OrdersOK, Placed
<1>4. \A w \in Workers : JobOK(job[w]) /\ Own(w, job[w])
  BY NoJobShape, NoJobIsOwn DEF Init
<1>. QED
  BY <1>1, <1>2, <1>3, <1>4 DEF IInv

LEMMA NextHolds == IInv /\ [Next]_vars => IInv'
<1>. SUFFICES ASSUME IInv, [Next]_vars PROVE IInv'
  OBVIOUS
<1>1. CASE UNCHANGED vars
  <2>1. /\ TypeOK' /\ UniqueSku' /\ NoDanglingLine' /\ Quotable' /\ OrdersOK'
        /\ (catalog \in catalogs)'
    BY <1>1 DEF vars, IInv, TypeOK, UniqueSku, NoDanglingLine, Quotable, OrdersOK,
                Placed, Exists
  <2>2. \A w \in Workers : JobOK(job[w])' /\ Own(w, job[w])'
    BY <1>1 DEF vars, IInv, JobOK, Own, Placing, Placed
  <2>. QED
    BY <2>1, <2>2 DEF IInv
<1>. QED
  BY <1>1, RequestStep, ReadProductsStep, InsertOrderStep, FindProductStep,
     CheckSkuStep, WriteProductStep DEF Next

(* The inductive invariant of order creation (orders.service.ts, create):  *)
(* what a request carries from its read to its insert stays a quotation.   *)
THEOREM OrdersInvariance == Spec => []IInv
BY InitHolds, NextHolds, PTL DEF Spec

-------------------------------------------------------------------------------
(* Units of a product in lines.                                            *)

LEMMA UnitsStep ==
    ASSUME NEW lines \in Seq(Lines), NEW p
    PROVE  /\ UnitsUpTo(lines, p)[0] = 0
           /\ \A n \in 0..Len(lines) : UnitsUpTo(lines, p)[n] \in Nat
           /\ \A n \in 0..Len(lines)-1 :
                  UnitsUpTo(lines, p)[n+1] =
                      UnitsUpTo(lines, p)[n]
                      + IF lines[n+1].product = p THEN lines[n+1].quantity ELSE 0
<1>. DEFINE q == [i \in 1..Len(lines) |->
                     IF lines[i].product = p THEN lines[i].quantity ELSE 0]
<1>1. Len(lines) \in Nat /\ \A i \in 1..Len(lines) : q[i] \in Nat
  BY LinesShape
<1>2. \A n \in 0..Len(lines)-1 :
          q[n+1] = IF lines[n+1].product = p THEN lines[n+1].quantity ELSE 0
  BY <1>1
<1>3. UnitsUpTo(lines, p) = SumUpTo(q)
  BY DEF UnitsUpTo
<1>. HIDE DEF q
<1>4. \A n \in 0..Len(lines) : SumUpTo(q)[n] \in Nat
  BY <1>1, SumNat
<1>5. SumUpTo(q)[0] = 0 /\ \A n \in Nat : SumUpTo(q)[n+1] = SumUpTo(q)[n] + q[n+1]
  BY SumValue
<1>. QED
  BY <1>1, <1>2, <1>3, <1>4, <1>5

LEMMA NoUnits ==
    ASSUME NEW lines \in Seq(Lines), NEW p,
           \A i \in 1..Len(lines) : lines[i].product # p
    PROVE  Units(lines, p) = 0
<1>. DEFINE units == UnitsUpTo(lines, p)
            S == {n \in Nat : n <= Len(lines) => units[n] = 0}
<1>1. Len(lines) \in Nat
  OBVIOUS
<1>2. /\ units[0] = 0
      /\ \A n \in 0..Len(lines)-1 :
             units[n+1] = units[n]
                 + IF lines[n+1].product = p THEN lines[n+1].quantity ELSE 0
  BY UnitsStep
<1>. HIDE DEF units
<1>3. 0 \in S /\ \A n \in S : n + 1 \in S
  <2>1. 0 \in S
    BY <1>2
  <2>2. ASSUME NEW n \in S PROVE n + 1 \in S
    <3>1. SUFFICES ASSUME n + 1 <= Len(lines) PROVE units[n+1] = 0
      OBVIOUS
    <3>2. n \in 0..Len(lines)-1 /\ n + 1 \in 1..Len(lines) /\ units[n] = 0
      BY <1>1, <3>1
    <3>. QED
      BY <1>2, <3>2
  <2>. QED
    BY <2>1, <2>2
<1>4. S = Nat
  <2>. HIDE DEF S
  <2>1. S \in SUBSET Nat
    BY DEF S
  <2>. QED
    BY <1>3, <2>1, SetInduction
<1>. QED
  BY <1>1, <1>4 DEF units, Units

-------------------------------------------------------------------------------
(* Carts without a product twice.                                          *)

Apart(lines) ==
    \A i, j \in 1..Len(lines) : lines[i].product = lines[j].product => i = j

EachOnce == \A cart \in Carts : Apart(cart)

(* One line takes all the units that an order without repetition takes.    *)
LEMMA OneLine ==
    ASSUME NEW lines \in Seq(Lines), Apart(lines), NEW k \in 1..Len(lines)
    PROVE  Units(lines, lines[k].product) = lines[k].quantity
<1>. DEFINE p == lines[k].product
            units == UnitsUpTo(lines, p)
            S == {n \in Nat : n <= Len(lines) =>
                                  units[n] = IF n < k THEN 0 ELSE lines[k].quantity}
<1>1. Len(lines) \in Nat /\ lines[k].quantity \in Nat
  BY LinesShape
<1>2. /\ units[0] = 0
      /\ \A n \in 0..Len(lines)-1 :
             units[n+1] = units[n]
                 + IF lines[n+1].product = p THEN lines[n+1].quantity ELSE 0
  BY UnitsStep
<1>3. \A i \in 1..Len(lines) : lines[i].product = p <=> i = k
  BY DEF Apart
<1>. HIDE DEF units, p
<1>4. 0 \in S
  BY <1>1, <1>2
<1>5. ASSUME NEW n \in S PROVE n + 1 \in S
  <2>1. SUFFICES ASSUME n + 1 <= Len(lines)
                 PROVE  units[n+1] = IF n + 1 < k THEN 0 ELSE lines[k].quantity
    OBVIOUS
  <2>2. n \in 0..Len(lines)-1 /\ n + 1 \in 1..Len(lines)
    BY <1>1, <2>1
  <2>3. units[n] = IF n < k THEN 0 ELSE lines[k].quantity
    BY <2>1
  <2>4. CASE n + 1 = k
    <3>1. units[n+1] = units[n] + lines[k].quantity
      BY <1>2, <1>3, <2>2, <2>4
    <3>. QED
      BY <1>1, <2>3, <2>4, <3>1
  <2>5. CASE n + 1 # k
    <3>1. units[n+1] = units[n] + 0
      BY <1>2, <1>3, <2>2, <2>5
    <3>. QED
      BY <1>1, <2>2, <2>3, <2>5, <3>1
  <2>. QED
    BY <2>4, <2>5
<1>6. S = Nat
  <2>. HIDE DEF S
  <2>1. S \in SUBSET Nat
    BY DEF S
  <2>. QED
    BY <1>4, <1>5, <2>1, SetInduction
<1>7. units[Len(lines)] = lines[k].quantity
  BY <1>1, <1>6
<1>. QED
  BY <1>7 DEF units, p, Units

(* So a quotation for every line is one for the units of every product.    *)
LEMMA QuotedCovers ==
    ASSUME NEW lines \in Seq(Lines), Apart(lines), NEW c, QuotedIn(lines, c), NEW p
    PROVE  Units(lines, p) > 0 => Row(c[p]) /\ c[p].stock >= Units(lines, p)
<1>1. CASE \E k \in 1..Len(lines) : lines[k].product = p
  <2>1. PICK k \in 1..Len(lines) : lines[k].product = p
    BY <1>1
  <2>2. Units(lines, p) = lines[k].quantity
    BY <2>1, OneLine
  <2>. QED
    BY <2>1, <2>2 DEF QuotedIn
<1>2. CASE \A k \in 1..Len(lines) : lines[k].product # p
  BY <1>2, NoUnits
<1>. QED
  BY <1>1, <1>2

ApartInv ==
    /\ \A o \in Orders : Placed(o) => Apart(orders[o].lines)
    /\ \A w \in Workers : At(w, "insert") => Apart(job[w].lines)

LEMMA PricedApart ==
    ASSUME NEW cart \in Carts, Apart(cart), NEW rows, NEW e
    PROVE  Apart(Priced(cart, rows, e))
<1>1. PICK N \in Nat : N = Len(cart)
  BY CartShape
<1>2. PICK lines : lines = Priced(cart, rows, e)
  OBVIOUS
<1>3. Len(lines) = N /\ \A i \in 1..N : lines[i].product = cart[i].product
  BY <1>1, <1>2 DEF Priced
<1>4. Apart(lines)
  BY <1>1, <1>3 DEF Apart
<1>. QED
  BY <1>2, <1>4

(* Whoever is about to insert has read, or was about to insert before.     *)
LEMMA ApartJobs ==
    ASSUME EachOnce, IInv, ApartInv, Next, NEW v \in Workers, At(v, "insert")'
    PROVE  Apart(job[v].lines)'
<1>1. \A w \in Workers : job[w] \in JobSet
  BY DEF IInv, TypeOK
<1>2. job \in [Workers -> JobSet]
  BY DEF IInv, TypeOK
<1>3. CASE job'[v] = job[v]
  BY <1>3 DEF ApartInv, At
<1>4. ASSUME NEW w \in Workers, ReadProducts(w) PROVE Apart(job[v].lines)'
  <2>1. CASE Finish(w)
    BY <1>2, <1>3, <2>1 DEF Finish, Become, NoJob, At
  <2>2. ASSUME NEW e \in Errors,
               Become(w, [step |-> "insert", order |-> job[w].order,
                          lines |-> Priced(job[w].cart, catalog, e)])
        PROVE  Apart(job[v].lines)'
    <3>1. job[w].cart \in Carts
      BY <1>4, JobShape DEF IInv, ReadProducts
    <3>2. PICK lines : lines = Priced(job[w].cart, catalog, e)
      OBVIOUS
    <3>3. Apart(lines)
      BY <3>1, <3>2, PricedApart DEF EachOnce
    <3>4. job' = [job EXCEPT ![w] = [step |-> "insert", order |-> job[w].order,
                                     lines |-> lines]]
      BY <2>2, <3>2 DEF Become
    <3>5. CASE v = w
      BY <1>2, <3>3, <3>4, <3>5
    <3>6. CASE v # w
      BY <1>2, <1>3, <3>4, <3>6
    <3>. QED
      BY <3>5, <3>6
  <2>. QED
    BY <1>4, <2>1, <2>2 DEF ReadProducts
<1>5. ASSUME NEW w \in Workers, NEW j, Become(w, j), j.step # "insert"
      PROVE  Apart(job[v].lines)'
  <2>1. v # w
    BY <1>2, <1>5 DEF Become, At
  <2>. QED
    BY <1>2, <1>3, <1>5, <2>1 DEF Become
<1>6. ASSUME NEW w \in Workers, Finish(w) PROVE Apart(job[v].lines)'
  BY <1>5, <1>6 DEF Finish, NoJob
<1>7. ASSUME NEW w \in Workers, NEW s, GoTo(w, s), s # "insert"
      PROVE  Apart(job[v].lines)'
  <2>1. [job[w] EXCEPT !.step = s].step = s
    BY <1>1 DEF JobSet, NoJob
  <2>. QED
    BY <1>5, <1>7, <2>1 DEF GoTo
<1>8. ASSUME NEW w \in Workers, InsertOrder(w) \/ WriteProduct(w)
      PROVE  Apart(job[v].lines)'
  BY <1>6, <1>8 DEF InsertOrder, WriteProduct
<1>9. ASSUME NEW w \in Workers, FindProduct(w) PROVE Apart(job[v].lines)'
  BY <1>6, <1>7, <1>9 DEF FindProduct
<1>10. ASSUME NEW w \in Workers, CheckSku(w) PROVE Apart(job[v].lines)'
  BY <1>6, <1>7, <1>10 DEF CheckSku
<1>11. ASSUME NEW w \in Workers, NEW o \in Orders, NEW cart \in Carts, PlaceOrder(w, o, cart)
       PROVE  Apart(job[v].lines)'
  BY <1>5, <1>11 DEF PlaceOrder, Begin
<1>12. ASSUME NEW w \in Workers, NEW p \in Products,
              \/ \E row \in NewRows : CreateProduct(w, p, row)
              \/ \E patch \in Patches : UpdateProduct(w, p, patch)
              \/ RemoveProduct(w, p)
       PROVE  Apart(job[v].lines)'
  BY <1>5, <1>12 DEF CreateProduct, UpdateProduct, RemoveProduct, Begin
<1>. QED
  BY <1>4, <1>8, <1>9, <1>10, <1>11, <1>12 DEF Next

LEMMA ApartOrders ==
    ASSUME IInv, ApartInv, Next, NEW o \in Orders, Placed(o)'
    PROVE  Apart(orders[o].lines)'
<1>1. orders \in [Orders -> Receipts \union {Absent}]
  BY DEF IInv, TypeOK
<1>2. CASE orders' = orders
  BY <1>2 DEF ApartInv, Placed
<1>3. ASSUME NEW w \in Workers, InsertOrder(w) PROVE Apart(orders[o].lines)'
  <2>1. PICK lines, total :
            /\ lines = job[w].lines
            /\ \/ orders' = orders
               \/ orders' = [orders EXCEPT ![job[w].order] =
                                 [lines |-> lines, total |-> total]]
    BY <1>3 DEF InsertOrder
  <2>2. Apart(lines)
    BY <1>3, <2>1 DEF ApartInv, InsertOrder
  <2>3. CASE o # job[w].order
    BY <1>1, <2>1, <2>3 DEF ApartInv, Placed
  <2>4. CASE o = job[w].order
    BY <1>1, <1>2, <2>1, <2>2, <2>4
  <2>. QED
    BY <2>3, <2>4
<1>. QED
  BY <1>2, <1>3 DEF Next, PlaceOrder, ReadProducts, CreateProduct, UpdateProduct,
     RemoveProduct, FindProduct, CheckSku, WriteProduct, Begin

(* orders.service.ts, assertOrderable, line by line "so a customer can't   *)
(* order more than exists": it does what it is for as long as a request    *)
(* names no product twice, which its DTO does not ask for.                 *)
THEOREM EnoughForEachOnce == EachOnce => (Spec => []NeverMoreThanExists)
<1>. SUFFICES ASSUME EachOnce PROVE Spec => []NeverMoreThanExists
  OBVIOUS
<1>1. Init => ApartInv
  BY DEF Init, ApartInv, Placed, At, NoJob
<1>2. IInv /\ ApartInv /\ [Next]_vars => ApartInv'
  <2>. SUFFICES ASSUME IInv, ApartInv, [Next]_vars PROVE ApartInv'
    OBVIOUS
  <2>1. CASE UNCHANGED vars
    BY <2>1 DEF vars, ApartInv, Placed, At
  <2>2. CASE Next
    BY <2>2, ApartJobs, ApartOrders DEF ApartInv
  <2>. QED
    BY <2>1, <2>2
<1>3. IInv /\ ApartInv => NeverMoreThanExists
  <2>. SUFFICES ASSUME IInv, ApartInv, NEW o \in Orders, Placed(o)
                PROVE  \E c \in catalogs : \A p \in Products :
                           LET wanted == Units(orders[o].lines, p)
                           IN  wanted > 0 => Row(c[p]) /\ c[p].stock >= wanted
    BY DEF NeverMoreThanExists
  <2>1. PICK c \in catalogs : QuotedIn(orders[o].lines, c)
    BY DEF IInv, Quotable
  <2>2. orders[o].lines \in Seq(Lines) /\ Apart(orders[o].lines)
    BY DEF IInv, TypeOK, Placed, Receipts, ApartInv
  <2>. QED
    BY <2>1, <2>2, QuotedCovers
<1>. QED
  BY <1>1, <1>2, <1>3, OrdersInvariance, PTL DEF Spec
===============================================================================
