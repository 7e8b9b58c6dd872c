-------------------------------- MODULE Orders --------------------------------
(***************************************************************************)
(* OrdersService.create against a catalog that ProductsService changes.    *)
(* An order is checked and priced from one read of the products, and       *)
(* inserted later in a transaction of its own.  Administrators' requests   *)
(* check first and write afterwards as well; what holds at the write is    *)
(* what the schema's unique and foreign keys make hold.                    *)
(***************************************************************************)
EXTENDS Integers, FiniteSets, Sequences, Money

CONSTANTS
    Products, Orders, Workers,
    Absent,         \* a product or order id not issued yet
    Gone,           \* a deleted product
    Skus,
    NewRows,        \* products an administrator may create
    Patches,        \* changes an administrator may make: records of some fields
    Carts,          \* orders a customer may ask for: sequences of [product, quantity]
    MaxEdits        \* bound on the catalogs an administrator starts to change

(* The columns of a product, with the values CreateProductDto admits.      *)
Column == [sku |-> Skus, price |-> 0..MaxMoney, stock |-> Nat, active |-> BOOLEAN]

Rows == [sku : Skus, price : 0..MaxMoney, stock : Nat, active : BOOLEAN]

ASSUME CatalogAssumption ==
    /\ NewRows \subseteq Rows
    /\ \A patch \in Patches : \A f \in DOMAIN patch :
           f \in DOMAIN Column /\ patch[f] \in Column[f]

ASSUME CartAssumption ==
    \A cart \in Carts :
        /\ cart \in Seq([product : Products, quantity : Nat \ {0}]) /\ cart # <<>>
        /\ 4 * Len(cart) * Err < Grain

ASSUME Distinct ==
    /\ Absent # Gone
    /\ {Absent, Gone} \cap Rows = {} /\ {Absent, Gone} \cap Products = {}

VARIABLES
    catalog,        \* the products table: a row, Absent or Gone per id
    orders,         \* the orders with their items: [lines, total], or Absent
    job,            \* the request each worker serves
    catalogs        \* history: every value catalog has had

vars == <<catalog, orders, job, catalogs>>

Row(f) == f \notin {Absent, Gone}

Exists(p) == Row(catalog[p])

Placed(o) == orders[o] # Absent

NoJob == [step |-> "idle"]

Init ==
    /\ catalog = [p \in Products |-> Absent]
    /\ orders = [o \in Orders |-> Absent]
    /\ job = [w \in Workers |-> NoJob]
    /\ catalogs = {catalog}

At(w, s) == job[w].step = s

Become(w, j) == job' = [job EXCEPT ![w] = j]

GoTo(w, s) == Become(w, [job[w] EXCEPT !.step = s])

Finish(w) == Become(w, NoJob)

Begin(w, j) == At(w, "idle") /\ Become(w, j) /\ UNCHANGED <<catalog, orders, catalogs>>

-------------------------------------------------------------------------------
(* POST /orders.                                                           *)

PlaceOrder(w, o, cart) ==
    /\ ~ Placed(o)
    /\ \A v \in Workers : At(v, "read") \/ At(v, "insert") => job[v].order # o
    /\ Begin(w, [step |-> "read", order |-> o, cart |-> cart])

(* assertOrderable, and the missing product before it. *)
Orderable(row, n) == Row(row) /\ row.active /\ row.stock >= n

Unpriced(cart, rows, e) == cart                           \* mutant of Priced

(* The line items with their subtotals, computed with an error of e.       *)
Priced(cart, rows, e) ==
    [i \in 1..Len(cart) |->
        LET price == rows[cart[i].product].price IN
        [product |-> cart[i].product, quantity |-> cart[i].quantity, price |-> price,
         subtotal |-> Subtotal(cart[i].quantity, price, e)]]

(* One findMany, then every line against what it returned. *)
ReadProducts(w) ==
    LET cart == job[w].cart IN
    /\ At(w, "read")
    /\ IF \A i \in 1..Len(cart) : Orderable(catalog[cart[i].product], cart[i].quantity)
       THEN \E e \in Errors : Become(w, [step |-> "insert", order |-> job[w].order,
                                         lines |-> Priced(cart, catalog, e)])
       ELSE Finish(w)
    /\ UNCHANGED <<catalog, orders, catalogs>>

Subtotals(lines) == [i \in 1..Len(lines) |-> lines[i].subtotal]

(* The items' foreign keys want their products to exist, and the amounts   *)
(* must fit their columns.                                                 *)
Accepted(lines, total) ==
    /\ \A i \in 1..Len(lines) : Exists(lines[i].product) /\ Fits(lines[i].subtotal)
    /\ Fits(total)

(* Mutant of InsertOrder: the first line is priced when it is inserted. *)
PriceAtInsert(w) ==
    LET lines == job[w].lines IN
    /\ At(w, "insert")
    /\ \E e \in Errors :
           LET total == Total(Subtotals(lines), e) IN
           orders' = IF ~ Accepted(lines, total) THEN orders
                     ELSE [orders EXCEPT ![job[w].order] =
                              [lines |-> [lines EXCEPT ![1].price =
                                             catalog[lines[1].product].price],
                               total |-> total]]
    /\ Finish(w)
    /\ UNCHANGED <<catalog, catalogs>>

InsertOrder(w) ==
    LET lines == job[w].lines IN
    /\ At(w, "insert")
    /\ \E e \in Errors :
           LET total == Total(Subtotals(lines), e) IN
           orders' = IF ~ Accepted(lines, total) THEN orders
                     ELSE [orders EXCEPT ![job[w].order] =
                              [lines |-> lines, total |-> total]]
    /\ Finish(w)
    /\ UNCHANGED <<catalog, catalogs>>

-------------------------------------------------------------------------------
(* ProductsService: create, update, remove.                                *)

MayEdit == Cardinality(catalogs) <= MaxEdits

CreateProduct(w, p, row) ==
    /\ MayEdit /\ catalog[p] = Absent
    /\ \A v \in Workers : At(v, "sku") \/ At(v, "write") => job[v].id # p
    /\ Begin(w, [step |-> "sku", op |-> "create", id |-> p, set |-> row])

UpdateProduct(w, p, patch) ==
    /\ MayEdit /\ catalog[p] # Absent
    /\ Begin(w, [step |-> "find", op |-> "update", id |-> p, set |-> patch])

RemoveProduct(w, p) ==
    /\ catalog[p] # Absent
    /\ Begin(w, [step |-> "find", op |-> "remove", id |-> p, set |-> <<>>])

ChangesSku(w) == "sku" \in DOMAIN job[w].set

FindProduct(w) ==
    /\ At(w, "find")
    /\ IF ~ Exists(job[w].id) THEN Finish(w)
       ELSE GoTo(w, IF ChangesSku(w) THEN "sku" ELSE "write")
    /\ UNCHANGED <<catalog, orders, catalogs>>

(* Another product has the sku that this request wants to write. *)
SkuTaken(w) ==
    ChangesSku(w) /\ \E q \in Products \ {job[w].id} :
                         Exists(q) /\ catalog[q].sku = job[w].set.sku

CheckSku(w) ==
    /\ At(w, "sku")
    /\ IF SkuTaken(w) THEN Finish(w) ELSE GoTo(w, "write")
    /\ UNCHANGED <<catalog, orders, catalogs>>

Merge(row, patch) ==
    LET field(f) == IF f \in DOMAIN patch THEN patch[f] ELSE row[f]
    IN  [sku |-> field("sku"), price |-> field("price"),
         stock |-> field("stock"), active |-> field("active")]

Ordered(p) ==
    \E o \in Orders : Placed(o) /\ \E i \in 1..Len(orders[o].lines) :
                                      orders[o].lines[i].product = p

(* A write commits, and the catalog's history grows. *)
Store(p, row) ==
    /\ catalog' = [catalog EXCEPT ![p] = row]
    /\ catalogs' = catalogs \union {catalog'}

SkuNotUnique(w) ==                                        \* mutant of Rejected
    \/ job[w].op # "create" /\ ~ Exists(job[w].id)
    \/ job[w].op = "remove" /\ Ordered(job[w].id)

OrdersCascade(w) ==                                       \* mutant of Rejected
    \/ job[w].op # "create" /\ ~ Exists(job[w].id)
    \/ SkuTaken(w)

(* The database refuses a row that is gone, a sku that is taken, and the   *)
(* removal of a product that an order refers to (onDelete: Restrict).      *)
Rejected(w) ==
    \/ job[w].op # "create" /\ ~ Exists(job[w].id)
    \/ SkuTaken(w)
    \/ job[w].op = "remove" /\ Ordered(job[w].id)

WriteProduct(w) ==
    LET p == job[w].id IN
    /\ At(w, "write")
    /\ IF Rejected(w) THEN UNCHANGED <<catalog, catalogs>>
       ELSE Store(p, CASE job[w].op = "create" -> job[w].set
                       [] job[w].op = "update" -> Merge(catalog[p], job[w].set)
                       [] job[w].op = "remove" -> Gone)
    /\ Finish(w)
    /\ UNCHANGED orders

-------------------------------------------------------------------------------
Next ==
    \E w \in Workers :
        \/ \E o \in Orders, cart \in Carts : PlaceOrder(w, o, cart)
        \/ ReadProducts(w) \/ InsertOrder(w)
        \/ \E p \in Products :
               \/ \E row \in NewRows : CreateProduct(w, p, row)
               \/ \E patch \in Patches : UpdateProduct(w, p, patch)
               \/ RemoveProduct(w, p)
        \/ FindProduct(w) \/ CheckSku(w)
        \/ WriteProduct(w)

Spec == Init /\ [][Next]_vars

-------------------------------------------------------------------------------
Lines == [product : Products, quantity : Nat \ {0}, price : 0..MaxMoney,
          subtotal : Nat]

Receipts == [lines : Seq(Lines), total : 0..MaxMoney]

ASSUME NotAReceipt == Absent \notin Receipts

JobSet ==
    {NoJob}
    \union [step : {"read"}, order : Orders, cart : Carts]
    \union [step : {"insert"}, order : Orders, lines : Seq(Lines)]
    \union [step : {"sku", "write"}, op : {"create"}, id : Products, set : NewRows]
    \union [step : {"find", "sku", "write"}, op : {"update"}, id : Products, set : Patches]
    \union [step : {"find", "write"}, op : {"remove"}, id : Products, set : {<<>>}]

(* The shape of the tables and of the requests that have begun. *)
TypeOK ==
    /\ catalog \in [Products -> Rows \union {Absent, Gone}]
    /\ orders \in [Orders -> Receipts \union {Absent}]
    /\ job \in [Workers -> JobSet]

(* Two requests may both see a sku free; still no two products have it. *)
UniqueSku ==
    \A p, q \in Products :
        Exists(p) /\ Exists(q) /\ catalog[p].sku = catalog[q].sku => p = q

(* A product removed between an order's read and its insert, or after it,  *)
(* never leaves an order with a line for a product that is not there.      *)
NoDanglingLine ==
    \A o \in Orders : Placed(o) =>
        \A i \in 1..Len(orders[o].lines) : Exists(orders[o].lines[i].product)

(* Every line was active, in stock for its quantity and had this price in  *)
(* the catalog c.                                                          *)
QuotedIn(lines, c) ==
    \A i \in 1..Len(lines) :
        LET row == c[lines[i].product] IN
        Row(row) /\ row.active /\ row.stock >= lines[i].quantity
        /\ row.price = lines[i].price

(* An order is one the shop could have taken at a single instant: there is *)
(* a catalog that was in force once in which every line was active, in     *)
(* stock for its quantity, and had the price the customer is charged.      *)
Quotable == \A o \in Orders : Placed(o) => \E c \in catalogs : QuotedIn(orders[o].lines, c)

(* quantity * price over all lines, in whole cents. *)
Exact(lines) ==
    SumUpTo([i \in 1..Len(lines) |-> lines[i].quantity * lines[i].price])[Len(lines)]

(* order.entity.ts: rounding each line "to avoid floating-point drift"     *)
(* leaves a subtotal that is exact to the cent, whatever the doubles did.  *)
SubtotalsAreExact ==
    \A o \in Orders : Placed(o) => \A i \in 1..Len(orders[o].lines) :
        LET line == orders[o].lines[i] IN line.subtotal = line.quantity * line.price

(* And so is the total that is stored and charged.                         *)
TotalIsExact == \A o \in Orders : Placed(o) => orders[o].total = Exact(orders[o].lines)

(* UnitsUpTo(lines, p)[n]: the units of p in the first n lines. *)
UnitsUpTo(lines, p) ==
    SumUpTo([i \in 1..Len(lines) |->
                IF lines[i].product = p THEN lines[i].quantity ELSE 0])

Units(lines, p) == UnitsUpTo(lines, p)[Len(lines)]

(* orders.service.ts: "so a customer can't order more than exists".  Some  *)
(* catalog in force once had the units of every product an order takes.    *)
NeverMoreThanExists ==
    \A o \in Orders : Placed(o) =>
        \E c \in catalogs : \A p \in Products :
            LET wanted == Units(orders[o].lines, p)
            IN  wanted > 0 => Row(c[p]) /\ c[p].stock >= wanted
===============================================================================
