------------------------------- MODULE Payments -------------------------------
(***************************************************************************)
(* PaymentsService and the rows and providers it works on.  Requests run   *)
(* on Workers, one await at a time; every await is a point where another   *)
(* request may run.  A worker's job record holds the local variables of    *)
(* the request it serves: "step" names the call it makes next.             *)
(*                                                                         *)
(*   initiatePayment    create -> persist                                  *)
(*   confirmations      [execute ->] read -> include -> update             *)
(*                                            [-> order -> items] -> commit*)
(*                                                                         *)
(* From update on the job is inside prisma.$transaction: what it has       *)
(* written is seen by others at commit only, and the rows it has written   *)
(* are locked (PostgreSQL, READ COMMITTED) until it commits or rolls back. *)
(***************************************************************************)
EXTENDS Integers, Sequences, Functions

CONSTANTS
    Products, Orders, Txns, Workers,
    None,
    Provider,       \* the provider that issues a transaction id
    OrderItems,     \* the lines of an order: a sequence of [product, quantity]
    Taken,          \* Taken[o][n][p]: units of p in the first n lines of o
    InitialStock,
    StockInputs,    \* stock values an administrator may write
    MaxFailures,    \* bound on failed requests
    Pollable,       \* bounds on an instance: transactions that may be polled,
    Redirectable,   \* ... that the callback of bKash may name,
    Declinable      \* ... whose card may be declined

ASSUME ProviderAssumption == Provider \in [Txns -> {"STRIPE", "BKASH"}]

ASSUME ItemsAssumption ==
    \A o \in Orders :
        OrderItems[o] \in Seq([product : Products, quantity : Nat \ {0}])

ASSUME TakenAssumption ==
    /\ \A o \in Orders : \A n \in 0..Len(OrderItems[o]) :
           Taken[o][n] \in [Products -> Nat]
    /\ \A o \in Orders, p \in Products :
           /\ Taken[o][0][p] = 0
           /\ \A n \in 1..Len(OrderItems[o]) :
                  Taken[o][n][p] = Taken[o][n-1][p] +
                      IF OrderItems[o][n].product = p
                      THEN OrderItems[o][n].quantity ELSE 0

ASSUME StockAssumption ==
    /\ InitialStock \in [Products -> Nat]
    /\ StockInputs \subseteq Nat
    /\ MaxFailures \in Nat

ASSUME NoneAssumption == None \notin Orders /\ None \notin Txns

VARIABLES
    stock,          \* products.stock
    orderStatus,    \* orders.status
    payment,        \* payments.status, "NONE" while there is no row
    payOrder,       \* payments.order_id
    intent,         \* the provider's own record of the transaction
    declined,       \* transactions with a payment_failed event to deliver
    acked,          \* webhook events answered with a 2xx: <<txn, success>>
    denied,         \* history: transactions that a request called unpaid
    job,            \* the request each worker serves
    failures        \* requests that failed so far

vars == <<stock, orderStatus, payment, payOrder,
          intent, declined, acked, denied, job, failures>>

rows     == <<stock, orderStatus, payment, payOrder>>
provider == <<intent, declined>>

-------------------------------------------------------------------------------
Demand == [o \in Orders |-> Taken[o][Len(OrderItems[o])]]

Nothing == [p \in Products |-> 0]

NoJob == [step |-> "idle", txn |-> None, order |-> None, success |-> FALSE,
          hook |-> FALSE, seen |-> "PENDING", next |-> 1, draft |-> Nothing]

Init ==
    /\ stock = InitialStock
    /\ orderStatus = [o \in Orders |-> "PENDING"]
    /\ payment = [t \in Txns |-> "NONE"]
    /\ payOrder = [t \in Txns |-> None]
    /\ intent = [t \in Txns |-> "none"]
    /\ declined = {}
    /\ acked = {}
    /\ denied = {}
    /\ job = [w \in Workers |-> NoJob]
    /\ failures = 0

At(w, s) == job[w].step = s

Become(w, j) == job' = [job EXCEPT ![w] = j]

GoTo(w, s) == Become(w, [job[w] EXCEPT !.step = s])

Finish(w) == Become(w, NoJob)

(* The 2xx answer of a webhook request; other requests answer a person.    *)
Acknowledge(w) ==
    acked' = IF job[w].hook
             THEN acked \union {<<job[w].txn, job[w].success>>}
             ELSE acked

FailedIsOpen(s) == s = "SUCCESS"                         \* mutant of IsTerminal

IsTerminal(s) == s \in {"SUCCESS", "FAILED"}

-------------------------------------------------------------------------------
(* Row locks, derived from where a worker is in its transaction.           *)

HoldsPayment(w, t) ==
    job[w].txn = t /\ job[w].step \in {"order", "items", "commit"}

HoldsOrder(w, o) ==
    /\ job[w].order = o /\ job[w].success
    /\ job[w].step \in {"items", "commit"}

HoldsProduct(w, p) == job[w].draft[p] > 0

Item(w) == OrderItems[job[w].order][job[w].next]

InStockOffByOne(w) ==                                    \* mutant of InStock
    stock[Item(w).product] - job[w].draft[Item(w).product] >= Item(w).quantity - 1

(* UPDATE ... WHERE stock >= quantity: committed stock less own writes.    *)
InStock(w) ==
    stock[Item(w).product] - job[w].draft[Item(w).product] >= Item(w).quantity

WaitsFor(w, v) ==
    /\ v # w
    /\ \/ At(w, "update") /\ HoldsPayment(v, job[w].txn)
       \/ /\ At(w, "order") /\ job[w].seen = "PENDING"
          /\ HoldsOrder(v, job[w].order)
       \/ /\ At(w, "items") /\ job[w].next <= Len(OrderItems[job[w].order])
          /\ InStock(w)
          /\ HoldsProduct(v, Item(w).product)

-------------------------------------------------------------------------------
(* POST /payments/:orderId/initiate.  The order's status is read here and  *)
(* never again: the provider is called and the row inserted regardless.    *)
(* The transaction id the provider will issue is picked with the request;  *)
(* Txns bounds how many there are.                                         *)

InitiatePayment(w, o, t) ==
    /\ At(w, "idle")
    /\ orderStatus[o] = "PENDING"
    /\ intent[t] = "none"
    /\ \A v \in Workers : job[v].txn # t
    /\ Become(w, [NoJob EXCEPT !.step = "create", !.txn = t, !.order = o])
    /\ UNCHANGED <<rows, provider, acked, denied, failures>>

OpenBeforeInsert(w) ==                                   \* mutant of CreateIntent
    /\ At(w, "create")
    /\ intent' = [intent EXCEPT ![job[w].txn] = "open"]
    /\ GoTo(w, "persist")
    /\ UNCHANGED <<rows, declined, acked, denied, failures>>

CreateIntent(w) ==
    /\ At(w, "create")
    /\ intent' = [intent EXCEPT ![job[w].txn] = "created"]
    /\ GoTo(w, "persist")
    /\ UNCHANGED <<rows, declined, acked, denied, failures>>

(* The row is inserted and the client gets the secret or redirect URL that *)
(* lets the customer act: only now is the intent open to them.             *)
CreatePayment(w) ==
    LET t == job[w].txn IN
    /\ At(w, "persist")
    /\ payment' = [payment EXCEPT ![t] = "PENDING"]
    /\ payOrder' = [payOrder EXCEPT ![t] = job[w].order]
    /\ intent' = [intent EXCEPT ![t] = "open"]
    /\ Finish(w)
    /\ UNCHANGED <<stock, orderStatus, declined, acked, denied, failures>>

-------------------------------------------------------------------------------
(* The customer at the provider (external).  A declined card leaves a      *)
(* Stripe intent open for another try.  A bKash approval moves no money    *)
(* until it is executed; a customer who has been sent back without one may *)
(* still give it.                                                          *)

Pay(t) ==
    /\ Provider[t] = "STRIPE" /\ intent[t] = "open"
    /\ intent' = [intent EXCEPT ![t] = "captured"]
    /\ UNCHANGED <<rows, declined, acked, denied, job, failures>>

Decline(t) ==
    /\ Provider[t] = "STRIPE" /\ intent[t] = "open"
    /\ t \in Declinable \ declined
    /\ declined' = declined \union {t}
    /\ UNCHANGED <<rows, intent, acked, denied, job, failures>>

Approve(t) ==
    /\ Provider[t] = "BKASH" /\ intent[t] = "open"
    /\ intent' = [intent EXCEPT ![t] = "approved"]
    /\ UNCHANGED <<rows, declined, acked, denied, job, failures>>

-------------------------------------------------------------------------------
(* The three ways a confirmation arrives.  Each may be repeated at any     *)
(* time and in any order.  A transaction id is known to others from the    *)
(* answer of initiatePayment on; an unknown one is a 404.                  *)

Known(t) == intent[t] \notin {"none", "created"}

DeniedIf(unpaid, t) == denied' = IF unpaid THEN denied \union {t} ELSE denied

Begin(w, s, t, ok, hook) ==
    /\ At(w, "idle")
    /\ Become(w, [NoJob EXCEPT !.step = s, !.txn = t,
                               !.success = ok, !.hook = hook])
    /\ DeniedIf(s = "read" /\ ~ ok, t)
    /\ UNCHANGED <<rows, provider, acked, failures>>

(* payment_intent.succeeded or payment_intent.payment_failed.              *)
StripeWebhook(w, t, ok) ==
    /\ Provider[t] = "STRIPE"
    /\ IF ok THEN intent[t] = "captured" ELSE t \in declined
    /\ Begin(w, "read", t, ok, TRUE)

TrustRedirect(w, t) ==                                   \* mutant of BkashCallback
    /\ t \in Redirectable /\ Known(t)
    /\ \E ok \in BOOLEAN : Begin(w, "read", t, ok, FALSE)

(* GET /payments/bkash/callback with an id and a status: what the redirect *)
(* of a customer's browser and its reloads look like.  Nothing relates the *)
(* status to the provider's record, or the id to bKash: any status but     *)
(* 'success' says that the transaction, whosever it is, was not paid.      *)
BkashCallback(w, t) ==
    /\ t \in Redirectable /\ Known(t)
    /\ \E s \in {"read", "execute"} : Begin(w, s, t, FALSE, FALSE)

(* POST /payments/:orderId/confirm: Stripe is asked for the intent's       *)
(* status, bKash is told to execute.                                       *)
ConfirmPayment(w, t) ==
    /\ t \in Pollable /\ Known(t)
    /\ IF Provider[t] = "STRIPE"
       THEN Begin(w, "read", t, intent[t] = "captured", FALSE)
       ELSE Begin(w, "execute", t, FALSE, FALSE)

(* success is transactionStatus = 'Completed'.                             *)
ExecutePayment(w) ==
    LET t == job[w].txn
        completed == intent[t] \in {"approved", "captured"}
    IN  /\ At(w, "execute") /\ Provider[t] = "BKASH"
        /\ intent' = IF completed THEN [intent EXCEPT ![t] = "captured"]
                                  ELSE intent
        /\ Become(w, [job[w] EXCEPT !.step = "read", !.success = completed])
        /\ DeniedIf(~ completed, t)
        /\ UNCHANGED <<rows, declined, acked, failures>>

(* bKash answers an error without a paymentID, as it does for an id of     *)
(* Stripe's: the lookup throws.                                            *)
ExecuteRefused(w) ==
    /\ At(w, "execute")
    /\ intent[job[w].txn] # "approved"
    /\ Finish(w)
    /\ UNCHANGED <<rows, provider, acked, denied, failures>>

-------------------------------------------------------------------------------
(* finalizePayment, before its transaction: the payment with its order.    *)

(* No such payment: an error.  A terminal one: alreadyProcessed, a 2xx.    *)
ReadSettled(w) ==
    /\ At(w, "read")
    /\ payment[job[w].txn] = "NONE" \/ IsTerminal(payment[job[w].txn])
    /\ IF payment[job[w].txn] = "NONE" THEN UNCHANGED acked ELSE Acknowledge(w)
    /\ Finish(w)
    /\ UNCHANGED <<rows, provider, denied, failures>>

ReadPending(w) ==
    /\ At(w, "read")
    /\ payment[job[w].txn] # "NONE" /\ ~ IsTerminal(payment[job[w].txn])
    /\ Become(w, [job[w] EXCEPT !.step = "include",
                                !.order = payOrder[job[w].txn]])
    /\ UNCHANGED <<rows, provider, acked, denied, failures>>

(* include: { order }, a query of its own.                                 *)
ReadOrder(w) ==
    /\ At(w, "include")
    /\ Become(w, [job[w] EXCEPT !.step = "update",
                                !.seen = orderStatus[job[w].order]])
    /\ UNCHANGED <<rows, provider, acked, denied, failures>>

-------------------------------------------------------------------------------
(* finalizePayment, inside its transaction.                                *)

(* UPDATE payments SET status WHERE id: whatever the status now is.        *)
UpdatePayment(w) ==
    /\ At(w, "update")
    /\ \A v \in Workers : ~ HoldsPayment(v, job[w].txn)
    /\ GoTo(w, IF job[w].success THEN "order" ELSE "commit")
    /\ UNCHANGED <<rows, provider, acked, denied, failures>>

(* OrderEntity.markPaid on the order as it was read, then UPDATE orders.   *)
MarkPaid(w) ==
    /\ At(w, "order")
    /\ job[w].seen = "PENDING"
    /\ \A v \in Workers : ~ HoldsOrder(v, job[w].order)
    /\ GoTo(w, "items")
    /\ UNCHANGED <<rows, provider, acked, denied, failures>>

MarkPaidSwallowed(w) ==                                  \* mutant of MarkPaidRejected
    /\ At(w, "order")
    /\ job[w].seen # "PENDING"
    /\ Acknowledge(w)
    /\ Finish(w)
    /\ UNCHANGED <<rows, provider, denied, failures>>

MarkPaidRetried(w) ==                                    \* mutant of MarkPaidRejected
    /\ At(w, "order")
    /\ job[w].seen # "PENDING"
    /\ GoTo(w, "include")
    /\ UNCHANGED <<rows, provider, acked, denied, failures>>

(* assertTransition throws: rollback, an error answer.                     *)
MarkPaidRejected(w) ==
    /\ At(w, "order")
    /\ job[w].seen # "PENDING"
    /\ Finish(w)
    /\ UNCHANGED <<rows, provider, acked, denied, failures>>

ReduceOutsideTransaction(w) ==                           \* mutant of ReduceStock
    LET i == Item(w) IN
    /\ At(w, "items")
    /\ job[w].next <= Len(OrderItems[job[w].order])
    /\ InStock(w)
    /\ stock' = [stock EXCEPT ![i.product] = @ - i.quantity]
    /\ Become(w, [job[w] EXCEPT !.next = @ + 1])
    /\ UNCHANGED <<orderStatus, payment, payOrder,
                   provider, acked, denied, failures>>

(* reduceStockSafely for the next line of the order.                       *)
ReduceStock(w) ==
    LET i == Item(w) IN
    /\ At(w, "items")
    /\ job[w].next <= Len(OrderItems[job[w].order])
    /\ InStock(w)
    /\ \A v \in Workers \ {w} : ~ HoldsProduct(v, i.product)
    /\ Become(w, [job[w] EXCEPT !.next = @ + 1,
                                !.draft[i.product] = @ + i.quantity])
    /\ UNCHANGED <<rows, provider, acked, denied, failures>>

(* No row matched: OutOfStockError rolls the transaction back.             *)
OutOfStock(w) ==
    /\ At(w, "items")
    /\ job[w].next <= Len(OrderItems[job[w].order])
    /\ ~ InStock(w)
    /\ Finish(w)
    /\ UNCHANGED <<rows, provider, acked, denied, failures>>

ItemsDoneEarly(w) ==                                     \* mutant of ItemsDone
    /\ At(w, "items")
    /\ job[w].next >= Len(OrderItems[job[w].order])
    /\ GoTo(w, "commit")
    /\ UNCHANGED <<rows, provider, acked, denied, failures>>

ItemsDone(w) ==
    /\ At(w, "items")
    /\ job[w].next > Len(OrderItems[job[w].order])
    /\ GoTo(w, "commit")
    /\ UNCHANGED <<rows, provider, acked, denied, failures>>

CommitAs(w, succeeded, paid) ==
    /\ At(w, "commit")
    /\ payment' = [payment EXCEPT ![job[w].txn] =
                      IF job[w].success THEN succeeded ELSE "FAILED"]
    /\ orderStatus' = IF job[w].success
                      THEN [orderStatus EXCEPT ![job[w].order] = paid]
                      ELSE orderStatus
    /\ stock' = [p \in Products |-> stock[p] - job[w].draft[p]]
    /\ Acknowledge(w)
    /\ Finish(w)
    /\ UNCHANGED <<payOrder, provider, denied, failures>>

CommitSwapsStatuses(w) == CommitAs(w, "PAID", "SUCCESS")  \* mutant of Commit

CommitForgetsOrder(w) == CommitAs(w, "SUCCESS", "PENDING") \* mutant of Commit

Commit(w) == CommitAs(w, "SUCCESS", "PAID")

-------------------------------------------------------------------------------
(* A request ends without finishing: an exception, a provider or database  *)
(* timeout, a lost answer, a crash.  PostgreSQL rolls back, nobody retries *)
(* but whoever sent the request.                                           *)
Fail(w) ==
    /\ ~ At(w, "idle")
    /\ failures < MaxFailures
    /\ failures' = failures + 1
    /\ Finish(w)
    /\ UNCHANGED <<rows, provider, acked, denied>>

(* PostgreSQL aborts a transaction of a cycle of waiting transactions.     *)
DeadlockVictim(w) ==
    /\ \E S \in SUBSET Workers :
           /\ w \in S
           /\ \A v \in S : /\ \E u \in S : WaitsFor(v, u)
                           /\ \E u \in S : WaitsFor(u, v)
    /\ Finish(w)
    /\ UNCHANGED <<rows, provider, acked, denied, failures>>

(* PATCH /products/:id with a stock: an absolute write.                    *)
SetStock(p, n) ==
    /\ \A w \in Workers : ~ HoldsProduct(w, p)
    /\ stock' = [stock EXCEPT ![p] = n]
    /\ UNCHANGED <<orderStatus, payment, payOrder,
                   provider, acked, denied, job, failures>>

-------------------------------------------------------------------------------
(* What a worker does by itself once its request has begun.                *)
Handle(w) ==
    \/ CreateIntent(w) \/ CreatePayment(w)
    \/ ExecutePayment(w) \/ ExecuteRefused(w)
    \/ ReadSettled(w) \/ ReadPending(w) \/ ReadOrder(w)
    \/ UpdatePayment(w) \/ MarkPaid(w) \/ MarkPaidRejected(w)
    \/ ReduceStock(w) \/ OutOfStock(w) \/ ItemsDone(w) \/ Commit(w)

Request(w) ==
    \/ \E o \in Orders, t \in Txns : InitiatePayment(w, o, t)
    \/ \E t \in Txns :
           \/ \E ok \in BOOLEAN : StripeWebhook(w, t, ok)
           \/ BkashCallback(w, t)
           \/ ConfirmPayment(w, t)

Customer(t) == Pay(t) \/ Decline(t) \/ Approve(t)

Next ==
    \/ \E w \in Workers : Request(w) \/ Handle(w) \/ Fail(w) \/ DeadlockVictim(w)
    \/ \E t \in Txns : Customer(t)
    \/ \E p \in Products, n \in StockInputs : SetStock(p, n)

Spec == Init /\ [][Next]_vars

(* A request that has begun goes on, PostgreSQL breaks deadlocks and gives *)
(* a released row to the transaction that has waited for it, so that no    *)
(* line of an order is passed over forever, and Stripe redelivers an event *)
(* until it is answered with a 2xx.  Customers, administrators and the     *)
(* senders of other requests owe nothing.                                  *)
TakeLine(o, n) ==
    \E w \in Workers : job[w].order = o /\ job[w].next = n /\ ReduceStock(w)

Redeliver(t) ==
    \E w \in Workers : <<t, TRUE>> \notin acked /\ StripeWebhook(w, t, TRUE)

Fairness ==
    /\ \A w \in Workers :
           /\ WF_vars(Handle(w))
           /\ WF_vars(DeadlockVictim(w))
           /\ SF_vars(UpdatePayment(w) \/ MarkPaid(w))
    /\ \A o \in Orders : \A n \in 1..Len(OrderItems[o]) : SF_vars(TakeLine(o, n))
    /\ \A t \in Txns : SF_vars(Redeliver(t))

FairSpec == Spec /\ Fairness

-------------------------------------------------------------------------------
JobSet ==
    [step : {"idle", "create", "persist", "execute", "read", "include",
             "update", "order", "items", "commit"},
     txn : Txns \union {None}, order : Orders \union {None},
     success : BOOLEAN, hook : BOOLEAN, seen : {"PENDING", "PAID"},
     next : Nat \ {0}, draft : [Products -> Nat]]

(* The shape of every variable. *)
TypeOK ==
    /\ stock \in [Products -> Int]
    /\ orderStatus \in [Orders -> {"PENDING", "PAID"}]
    /\ payment \in [Txns -> {"NONE", "PENDING", "SUCCESS", "FAILED"}]
    /\ payOrder \in [Txns -> Orders \union {None}]
    /\ intent \in [Txns -> {"none", "created", "open", "approved", "captured"}]
    /\ declined \subseteq Txns
    /\ acked \subseteq Txns \X BOOLEAN
    /\ denied \subseteq Txns
    /\ job \in [Workers -> JobSet]
    /\ failures \in Nat

(* reduceStockSafely: however confirmations, administrators and failures   *)
(* interleave, stock never goes negative, and a transaction in progress    *)
(* has never promised itself more units than are committed.                *)
NoOversell ==
    \A p \in Products :
        /\ stock[p] >= 0
        /\ \A w \in Workers : job[w].draft[p] <= stock[p]

(* finalizePayment: a successful payment has its order paid and its money  *)
(* taken by the provider, and no order is paid without a payment of its    *)
(* own whose money was taken, even when a payment's status is overwritten. *)
SuccessIsBacked ==
    /\ \A t \in Txns : payment[t] = "SUCCESS" =>
           /\ intent[t] = "captured"
           /\ payOrder[t] \in Orders
           /\ orderStatus[payOrder[t]] = "PAID"
    /\ \A o \in Orders : orderStatus[o] = "PAID" =>
           \E t \in Txns : payOrder[t] = o /\ intent[t] = "captured"

(* products.service.ts: no unit is sold twice.  While nobody writes the    *)
(* stock, the units of all paid orders have left it: what was sold and     *)
(* what is left is never more than there was.                              *)
Paid == {o \in Orders : orderStatus[o] = "PAID"}

Sold(p) == SumFunctionOnSet([o \in Orders |-> Demand[o][p]], Paid)

SoldWithinSupply == \A p \in Products : stock[p] + Sold(p) <= InitialStock[p]

(* initiatePayment: no customer can act on a transaction that the service  *)
(* has no row for, whenever initiation fails or crashes: the secret leaves *)
(* the server after the insert.                                            *)
NoOrphanCapture ==
    \A t \in Txns :
        intent[t] \in {"open", "approved", "captured"} => payment[t] # "NONE"

(* A Stripe success event that was answered with a 2xx is applied: Stripe  *)
(* will not send it again.                                                 *)
AckedSuccessIsApplied ==
    \A t \in Txns : <<t, TRUE>> \in acked => payment[t] = "SUCCESS"

(* finalizePayment answers a success event with a 2xx only when it has     *)
(* been applied, and applied for good, unless some request has called the  *)
(* transaction unpaid: a poll or an execution before it was paid, an event *)
(* of a declined card, a callback with another status than 'success'.      *)
UndeniedIsApplied ==
    \A t \in Txns \ denied : <<t, TRUE>> \in acked => payment[t] = "SUCCESS"

(* docs/payment-flows.md: SUCCESS and FAILED are terminal, and a           *)
(* confirmation that comes again is safely a no-op: it never changes a     *)
(* decided payment, and stock falls only in a step that takes an order     *)
(* from PENDING to PAID.                                                   *)
RepeatIsNoOp ==
    [][/\ \A t \in Txns : IsTerminal(payment[t]) => payment'[t] = payment[t]
       /\ (\E p \in Products : stock'[p] < stock[p]) =>
              \E o \in Orders : orderStatus[o] = "PENDING"
                                /\ orderStatus'[o] = "PAID"]_vars

(* What the local variables of a request in flight say about the rows and  *)
(* the provider, and what they do not: "seen" may be stale.                *)
JobOK(w) ==
    /\ ~ At(w, "idle") => job[w].txn \in Txns
    /\ job[w].step \in {"create", "persist"} =>
           /\ job[w].order \in Orders
           /\ payment[job[w].txn] = "NONE"
           /\ intent[job[w].txn] = IF At(w, "create") THEN "none" ELSE "created"
    /\ job[w].step \notin {"idle", "create", "persist"} =>
           payment[job[w].txn] # "NONE"
    /\ job[w].step \in {"include", "update", "order", "items", "commit"} =>
           job[w].order = payOrder[job[w].txn]
    /\ job[w].step \in {"order", "items"} => job[w].success
    /\ ~ At(w, "idle") /\ job[w].success => intent[job[w].txn] = "captured"
    /\ job[w].step \notin {"items", "commit"} => job[w].next = 1
    /\ At(w, "items") => job[w].next - 1 <= Len(OrderItems[job[w].order])
    /\ job[w].draft =
           IF At(w, "items") THEN Taken[job[w].order][job[w].next - 1]
           ELSE IF At(w, "commit") /\ job[w].success THEN Demand[job[w].order]
           ELSE Nothing

RowOK(t) ==
    /\ payment[t] # "NONE" => payOrder[t] \in Orders
    /\ payment[t] = "NONE" <=> intent[t] \in {"none", "created"}
    /\ t \in declined => payment[t] # "NONE"

(* A transaction is initiated by one request, which no other request knows *)
(* of, and a row of products is being reduced by at most one transaction.  *)
Disjoint ==
    \A w \in Workers : \A v \in Workers \ {w} :
        /\ job[w].step \in {"create", "persist"} => job[v].txn # job[w].txn
        /\ \A p \in Products : job[w].draft[p] = 0 \/ job[v].draft[p] = 0

(* The inductive invariant behind the theorems: the snapshot a request     *)
(* works from agrees with the rows in everything but the statuses.         *)
IInv ==
    /\ TypeOK
    /\ \A w \in Workers : JobOK(w)
    /\ \A t \in Txns : RowOK(t)
    /\ Disjoint
    /\ NoOversell
    /\ SuccessIsBacked

(* Orders are there from the start, and what they take never changes.      *)
Atomic == INSTANCE Settlement WITH
    demand <- Demand, Demands <- {Demand[o] : o \in Orders}

(* finalizePayment is atomic: payment, order and the stock of every line   *)
(* change together or not at all, and only if stock covers the order.      *)
AtomicSettlement == Atomic!Spec

(* With confirmations one at a time, each payment is decided once and each *)
(* order paid once: duplicates and second payments change nothing.         *)
OnceSettlement == Atomic!OnceSpec

(* Every request ends, so that each worker is idle again and again: no set *)
(* of transactions waits for each other forever.                           *)
EveryRequestEnds == \A w \in Workers : []<> At(w, "idle")

(* Money that Stripe has taken ends in a paid order, or finds the stock    *)
(* short, or the payment FAILED because a request has called it unpaid:    *)
(* redelivery outlasts lost requests, rollbacks and deadlocks.  (What is   *)
(* captured stays captured, so that []<> says as much as a leads-to.)      *)
CapturedIsSettled ==
    \A t \in Txns : []<>
        (Provider[t] = "STRIPE" /\ intent[t] = "captured" =>
            /\ payOrder[t] \in Orders
            /\ \/ orderStatus[payOrder[t]] = "PAID"
               \/ payment[t] = "FAILED"
               \/ ~ Atomic!Covers(payOrder[t]))
===============================================================================
