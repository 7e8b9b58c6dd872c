# A TLA+ model of the ordering and payment system

Modules that model the stateful core of the NestJS backend in `src/`, TLC configurations
that check them on small instances, and TLAPS proofs of what matters most for instances
of every size. Paths below are relative to `src/` of the repository's own layout
(`src/payments/...`, `prisma/schema.prisma`).

## 1. The system

| Part | State it keeps | Operations that change it | Talks to |
|---|---|---|---|
| Payments (`src/payments`) | `payments` rows; settles `orders.status` and `products.stock` | `initiatePayment`, `confirmPayment`, `handleStripeWebhook`, `handleBkashCallback`, all but the first through `finalizePayment` | Stripe, bKash, PostgreSQL, `reduceStockSafely` |
| Stripe and bKash (external) | the PaymentIntent or bKash payment; events to deliver | create, pay, decline, approve, execute; redelivery of unanswered events | customers |
| Products (`src/products`) | `products` | `create`, `update` (absolute stock), `remove`, `reduceStockSafely` | PostgreSQL |
| Orders (`src/orders`) | `orders`, `order_items` | `create` | products, by one read |
| Categories (`src/categories`) | `categories.parentId`; the flat list in Redis | `create`, `update`, `remove`; every reader fills the cache | PostgreSQL, Redis |
| bKash client (`bkash-http.client.ts`) | `bkash:id_token` in Redis | `getIdToken`, on every call | Redis, bKash |
| Redis (`src/redis`) | two keys with a time to live | `get`, `set`, `del`, which swallow errors | |
| Accounts (`src/auth`, `src/users`) | `users`; the tokens it has issued | `register`, `login` | PostgreSQL |
| Seed script (`prisma/seed.ts`) | none of its own | upserts of users, categories, products | PostgreSQL |
| Guards, filters, interceptors, bootstrap | none | | `RolesGuard` reads the token |

The process is single-threaded JavaScript, but every `await` lets other requests run,
and several instances may share one database. Requests interact only through rows, Redis
keys and the providers. So the unit of interleaving everywhere below is one awaited
call.

What is hard here, and what should hold nevertheless:

* **Payments.** `finalizePayment` decides on a copy of the payment and its order read
  *before* its transaction. Confirmations of one transaction come by webhook, redirect
  and poll, repeated and in any order. Settlements lock rows in the order of the lines
  and may deadlock, fail half-way, or be lost. Stock must not go negative, payment,
  order and stock must change together, money taken must end in a paid order, a decided
  payment must stay decided.
* **Orders and products.** Everything is checked first and written later. An order
  should be one the shop could have taken at some instant; skus stay unique; no line
  loses its product, before its order is paid or after.
* **Amounts.** Cents travel through doubles at every turn: line, total, column,
  provider. Not one may be lost, and the customer is asked for the prices of the order,
  whatever the catalog says by then. (This is about the number. Stripe is told it in
  `usd` and bKash in `BDT`, each a constant of its strategy; the database keeps no
  currency.)
* **Categories.** The cycle check reads a list that may be old, and writes without a
  transaction. The table should stay a tree, references intact, and an old list should
  not last; the walks over it should end on any list.
* **Token.** A cached token should never reach bKash after it has expired there.
* **Accounts.** Registrations race each other and the seed script for an e-mail; a
  token's role is believed without a look at the row; the seed script leaves a row that
  is there as it is, whoever made it.

`PROJECT.json` lists each hazard at its line with the properties that catch it.

## 2. Modules

| Module | Models | Read with |
|---|---|---|
| `Settlement` | what payments promise: open, settle, reject, each one step | `payments.service.ts` |
| `Payments` | the code that implements it, await by await | `payments.service.ts`, both strategies, `reduceStockSafely` |
| `PaymentsMC` | instances of `Payments` | |
| `PaymentsProofs` | theorems about `Payments` | |
| `Money`, `MoneyProofs` | amounts in doubles | `order.entity.ts`, both strategies |
| `Orders`, `OrdersMC`, `OrdersProofs` | `OrdersService.create` against `ProductsService` | `orders.service.ts`, `products.service.ts`, `schema.prisma` |
| `Shop`, `ShopMC`, `ShopProofs` | `Orders` (extended) composed with payments; implements `Settlement` | the same and `payments.service.ts` |
| `Categories`, `CategoriesProofs` | the tree, its cache, the cycle check | `categories.service.ts`, `redis.service.ts` |
| `Traversals` | the loop and the recursion over the list | `categories.service.ts` (`getDescendantIds`, `buildTree`) |
| `Accounts`, `AccountsMC`, `AccountsProofs` | registration, login, tokens, the seed script's users | `auth.service.ts`, `roles.guard.ts`, `prisma/seed.ts` |
| `BkashToken`, `BkashTokenProofs` | `getIdToken` and the ages of tokens | `bkash-http.client.ts` |
| `SetLemmas` | induction, iteration and sums over sets, for the proofs | |

`Settlement` is the abstract specification between two worlds: `Payments`, which knows
requests, locks and providers but takes orders as given, implements it, and so does
`Shop`, which knows the catalog and how orders come to be, but takes a settlement as one
step.

An operator marked "mutant of X" in a comment is X with a plausible bug; it is used by
no specification and exists to show that a property can fail.

### Payments

`job[w]` holds the local variables of the request that worker `w` serves, and
`job[w].step` names the call it makes next:

| step | code | action |
|---|---|---|
| `create` | `strategy.initiate` (77-83) | `CreateIntent` |
| `persist` | `payment.create` and the answer (85-101) | `CreatePayment` |
| `execute` | `bkashStrategy.confirm` (179, 128) | `ExecutePayment`, `ExecuteRefused` |
| `read`, `include` | `payment.findUnique` with `include` (217-260) | `ReadSettled`, `ReadPending`, `ReadOrder` |
| `update` | `tx.payment.update` (269) | `UpdatePayment` |
| `order` | `markPaid` and `tx.order.update` (283-307) | `MarkPaid`, `MarkPaidRejected` |
| `items` | the loop over lines (309-315) | `ReduceStock`, `OutOfStock`, `ItemsDone` |
| `commit` | end of `$transaction` (316) | `Commit` |

From `update` on the job is inside the transaction. PostgreSQL's READ COMMITTED is
modelled, the default that the code does not change: writes become visible at `Commit`,
a written row is locked until then, and `UPDATE ... WHERE stock >= quantity` is
evaluated on the committed stock less the transaction's own writes (`draft`). Locks are
not variables: `HoldsPayment`, `HoldsOrder` and `HoldsProduct` derive them from where a
job stands. `DeadlockVictim` is PostgreSQL's deadlock detector. A foreign key's share
lock on an order does not conflict with the update of its status, so it is left out.
Prisma loads an `include` with a query of its own, which is why `ReadOrder` is a step.

`Fail` ends a request anywhere: an exception, a provider timeout, Prisma's transaction
timeout, a lost connection, a crash; the database rolls back. A lost answer is not a
separate action: the sender repeats the request, which the actions for requests already
allow at any time. The provider's side is `intent`: a customer can act on it only once
the answer of `initiatePayment` has given them the secret or the URL, so it is `created`
before the row is inserted and `open` after.

A confirmation by poll or webhook goes by the provider's record: what Stripe says of the
intent, an event it has signed. `BkashCallback` does not, as the code does not: the
endpoint takes an id and a status from whoever sends them, and any status but `success`
goes straight to `finalizePayment(paymentId, false)`, for any id that is known, Stripe's
included, whatever the provider would say of it. Only `success` asks bKash, to execute.
`denied` is a history variable: the transactions that some request has called unpaid.

Abstracted: amounts, the ownership check of initiate and confirm and the signature check
of the webhook (a request that fails them changes nothing; the callback has neither),
unhandled Stripe events (nothing either), `rawResponse`, and `CANCELED`, which no code
path writes. `quantity <= 0` cannot reach `reduceStockSafely`, because the DTO
and `OrderLineItem` refuse it.

`Settlement` has no requests. `Place` makes an order with a demand for products (in
`Payments` all orders are there from the start, with the constant `Demand`). `Spec` lets
a payment be settled or rejected any number of times; `OnceSpec` lets it be decided
once, and an order be paid once. `AtomicSettlement` (`Payments` implements `Spec`) holds
for every interleaving, and is proved. `OnceSettlement` (`OnceSpec`) holds as long as no
two confirmations *of one order* overlap between the read of the payment and the commit
(theorem `Once`), and `repeat_race` shows that it does not when they do.

### Orders

`catalogs` is a history variable: the set of values the products table has had.
`Quotable` uses it to say that an order is one that some single instant would have
allowed, at the prices of that instant. Product ids are never issued again (they are
UUIDs). At the write, the unique key on `sku` and the foreign keys decide (`Rejected`,
and `Accepted` in `InsertOrder`, where the amounts must fit `DECIMAL(12,2)` too:
`MaxMoney`).

### Money

A double is counted in grains, `Grain` of which are a cent, and each operation may be
off by up to `Err` grains either way. `RoundingAssumption` (three operations stay within
half a cent) and the condition on carts in `CartAssumption` (`4 * Len(cart) * Err <
Grain`) are all that is assumed of IEEE 754. The code satisfies both with room to spare:
amounts are below 10^10 units of currency (the column), a double's relative error is
2^-53, so an operation on an amount times 100 is off by about 1.1 * 10^-4 cents at most,
and the body of a request (100 kB by default, 66 bytes to a line, some 1550 lines) is
too short for 4 such errors per line to add up to a cent. Because rounding is monotonic,
one error `e` shared by the operations of a computation reaches both extremes of what
mixed errors reach.

### Shop

`Shop` extends `Orders` with `status` and `payments`. The schema keeps no amount with a
payment: `payments[t].amount` is what the provider was told. `Settle` takes all lines in
one step, `AllInStock` being what the line by line updates of `reduceStockSafely` amount
to. Through the mapping `Sales` a product that is not there has stock 0, and an order's
demand is the sum of its lines; `ShopSettles` then says that no edit or removal makes a
settlement take less, or more, than the order.

### Accounts

Rows are only ever inserted: nothing in the code changes a role, a password or an
e-mail, which is what `GuardIsRight` rests on, and what its mutant breaks. An `upsert`
is one step, `INSERT ... ON CONFLICT DO NOTHING`; where Prisma falls back on a read and
an insert, the loser of a race dies, which is `Die`. A bcrypt hash is what it promises,
a value that one password matches. `welcomed` and `seeded` are history: who was answered
with a 201, and whether a seed run has ended well. The script prints in the end that the
logins it names exist, the administrator's among them (`seed.ts:72`, the repository's
`README.md:73`). This is not so if a customer registered the e-mail before: the upsert's
update is empty, the row keeps their password and the role `USER`. `SeededUnlessTaken`
claims the rest: every e-mail that no customer has registered has the account of the
script, role and password included.

### Categories

`parent` is the column, `cache` the Redis key. `RedisLost` loses one call of `get`,
`set` or `del`, and the request goes on, as `RedisService` does; `Crash` ends a request.
`onDelete: SetNull` is part of `Delete`. `UpdateCategory` is an update that names a
`parentId`, null included, `RenameCategory` one that does not. Names and slugs are not
kept: a slug that is taken shows as a refusal of any write but a removal (`Refused`).
`Visited` defines what the walk of the list means, the least set that is closed under
children. `Traversals` has the loop of `getDescendantIds`, turn by turn with its stack
(`Walk`), and the recursion of `buildTree`, by depth (`Depth`: the calls n levels below
the first); `TraversalsMeetAll` compares both with `Descendants`, which the actions use.

### BkashToken

Time is discrete. A job that waits has a deadline, and the clock does not pass a
deadline. The Redis answer, the grant and the call to bKash are each split into the
moment the other side acts and the moment the answer arrives, because a token ages in
between.

## 3. Runs

| Run | Bounds | Shows |
|---|---|---|
| `payments_race` | 2 workers, 2 orders with crossed lines, one of them taking a product twice, a Stripe and a bKash payment, stock 2, admin writes 1, 1 failure | the safety invariants, the inductive invariant and atomicity, with callbacks for either payment, deadlocks, stock edits and running out of stock; a success answered with a 2xx is applied unless a request called it unpaid |
| `payments_serial` | 1 worker, 2 orders, 3 payments, callbacks for each, a declined card, admin writes 0 or 2, 1 failure | `OnceSettlement` |
| `payments_live` | 2 workers, 2 crossed orders, 2 Stripe payments, callbacks for one of them, 1 failure; no polls or declines; fairness | requests end; captured money is settled, or finds the stock short or the payment FAILED by a callback; no unit is sold twice |
| `repeat_race` | 2 workers, 1 Stripe payment, no failures | violated: a repeated webhook settles again |
| `poll_then_webhook` | 1 worker, 1 Stripe payment that is polled | violated: a webhook is acknowledged and ignored |
| `shop` | 2 workers, 2 products, carts of 2 lines, 3 catalogs on the way, 1 order, 2 payments; 10 grains to a cent, errors of 1, at most 3 cents | orders, amounts and settlement under concurrent edits of the catalog |
| `orders_repeated` | 1 worker, 1 product | violated: two lines of one unit pass a stock of one |
| `categories_serial` | 1 worker, 4 categories | the tree stays whole, the cache current, the traversals right on every list one row away |
| `categories_race` | 2 workers, 2 categories, 1 lost call or crash, fairness | references hold, old lists expire |
| `cycle_race` | 2 workers, 2 categories | violated: a cycle |
| `accounts` | 2 workers, 2 rows, 2 e-mails, 2 passwords, a seed of 2 users, 1 failure | one account per e-mail, owned by who was told so; roles in tokens; what the seed script leaves |
| `bkash_token` | 2 workers; life 9, cached for 4, timeouts and delays 1, clock to 14 | no expired token, the inductive invariant |

Why the bounds are enough to be of interest: two workers are enough for every race
between two requests, and the theorems of section 4 hold for any number; a poll of a
Stripe payment stands for a declined card as well in `payments_race` (both confirm a
failure; `payments_serial` has a declined card); in `payments_live`, where polls and
declines are left out to keep the graph small, a callback confirms failures in their
place, for one of the two payments; two lines of one product exercise a transaction that
sees its own writes; two crossed lines are the smallest deadlock; stock is chosen so
that each run can both succeed and run out; one failure can hit each step of each
request; four categories make a move under a grandchild possible beside a second branch.
`shop` bounds the changes an administrator *starts*, not where they land; its patches
change price and availability apart, so that a mixture of two catalogs is no catalog,
its two payments are of one order, and its largest cart costs more than `MaxMoney` once
the price is raised. In `accounts` the customers' e-mails are those of the seed script.
The clock of `bkash_token` passes the life of a token by half, so that a token is
granted, cached, expired and granted again. `TakenAssumption` and the others are
evaluated on every instance.

The four violated runs are disagreements between the code and its documentation, quoted
in `PROJECT.json` under `findings`. For each of them a theorem says how far the promise
does hold:

| Run | Violated | Holds, for instances of any size, if |
|---|---|---|
| `repeat_race` | `RepeatIsNoOp` | confirmations of one order do not overlap and nobody writes the stock (`RepeatChangesNothing`) |
| `poll_then_webhook` | `AckedSuccessIsApplied` | no request calls the transaction unpaid: no poll or execution before it is paid, no declined card, no callback with another status than `success` (`AnsweredIsApplied`) |
| `orders_repeated` | `NeverMoreThanExists` | no cart names a product twice (`EnoughForEachOnce`) |
| `cycle_race` | `TreeIsWhole` | there is one request at a time and no lost call (`TreeStaysWhole`) |

(One lost DEL is enough to violate `TreeIsWhole` even with one request at a time,
`categories_serial` with `MaxFailures = 1`: the next move is checked against the list
from before the last one.)

Deadlock is checked in every run: an idle worker can always be asked something, or a job
can always go on.

### Fairness

`Payments!Fairness` says, and the runs need, no more than:

* weak fairness of `Handle(w)` and `DeadlockVictim(w)`: the event loop and the database
  go on, and PostgreSQL looks for deadlocks (`deadlock_timeout`);
* strong fairness of taking a row lock (`UpdatePayment`, `MarkPaid`, `TakeLine`):
  PostgreSQL queues the waiters of a row, so the one that waits is not passed over for
  ever;
* strong fairness of `Redeliver(t)`: Stripe sends `payment_intent.succeeded` again until
  it is answered with a 2xx, and some delivery finds a worker.

Stripe gives up after some days; the model's failures are bounded (`MaxFailures`), which
stands for an outage shorter than that. Nothing is assumed of customers, administrators,
pollers or bKash: nobody has to come back to the callback URL, so no liveness is claimed
for bKash payments. `Categories!FairSpec` has handlers go on and the time to live run
out.

## 4. Proofs

`tlapm` checks the seven `*Proofs` modules and `SetLemmas`; their theorems hold for
every value of the constants that satisfies the named assumptions. Where a theorem holds
only for a part of the instances or of the behaviours, the condition is its premise:

| Premise | Says | Needed by |
|---|---|---|
| `[]OnePerOrder` | of two requests between the read of a payment and the commit, no two are for one order | `Once`, `RepeatChangesNothing`, `Ledger` |
| `OneAtATime` | one worker, which implies `[]OnePerOrder` | `OnceInTurn` |
| `StockInputs = {}` | nobody writes the stock by hand | `Supply`, `RepeatChangesNothing`, `Ledger` |
| `EachOnce` | no cart names a product twice | `EnoughForEachOnce` |
| `Alone` | one worker, no lost calls | `TreeStaysWhole`, `CacheStaysCurrent` |
| `IsFiniteSet(Categories)` | the table is finite | `Meet`, `Traversed` |

**Lemmas about data.** The library's induction theorems take an operator as a parameter,
which no prover here instantiates. `SetInduction` says induction of a set (one that
holds 0 and with n also n + 1 is all of the naturals), `SubsetInduction` the same of the
subsets of a finite set; both are proved from the well-foundedness of finite sets. On
them rest `Iteration` (a function can be iterated for ever, so that an equation such as
that of `Walk` has a solution) and what is known of sums: `SumUpTo` in `MoneyProofs`,
and `SumFunctionOnSet` of the community modules here, which `SumAdds` lets grow by one
summand.

**Payments.** `Invariance` proves `Spec => []IInv`. `NoOversell` and `SuccessIsBacked`
are not inductive alone: a commit subtracts `draft` from `stock`, so one must know that
`draft` is exactly the total of the lines taken so far, that nobody else has reduced the
same row in the meantime, and that the request's `order` is the payment's. `IInv` says
these things: `JobOK` (what a job's local variables are worth; `seen`, the order's
status as read, is deliberately not tied to the row), `RowOK` (payments and intents),
`Disjoint` (the row locks). Its proof goes action by action, one lemma each, over a few
lemmas about steps of the same shape (`QuietStep`, `FinishStep`, `GoToStep`,
`IntentStep`). `TypeCorrect`, `StockSafety`, `Backing` and `RowsFirst` follow.
`Refinement` uses the invariant to show that `Commit` is `Settle` or `Reject` of
`Settlement`, that the stock covers the whole order at that moment, and that every other
step but `CreatePayment` (`Open`) and `SetStock` stutters. The running totals `Taken`
are a constant with an assumption (`TakenAssumption`); the instances define them, and
TLC checks the assumption.

`Once` adds to the invariant that what a request has read is not out of date
(`Current`): then `Commit` is `SettleOnce` or `RejectOnce`. A commit for one order
leaves the payments and the status of every other alone (`CurrentOther`), so all that is
needed is that no two requests are in that window for one order, however many are at
work for different ones. `RepeatChangesNothing` follows: a commit starts from a payment
that is still PENDING.

`Supply` needs no such premise. A commit that settles either pays an order that was not
paid, and the sum over paid orders grows by what leaves the stock, or settles a paid
order again, and only the stock shrinks; so sold and left never exceed what there was,
`repeat_race` or not. Under the premise of `Once` the second case is gone, and `Ledger`
makes the inequality an equation (`SoldIsGone`).

`AnsweredIsApplied` has no premise. As long as no request has called a transaction
unpaid, every confirmation of it on its way is a success (`Counted`), so that the
overwriting that remains possible overwrites SUCCESS with SUCCESS; `UndeniedIsApplied`
speaks of these transactions only. It is what is left of a promise that one callback or
poll at the wrong time is enough to void.

**Money.** A sum is a recursive function; what it is for every length is proved by
`SetInduction`. `SubtotalExact`, `TotalExact` and `ProviderAmountExact`: the rounding
removes every error within `Err`. What a provider is told is compared as a number only.

**Orders and Shop.** `OrdersInvariance` and `ShopInvariance`. The invariant adds to the
properties that the lines of an order *on its way* are quoted in some past catalog, with
exact subtotals, and that an order that has payments is placed. `Quotable` needs
`catalogs` as history: the read fixes a catalog, and history only grows.
`NoDanglingLine` rests on the foreign keys alone. `EnoughForEachOnce` carries along that
the lines are `Apart`, each of its own product; then the units of a product are those of
one line, which was checked. `ShopRefinement` proves `ShopSettles` from `NoDanglingLine`
and, again by induction over the lines, that `AllInStock` is `Covers`.

**Accounts.** `IInv` says that a row once read by a login is still as it was, that a
seed run has seen to every account it has passed, and that rows stay as a registration
or the script made them (`Provenance`), from which `SeedCompletes` follows. The check of
`FindEmail` plays no part in `OneAccountPerEmail`, which is the unique key's.

**Categories.** `References`: the parent of an existing category exists. The checks of a
request play no part in the argument; what it rests on is the foreign key, at the write
(`Attach`) and at the removal (`Detach`). `TreeStaysWhole`: the invariant `SerialInv`
ties what the only request knows (`JobKnows`) to the table. A tree is whole if and only
if no non-empty set of categories is closed under parents (`Adrift`); a set adrift after
a move would hold the moved category and its new parent, which is then among its
descendants, which the check refused.

`Meet` is about any list at all, cycles included. For the loop, `Walks` is invariant
from turn to turn: everything in hand is to be found; every child of what is marked is
in hand; and while the stack is not empty, the turns taken and the entries left are
together no more than the pushes made, one for the category itself and one for each
child of what is marked. So the stack is empty after at most one turn more than there
are categories (`WalkFinds`). The recursion of `buildTree` marks nothing, and still
ends: a category in two levels would have its parent in two levels and in the end the
root below itself (`LevelsApart`), so every level has categories of its own
(`LevelsFill`) and a cycle is never entered. `Traversed` brings this to
`TraversalsMeetAll`.

**BkashToken.** `TokenInvariance` bounds, for each stage of a call, how far its deadline
may be from the grant of the token it carries; `TokenHonoured` concludes from
`EarlyEnough`: cache time, two HTTP timeouts and two Redis delays together are less than
the token's life. With the code's numbers (3000 s, 15 s, life 3600 s) that leaves 570 s
for two Redis calls. The delay of a Redis call is an assumption: the client sets no
command timeout.

Only model-checked: what holds under fairness (`EveryRequestEnds`, `CapturedIsSettled`,
`StaleListHeals`), since `tlapm` has no rules for `ENABLED`, and the absence of
deadlock. Every invariant and every refinement that a run checks is also a theorem.

## 5. Not modelled

Listings, profiles and other reads, validation of requests, ownership checks, rate
limits, logging, bootstrap: they change nothing that another part relies on. Category
slugs follow the same pattern as skus (check, then unique key): only that they may
refuse a write is kept. Names play no part anywhere. A product's category is not kept,
so recommendations are only the browsing of `Categories`. Of the seed script only the
users are kept. Expiry of access tokens is left out; a request with an expired token
changes nothing. No liveness is claimed for bKash payments: money captured there while
the payment is PENDING or FAILED comes back only if somebody confirms again, and no job
of the code does. bKash's own rules for revoking tokens are not in the repository.

## 6. Plan

Done: the modules of section 2. What would add most from here:

1. `CANCELED` orders, refunds and reconciliation, when the code has them: `Settlement`
   has the place for each.
2. How far `TreeIsWhole` holds with several requests at once: as `Once` has it, no two
   moves between check and write, and no reader that fills the cache with an old list.
3. Several instances of the service with separate Redis connections, to tell a lost call
   from a slow one.
