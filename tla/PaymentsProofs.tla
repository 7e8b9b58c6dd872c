---------------------------- MODULE PaymentsProofs ----------------------------
(***************************************************************************)
(* Theorems about Payments, for every number of workers, orders, products  *)
(* and transactions.                                                       *)
(***************************************************************************)
EXTENDS Payments, SetLemmas

-------------------------------------------------------------------------------
(* The line a job works on is a line of its order. *)
LEMMA ItemType ==
    ASSUME NEW w \in Workers, job[w].order \in Orders,
           job[w].next \in Nat \ {0},
           job[w].next <= Len(OrderItems[job[w].order])
    PROVE  Item(w) \in [product : Products, quantity : Nat \ {0}]
<1> DEFINE items == OrderItems[job[w].order]
           n == job[w].next
           Lines == [product : Products, quantity : Nat \ {0}]
<1>1. items \in Seq(Lines)
  BY ItemsAssumption
<1> HIDE DEF Lines
<1>2. Len(items) \in Nat
  BY <1>1
<1>3. n \in 1..Len(items)
  BY <1>2
<1> HIDE DEF items, n
<1>4. items[n] \in Lines
  BY <1>1, <1>3
<1> QED
  BY <1>4 DEF Item, items, n, Lines

LEMMA NoJobType == NoJob \in JobSet
BY DEF NoJob, JobSet, Nothing

(* Become changes the job of one worker. *)
LEMMA BecomeJob ==
    ASSUME TypeOK, NEW w \in Workers, NEW j \in JobSet, Become(w, j)
    PROVE  /\ job' \in [Workers -> JobSet]
           /\ job'[w] = j
           /\ \A v \in Workers \ {w} : job'[v] = job[v]
BY DEF TypeOK, Become

(* What one job needs when only that job changes. *)
Fits(w, j) ==
    /\ j.step \in {"create", "persist"} =>
           \A v \in Workers \ {w} : job[v].txn # j.txn
    /\ \A v \in Workers \ {w} :
           job[v].step \in {"create", "persist"} => j.txn # job[v].txn
    /\ \A p \in Products : j.draft[p] # 0 =>
           /\ j.draft[p] <= stock[p]
           /\ \A v \in Workers \ {w} : job[v].draft[p] = 0

(* A step that changes one job and no row keeps the invariant if the job   *)
(* agrees with the rows. *)
LEMMA QuietStep ==
    ASSUME IInv, NEW w \in Workers, NEW j \in JobSet, Become(w, j),
           UNCHANGED <<rows, intent>>,
           UNCHANGED declined, acked' \subseteq Txns \X BOOLEAN,
           denied' \subseteq Txns, failures' \in Nat,
           Fits(w, j), JobOK(w)'
    PROVE  IInv'
<1> USE DEF IInv, rows
<1>1. /\ job' \in [Workers -> JobSet]
      /\ job'[w] = j
      /\ \A v \in Workers \ {w} : job'[v] = job[v]
  BY BecomeJob
<1>2. TypeOK'
  BY <1>1 DEF TypeOK
<1>3. ASSUME NEW v \in Workers PROVE JobOK(v)'
  <2>1. CASE v = w
    BY <2>1
  <2>2. CASE v # w
    BY <1>1, <2>2 DEF JobOK, At
  <2> QED
    BY <2>1, <2>2
<1>4. \A t \in Txns : RowOK(t)'
  BY DEF RowOK
<1>5. Disjoint'
  <2> SUFFICES ASSUME NEW v \in Workers, NEW u \in Workers \ {v}
               PROVE /\ job'[v].step \in {"create", "persist"} =>
                            job'[u].txn # job'[v].txn
                     /\ \A p \in Products :
                            job'[v].draft[p] = 0 \/ job'[u].draft[p] = 0
    BY DEF Disjoint
  <2>1. CASE v = w
    BY <1>1, <2>1 DEF Fits
  <2>2. CASE u = w
    BY <1>1, <2>2 DEF Fits
  <2>3. CASE v # w /\ u # w
    BY <1>1, <2>3 DEF Disjoint
  <2> QED
    BY <2>1, <2>2, <2>3
<1>6. NoOversell'
  <2> SUFFICES ASSUME NEW p \in Products, NEW v \in Workers
               PROVE  stock[p] >= 0 /\ job'[v].draft[p] <= stock[p]
    BY DEF NoOversell
  <2>1. stock[p] \in Int /\ stock[p] >= 0
    BY DEF TypeOK, NoOversell
  <2>2. CASE v = w
    BY <1>1, <2>1, <2>2 DEF Fits
  <2>3. CASE v # w
    BY <1>1, <2>1, <2>3 DEF NoOversell
  <2> QED
    BY <2>1, <2>2, <2>3
<1>7. SuccessIsBacked'
  BY DEF SuccessIsBacked
<1> QED
  BY <1>2, <1>3, <1>4, <1>5, <1>6, <1>7

(* A request that ends, for whatever reason, leaves its worker idle. *)
LEMMA FinishStep ==
    ASSUME IInv, NEW w \in Workers, Finish(w), UNCHANGED <<rows, intent>>,
           UNCHANGED declined, acked' \subseteq Txns \X BOOLEAN,
           denied' \subseteq Txns, failures' \in Nat
    PROVE  IInv'
<1>1. NoJob \in JobSet /\ Become(w, NoJob)
  BY NoJobType DEF Finish
<1>2. Fits(w, NoJob)
  <2>1. \A v \in Workers : job[v].step \in {"create", "persist"} => job[v].txn # None
    BY NoneAssumption DEF IInv, JobOK, At
  <2> QED
    BY <2>1 DEF Fits, NoJob, Nothing
<1>3. job'[w] = NoJob
  BY <1>1, BecomeJob DEF IInv
<1>4. JobOK(w)'
  BY <1>3 DEF JobOK, At, NoJob
<1> QED
  BY <1>1, <1>2, <1>4, QuietStep

(* Webhook acknowledgements stay well typed. *)
LEMMA AcknowledgeType ==
    ASSUME TypeOK, NEW w \in Workers, job[w].txn \in Txns,
           Acknowledge(w) \/ UNCHANGED acked
    PROVE  acked' \subseteq Txns \X BOOLEAN
<1>1. job[w].success \in BOOLEAN
  BY DEF TypeOK, JobSet
<1> QED
  BY <1>1 DEF TypeOK, Acknowledge

(* Requests that begin: nothing is known of them but their parameters. *)
LEMMA InitiateStep ==
    ASSUME IInv, NEW w \in Workers, NEW o \in Orders, NEW t \in Txns,
           InitiatePayment(w, o, t)
    PROVE  IInv'
<1> DEFINE j == [NoJob EXCEPT !.step = "create", !.txn = t, !.order = o]
<1>1. j \in JobSet /\ Become(w, j) /\ UNCHANGED <<rows, intent, declined, acked, denied, failures>>
  BY NoJobType DEF InitiatePayment, JobSet, provider
<1>2. /\ j.step = "create" /\ j.txn = t /\ j.order = o /\ j.success = FALSE
      /\ j.next = 1 /\ j.draft = Nothing
  BY DEF NoJob
<1> HIDE DEF j
<1>3. Fits(w, j)
  BY <1>2 DEF InitiatePayment, Fits, Nothing
<1>4. job'[w] = j
  BY <1>1, BecomeJob DEF IInv
<1>5. payment[t] = "NONE" /\ intent[t] = "none"
  BY DEF IInv, RowOK, InitiatePayment
<1>6. JobOK(w)'
  BY <1>1, <1>2, <1>4, <1>5 DEF JobOK, At, rows
<1> QED
  BY <1>1, <1>3, <1>6, QuietStep DEF IInv, TypeOK

LEMMA BeginStep ==
    ASSUME IInv, NEW w \in Workers, NEW t \in Txns, NEW s \in {"read", "execute"},
           NEW ok \in BOOLEAN, NEW hook \in BOOLEAN,
           intent[t] \notin {"none", "created"}, ok => intent[t] = "captured",
           Begin(w, s, t, ok, hook)
    PROVE  IInv'
<1> DEFINE j == [NoJob EXCEPT !.step = s, !.txn = t, !.success = ok, !.hook = hook]
<1>1. j \in JobSet /\ Become(w, j) /\ UNCHANGED <<rows, intent, declined, acked, failures>>
  BY NoJobType DEF Begin, JobSet, provider
<1>7. denied' \subseteq Txns
  BY DEF Begin, DeniedIf, IInv, TypeOK
<1>2. /\ j.step = s /\ j.txn = t /\ j.success = ok /\ j.next = 1
      /\ j.draft = Nothing
  BY DEF NoJob
<1> HIDE DEF j
<1>3. payment[t] # "NONE"
  BY DEF IInv, RowOK
<1>4. Fits(w, j)
  BY <1>2, <1>3 DEF Fits, Nothing, IInv, JobOK
<1>5. job'[w] = j
  BY <1>1, BecomeJob DEF IInv
<1>6. JobOK(w)'
  BY <1>1, <1>2, <1>3, <1>5 DEF JobOK, At, rows
<1> QED
  BY <1>1, <1>4, <1>6, <1>7, QuietStep DEF IInv, TypeOK

(* A request that only moves on, with the same transaction and writes. *)
LEMMA MoveStep ==
    ASSUME IInv, NEW w \in Workers, NEW j \in JobSet, Become(w, j),
           UNCHANGED <<rows, provider, acked, denied, failures>>,
           j.txn = job[w].txn, j.draft = job[w].draft,
           j.step \notin {"create", "persist"},
           JobOK(w)'
    PROVE  IInv'
<1>1. Fits(w, j)
  BY DEF Fits, IInv, Disjoint, NoOversell
<1> QED
  BY <1>1, QuietStep DEF IInv, TypeOK, provider

LEMMA ReadPendingStep ==
    ASSUME IInv, NEW w \in Workers, ReadPending(w) PROVE IInv'
<1> DEFINE t == job[w].txn
           j == [job[w] EXCEPT !.step = "include", !.order = payOrder[t]]
<1>1. t \in Txns /\ payOrder[t] \in Orders /\ job[w] \in JobSet
  BY DEF IInv, JobOK, RowOK, ReadPending, At, TypeOK
<1>2. j \in JobSet /\ Become(w, j)
  BY <1>1 DEF JobSet, ReadPending
<1>3. /\ j.step = "include" /\ j.txn = t /\ j.order = payOrder[t]
      /\ j.success = job[w].success /\ j.next = job[w].next
      /\ j.draft = job[w].draft
  BY <1>1 DEF JobSet
<1> HIDE DEF j
<1>4. job'[w] = j
  BY <1>2, BecomeJob DEF IInv
<1>5. JobOK(w)'
  BY <1>1, <1>3, <1>4 DEF JobOK, At, rows, provider, ReadPending, IInv
<1> QED
  BY <1>2, <1>3, <1>5, MoveStep DEF ReadPending

LEMMA ReadOrderStep ==
    ASSUME IInv, NEW w \in Workers, ReadOrder(w) PROVE IInv'
<1> DEFINE j == [job[w] EXCEPT !.step = "update",
                               !.seen = orderStatus[job[w].order]]
<1>1. job[w].txn \in Txns /\ job[w].order \in Orders /\ job[w] \in JobSet
  BY DEF IInv, JobOK, RowOK, ReadOrder, At, TypeOK
<1>2. j \in JobSet /\ Become(w, j)
  BY <1>1 DEF JobSet, ReadOrder, IInv, TypeOK
<1>3. /\ j.step = "update" /\ j.txn = job[w].txn /\ j.order = job[w].order
      /\ j.success = job[w].success /\ j.next = job[w].next
      /\ j.draft = job[w].draft
  BY <1>1 DEF JobSet
<1> HIDE DEF j
<1>4. job'[w] = j
  BY <1>2, BecomeJob DEF IInv
<1>5. JobOK(w)'
  BY <1>1, <1>3, <1>4 DEF JobOK, At, rows, provider, ReadOrder, IInv
<1> QED
  BY <1>2, <1>3, <1>5, MoveStep DEF ReadOrder

(* No line taken means no unit taken. *)
LEMMA TakenNothing == ASSUME NEW o \in Orders PROVE Taken[o][0] = Nothing
<1>1. Len(OrderItems[o]) \in Nat
  BY ItemsAssumption
<1>2. Taken[o][0] \in [Products -> Nat]
  BY <1>1, TakenAssumption
<1>3. \A p \in Products : Taken[o][0][p] = 0
  BY TakenAssumption
<1> QED
  BY <1>2, <1>3 DEF Nothing

(* Moving to another step of the transaction changes the step alone. *)
LEMMA GoToJob ==
    ASSUME IInv, NEW w \in Workers, ~ At(w, "idle"),
           NEW s \in {"persist", "order", "items", "commit"}, GoTo(w, s)
    PROVE  /\ [job[w] EXCEPT !.step = s] \in JobSet
           /\ job'[w] = [job[w] EXCEPT !.step = s]
           /\ job'[w].step = s /\ job'[w].txn = job[w].txn
           /\ job'[w].order = job[w].order /\ job'[w].success = job[w].success
           /\ job'[w].next = job[w].next /\ job'[w].draft = job[w].draft
           /\ job[w].next \in Nat
<1> DEFINE j == [job[w] EXCEPT !.step = s]
<1>1. job[w] \in JobSet
  BY DEF IInv, TypeOK
<1>2. j \in JobSet /\ Become(w, j)
  BY <1>1 DEF JobSet, GoTo
<1>3. /\ j.step = s /\ j.txn = job[w].txn /\ j.order = job[w].order
      /\ j.success = job[w].success /\ j.next = job[w].next
      /\ j.draft = job[w].draft /\ job[w].next \in Nat
  BY <1>1 DEF JobSet
<1> HIDE DEF j
<1>4. job'[w] = j
  BY <1>2, BecomeJob DEF IInv
<1> QED
  BY <1>2, <1>3, <1>4 DEF j

LEMMA GoToStep ==
    ASSUME IInv, NEW w \in Workers, ~ At(w, "idle"),
           NEW s \in {"order", "items", "commit"}, GoTo(w, s),
           UNCHANGED <<rows, provider, acked, denied, failures>>, JobOK(w)'
    PROVE  IInv'
<1> DEFINE j == [job[w] EXCEPT !.step = s]
<1>1. job[w] \in JobSet /\ j \in JobSet /\ Become(w, j)
  BY GoToJob DEF GoTo, IInv, TypeOK
<1>2. j.step = s /\ j.txn = job[w].txn /\ j.draft = job[w].draft
  BY <1>1 DEF JobSet
<1> HIDE DEF j
<1> QED
  BY <1>1, <1>2, MoveStep

LEMMA UpdatePaymentStep ==
    ASSUME IInv, NEW w \in Workers, UpdatePayment(w) PROVE IInv'
<1> DEFINE s == IF job[w].success THEN "order" ELSE "commit"
<1>1. s \in {"order", "items", "commit"} /\ GoTo(w, s) /\ ~ At(w, "idle")
  BY DEF UpdatePayment, At
<1>2. UNCHANGED <<rows, provider, acked, denied, failures>>
  BY DEF UpdatePayment
<1>3. /\ job'[w].step = s /\ job'[w].txn = job[w].txn
      /\ job'[w].order = job[w].order /\ job'[w].success = job[w].success
      /\ job'[w].next = job[w].next /\ job'[w].draft = job[w].draft
      /\ job[w].next \in Nat
  BY <1>1, GoToJob
<1>4. job[w].step = "update" /\ JobOK(w)
  BY DEF UpdatePayment, At, IInv
<1>5. JobOK(w)'
  BY <1>2, <1>3, <1>4 DEF JobOK, At, rows, provider
<1> QED
  BY <1>1, <1>2, <1>5, GoToStep

LEMMA MarkPaidStep ==
    ASSUME IInv, NEW w \in Workers, MarkPaid(w) PROVE IInv'
<1>1. GoTo(w, "items") /\ ~ At(w, "idle")
  BY DEF MarkPaid, At
<1>2. UNCHANGED <<rows, provider, acked, denied, failures>>
  BY DEF MarkPaid
<1>3. job[w].order \in Orders /\ Len(OrderItems[job[w].order]) \in Nat
  BY ItemsAssumption DEF IInv, JobOK, RowOK, MarkPaid, At
<1>4. Taken[job[w].order][0] = Nothing
  BY <1>3, TakenNothing
<1>5. /\ job'[w].step = "items" /\ job'[w].txn = job[w].txn
      /\ job'[w].order = job[w].order /\ job'[w].success = job[w].success
      /\ job'[w].next = job[w].next /\ job'[w].draft = job[w].draft
      /\ job[w].next \in Nat
  BY <1>1, GoToJob
<1>6. job[w].step = "order" /\ JobOK(w)
  BY DEF MarkPaid, At, IInv
<1>7. JobOK(w)'
  BY <1>2, <1>3, <1>4, <1>5, <1>6 DEF JobOK, At, rows, provider
<1> QED
  BY <1>1, <1>2, <1>7, GoToStep

LEMMA ItemsDoneStep ==
    ASSUME IInv, NEW w \in Workers, ItemsDone(w) PROVE IInv'
<1>1. GoTo(w, "commit") /\ ~ At(w, "idle")
  BY DEF ItemsDone, At
<1>2. UNCHANGED <<rows, provider, acked, denied, failures>>
  BY DEF ItemsDone
<1>3. job[w].order \in Orders /\ Len(OrderItems[job[w].order]) \in Nat
  BY ItemsAssumption DEF IInv, JobOK, RowOK, ItemsDone, At
<1>4. /\ job'[w].step = "commit" /\ job'[w].txn = job[w].txn
      /\ job'[w].order = job[w].order /\ job'[w].success = job[w].success
      /\ job'[w].next = job[w].next /\ job'[w].draft = job[w].draft
      /\ job[w].next \in Nat
  BY <1>1, GoToJob
<1>5. job[w].step = "items" /\ JobOK(w)
  BY DEF ItemsDone, At, IInv
<1>6. job[w].next - 1 = Len(OrderItems[job[w].order])
  BY <1>3, <1>4, <1>5 DEF JobOK, At, ItemsDone
<1>7. job[w].draft = Demand[job[w].order]
  BY <1>3, <1>5, <1>6 DEF Demand, JobOK, At
<1>8. JobOK(w)'
  BY <1>2, <1>4, <1>5, <1>7 DEF JobOK, At, rows, provider
<1> QED
  BY <1>1, <1>2, <1>8, GoToStep

(* One more line taken is one more line of the running total. *)
LEMMA TakenNext ==
    ASSUME NEW o \in Orders, NEW n \in 1..Len(OrderItems[o])
    PROVE  Taken[o][n] = [Taken[o][n-1] EXCEPT ![OrderItems[o][n].product] =
                              @ + OrderItems[o][n].quantity]
<1>1. Len(OrderItems[o]) \in Nat
  BY ItemsAssumption
<1>2. n \in 0..Len(OrderItems[o]) /\ n - 1 \in 0..Len(OrderItems[o])
  BY <1>1
<1>3. Taken[o][n] \in [Products -> Nat] /\ Taken[o][n-1] \in [Products -> Nat]
  BY <1>2, TakenAssumption
<1>4. \A p \in Products :
          Taken[o][n][p] = Taken[o][n-1][p] +
              IF OrderItems[o][n].product = p THEN OrderItems[o][n].quantity ELSE 0
  BY TakenAssumption
<1> DEFINE q == OrderItems[o][n].quantity
           r == OrderItems[o][n].product
           f == [Taken[o][n-1] EXCEPT ![r] = @ + q]
<1>5. \A p \in Products : Taken[o][n][p] = f[p]
  <2> SUFFICES ASSUME NEW p \in Products PROVE Taken[o][n][p] = f[p]
    OBVIOUS
  <2>1. Taken[o][n-1][p] \in Nat
    BY <1>3
  <2> QED
    BY <1>3, <1>4, <2>1
<1> QED
  BY <1>3, <1>5

LEMMA ReduceStockStep ==
    ASSUME IInv, NEW w \in Workers, ReduceStock(w) PROVE IInv'
<1> DEFINE o == job[w].order
           n == job[w].next
           i == Item(w)
           d == [job[w].draft EXCEPT ![i.product] = @ + i.quantity]
           j == [job[w] EXCEPT !.next = n + 1, !.draft = d]
<1>1. /\ job[w] \in JobSet /\ job[w].step = "items" /\ job[w].txn \in Txns
      /\ o \in Orders /\ n \in Nat \ {0} /\ n <= Len(OrderItems[o])
  BY DEF IInv, TypeOK, JobSet, JobOK, RowOK, ReduceStock, At
<1>2. Len(OrderItems[o]) \in Nat
  BY <1>1, ItemsAssumption
<1>3. i \in [product : Products, quantity : Nat \ {0}]
  BY <1>1, ItemType
<1>4. job[w].draft \in [Products -> Nat]
  BY <1>1 DEF JobSet
<1>5. d \in [Products -> Nat]
  BY <1>3, <1>4
<1>6. Become(w, j)
  BY DEF ReduceStock
<1>7. d = Taken[o][n]
  <2>1. n \in 1..Len(OrderItems[o])
    BY <1>1, <1>2
  <2>2. job[w].draft = Taken[o][n-1]
    BY <1>1 DEF IInv, JobOK, At
  <2>3. i = OrderItems[o][n]
    BY DEF Item
  <2>4. Taken[o][n] = [Taken[o][n-1] EXCEPT ![OrderItems[o][n].product] =
                           @ + OrderItems[o][n].quantity]
    <3> HIDE DEF o, n
    <3> QED
      BY <1>1, <2>1, TakenNext
  <2> HIDE DEF i, o, n
  <2> QED
    BY <2>2, <2>3, <2>4 DEF o, n
<1>8. /\ i.product \in Products /\ i.quantity \in Nat
      /\ d[i.product] = job[w].draft[i.product] + i.quantity
      /\ \A p \in Products \ {i.product} : d[p] = job[w].draft[p]
  BY <1>3, <1>4
<1>9. d[i.product] <= stock[i.product]
  BY <1>4, <1>8 DEF ReduceStock, InStock, IInv, TypeOK
<1>10. \A v \in Workers \ {w} : job[v].draft[i.product] = 0
  <2> SUFFICES ASSUME NEW v \in Workers \ {w} PROVE job[v].draft[i.product] = 0
    OBVIOUS
  <2>1. job[v].draft[i.product] \in Nat
    BY <1>8 DEF IInv, TypeOK, JobSet
  <2> QED
    BY <2>1 DEF ReduceStock, HoldsProduct
<1> HIDE DEF d, i
<1>11. j \in JobSet
  <2>1. n + 1 \in Nat \ {0}
    BY <1>1
  <2> HIDE DEF n
  <2> QED
    BY <1>1, <1>5, <2>1 DEF JobSet
<1>12. /\ j.step = "items" /\ j.txn = job[w].txn /\ j.order = o
       /\ j.success = job[w].success /\ j.next = n + 1 /\ j.draft = d
  BY <1>1 DEF JobSet
<1> HIDE DEF j, o, n
<1>13. job'[w] = j
  BY <1>6, <1>11, BecomeJob DEF IInv
<1>14. UNCHANGED <<rows, provider, acked, denied, failures>>
  BY DEF ReduceStock
<1>15. Fits(w, j)
  <2>1. ASSUME NEW p \in Products, j.draft[p] # 0
        PROVE  /\ j.draft[p] <= stock[p]
               /\ \A v \in Workers \ {w} : job[v].draft[p] = 0
    <3>1. CASE p = i.product
      BY <1>9, <1>10, <1>12, <3>1
    <3>2. CASE p # i.product
      BY <1>8, <1>12, <2>1, <3>2 DEF IInv, NoOversell, Disjoint
    <3> QED
      BY <3>1, <3>2
  <2> QED
    BY <1>12, <2>1 DEF Fits, IInv, Disjoint
<1>16. JobOK(w)'
  BY <1>1, <1>2, <1>7, <1>12, <1>13, <1>14
  DEF JobOK, At, rows, provider, IInv, o, n
<1> QED
  BY <1>6, <1>11, <1>14, <1>15, <1>16, QuietStep DEF IInv, TypeOK, provider

-------------------------------------------------------------------------------
(* Steps that change rows or the provider's records. *)

LEMMA CreateIntentStep ==
    ASSUME IInv, NEW w \in Workers, CreateIntent(w) PROVE IInv'
<1> USE DEF IInv
<1> DEFINE t == job[w].txn
<1>1. /\ job[w].step = "create" /\ GoTo(w, "persist") /\ ~ At(w, "idle")
      /\ UNCHANGED <<rows, declined, acked, denied, failures>>
      /\ intent' = [intent EXCEPT ![t] = "created"]
      /\ job[w].step # "items" /\ job[w].step # "commit"
  BY DEF CreateIntent, At
<1>2. /\ t \in Txns /\ payment[t] = "NONE" /\ intent[t] = "none"
      /\ job[w].order \in Orders /\ ~ job[w].success /\ job[w].next = 1
      /\ job[w].draft = Nothing
  BY <1>1 DEF JobOK, At
<1>3. /\ job'[w].step = "persist" /\ job'[w].txn = t
      /\ job'[w].order = job[w].order /\ job'[w].success = job[w].success
      /\ job'[w].next = job[w].next /\ job'[w].draft = job[w].draft
      /\ [job[w] EXCEPT !.step = "persist"] \in JobSet
  BY <1>1, GoToJob
<1>4. /\ job' \in [Workers -> JobSet]
      /\ \A v \in Workers \ {w} : job'[v] = job[v]
  BY <1>1, <1>3, BecomeJob DEF GoTo
<1>5. TypeOK'
  BY <1>1, <1>4 DEF TypeOK, rows
<1>6. intent'[t] = "created" /\ \A u \in Txns \ {t} : intent'[u] = intent[u]
  BY <1>1, <1>2 DEF TypeOK
<1>7. ASSUME NEW v \in Workers PROVE JobOK(v)'
  <2>1. CASE v = w
    BY <1>1, <1>2, <1>3, <1>6, <2>1 DEF JobOK, At, rows
  <2>2. CASE v # w
    <3>1. job'[v] = job[v] /\ (~ At(v, "idle") => job[v].txn # t)
      BY <1>1, <1>2, <1>4, <2>2 DEF JobOK, Disjoint, At, RowOK
    <3>2. CASE At(v, "idle")
      BY <1>1, <3>1, <3>2 DEF JobOK, At, rows
    <3>3. CASE ~ At(v, "idle")
      BY <1>1, <1>6, <3>1, <3>3 DEF JobOK, At, rows
    <3> QED
      BY <3>2, <3>3
  <2> QED
    BY <2>1, <2>2
<1>8. \A u \in Txns : RowOK(u)'
  BY <1>1, <1>2, <1>6 DEF RowOK, rows
<1>9. Disjoint'
  BY <1>1, <1>3, <1>4 DEF Disjoint
<1>10. NoOversell'
  BY <1>1, <1>3, <1>4 DEF NoOversell, rows
<1>11. SuccessIsBacked'
  BY <1>1, <1>2, <1>6 DEF SuccessIsBacked, rows
<1> QED
  BY <1>5, <1>7, <1>8, <1>9, <1>10, <1>11

LEMMA CreatePaymentStep ==
    ASSUME IInv, NEW w \in Workers, CreatePayment(w) PROVE IInv'
<1> USE DEF IInv
<1> DEFINE t == job[w].txn
           o == job[w].order
<1>1. /\ job[w].step = "persist" /\ Become(w, NoJob)
      /\ UNCHANGED <<stock, orderStatus, declined, acked, denied, failures>>
      /\ payment' = [payment EXCEPT ![t] = "PENDING"]
      /\ payOrder' = [payOrder EXCEPT ![t] = o]
      /\ intent' = [intent EXCEPT ![t] = "open"]
  BY DEF CreatePayment, At, Finish
<1>2. /\ t \in Txns /\ o \in Orders
      /\ payment[t] = "NONE" /\ intent[t] = "created"
  BY <1>1 DEF JobOK, At
<1>3. /\ job' \in [Workers -> JobSet] /\ job'[w] = NoJob
      /\ \A v \in Workers \ {w} : job'[v] = job[v]
  BY <1>1, NoJobType, BecomeJob
<1>4. TypeOK'
  BY <1>1, <1>2, <1>3 DEF TypeOK
<1>5. /\ payment'[t] = "PENDING" /\ payOrder'[t] = o /\ intent'[t] = "open"
      /\ \A u \in Txns \ {t} : /\ payment'[u] = payment[u]
                               /\ payOrder'[u] = payOrder[u]
                               /\ intent'[u] = intent[u]
  BY <1>1, <1>2 DEF TypeOK
<1>6. ASSUME NEW v \in Workers PROVE JobOK(v)'
  <2>1. CASE v = w
    BY <1>3, <2>1 DEF JobOK, At, NoJob
  <2>2. CASE v # w
    <3>1. job'[v] = job[v] /\ (~ At(v, "idle") => job[v].txn # t)
      BY <1>1, <1>2, <1>3, <2>2 DEF JobOK, Disjoint, At
    <3>2. CASE At(v, "idle")
      BY <3>1, <3>2 DEF JobOK, At
    <3>3. CASE ~ At(v, "idle")
      BY <1>5, <3>1, <3>3 DEF JobOK, At
    <3> QED
      BY <3>2, <3>3
  <2> QED
    BY <2>1, <2>2
<1>7. \A u \in Txns : RowOK(u)'
  BY <1>1, <1>2, <1>5 DEF RowOK
<1>8. Disjoint'
  <2>1. \A v \in Workers : job[v].step \in {"create", "persist"} => job[v].txn # None
    BY NoneAssumption DEF JobOK, At
  <2> QED
    BY <1>3, <2>1 DEF Disjoint, NoJob, Nothing
<1>9. NoOversell'
  <2>1. \A p \in Products : stock[p] \in Int
    BY DEF TypeOK
  <2> QED
    BY <1>1, <1>3, <2>1 DEF NoOversell, NoJob, Nothing
<1>10. SuccessIsBacked'
  <2>1. ASSUME NEW u \in Txns, payment'[u] = "SUCCESS"
        PROVE  /\ intent'[u] = "captured" /\ payOrder'[u] \in Orders
               /\ orderStatus'[payOrder'[u]] = "PAID"
    BY <1>1, <1>5, <2>1 DEF SuccessIsBacked
  <2>2. ASSUME NEW q \in Orders, orderStatus'[q] = "PAID"
        PROVE  \E u \in Txns : payOrder'[u] = q /\ intent'[u] = "captured"
    <3>1. PICK u \in Txns : payOrder[u] = q /\ intent[u] = "captured"
      BY <1>1, <2>2 DEF SuccessIsBacked
    <3>2. u # t
      BY <1>2, <3>1
    <3> QED
      BY <1>5, <3>1, <3>2
  <2> QED
    BY <2>1, <2>2 DEF SuccessIsBacked
<1> QED
  BY <1>4, <1>6, <1>7, <1>8, <1>9, <1>10

(* The provider moves an intent the customer can act on, no job loses what *)
(* it knows. *)
LEMMA IntentStep ==
    ASSUME IInv, NEW t \in Txns, NEW a \in {"approved", "captured"},
           intent[t] \in {"open", "approved"},
           intent' = [intent EXCEPT ![t] = a],
           UNCHANGED <<rows, declined, acked, denied, failures, job>>
    PROVE  IInv'
<1> USE DEF IInv, rows
<1>1. intent'[t] = a /\ \A u \in Txns \ {t} : intent'[u] = intent[u]
  BY DEF TypeOK
<1>2. TypeOK'
  BY DEF TypeOK
<1>3. ASSUME NEW v \in Workers PROVE JobOK(v)'
  <2>1. payment[t] # "NONE"
    BY DEF RowOK
  <2>2. CASE job[v].txn = t
    BY <1>1, <2>1, <2>2 DEF JobOK, At
  <2>3. CASE job[v].txn # t
    BY <1>1, <2>3 DEF JobOK, At
  <2> QED
    BY <2>2, <2>3
<1>4. \A u \in Txns : RowOK(u)'
  BY <1>1 DEF RowOK
<1>5. Disjoint' /\ NoOversell'
  BY DEF Disjoint, NoOversell
<1>6. SuccessIsBacked'
  BY <1>1 DEF SuccessIsBacked
<1> QED
  BY <1>2, <1>3, <1>4, <1>5, <1>6

LEMMA CustomerStep ==
    ASSUME IInv, NEW t \in Txns, Customer(t) PROVE IInv'
<1>1. CASE Pay(t)
  BY <1>1, IntentStep DEF Pay
<1>2. CASE Decline(t)
  BY <1>2 DEF Decline, IInv, rows, TypeOK, JobOK, At, RowOK, Disjoint,
     NoOversell, SuccessIsBacked
<1>3. CASE Approve(t)
  BY <1>3, IntentStep DEF Approve
<1> QED
  BY <1>1, <1>2, <1>3 DEF Customer

LEMMA ExecutePaymentStep ==
    ASSUME IInv, NEW w \in Workers, ExecutePayment(w) PROVE IInv'
<1> USE DEF IInv
<1> DEFINE t == job[w].txn
           completed == intent[t] \in {"approved", "captured"}
           j == [job[w] EXCEPT !.step = "read", !.success = completed]
<1>1. /\ job[w].step = "execute" /\ Become(w, j)
      /\ UNCHANGED <<rows, declined, acked, failures>>
      /\ intent' = IF completed THEN [intent EXCEPT ![t] = "captured"] ELSE intent
  BY DEF ExecutePayment, At
<1>2. /\ t \in Txns /\ job[w] \in JobSet /\ payment[t] # "NONE"
      /\ job[w].next = 1 /\ job[w].draft = Nothing
  BY <1>1 DEF JobOK, At, TypeOK
<1>14. denied' \subseteq Txns
  BY <1>2 DEF ExecutePayment, DeniedIf, TypeOK
<1>3. completed \in BOOLEAN
  OBVIOUS
<1>4. /\ intent' \in [Txns -> {"none", "created", "open", "approved", "captured"}]
      /\ completed => intent'[t] = "captured"
      /\ ~ completed => intent'[t] = intent[t]
      /\ \A u \in Txns \ {t} : intent'[u] = intent[u]
      /\ intent'[t] \in {"none", "created"} <=> intent[t] \in {"none", "created"}
      /\ intent[t] = "captured" => intent'[t] = "captured"
  BY <1>1, <1>2 DEF TypeOK
<1> HIDE DEF completed
<1>5. j \in JobSet
  BY <1>2, <1>3 DEF JobSet
<1>6. /\ j.step = "read" /\ j.txn = t /\ j.order = job[w].order
      /\ j.success = completed /\ j.next = 1 /\ j.draft = Nothing
  BY <1>2 DEF JobSet
<1> HIDE DEF j, t
<1>7. /\ job' \in [Workers -> JobSet] /\ job'[w] = j
      /\ \A v \in Workers \ {w} : job'[v] = job[v]
  BY <1>1, <1>5, BecomeJob
<1>8. TypeOK'
  BY <1>1, <1>4, <1>7, <1>14 DEF TypeOK, rows
<1>9. ASSUME NEW v \in Workers PROVE JobOK(v)'
  <2>1. CASE v = w
    BY <1>1, <1>2, <1>3, <1>4, <1>6, <1>7, <2>1 DEF JobOK, At, rows
  <2>2. CASE v # w /\ job[v].txn = t
    BY <1>1, <1>2, <1>4, <1>7, <2>2 DEF JobOK, At, rows
  <2>3. CASE v # w /\ job[v].txn # t
    BY <1>1, <1>4, <1>7, <2>3 DEF JobOK, At, rows
  <2> QED
    BY <2>1, <2>2, <2>3
<1>10. \A u \in Txns : RowOK(u)'
  BY <1>1, <1>4 DEF RowOK, rows
<1>11. Disjoint'
  BY <1>1, <1>6, <1>7 DEF Disjoint, Nothing, t
<1>12. NoOversell'
  <2>1. \A p \in Products : stock[p] \in Int
    BY DEF TypeOK
  <2> QED
    BY <1>1, <1>6, <1>7, <2>1 DEF NoOversell, Nothing, rows
<1>13. SuccessIsBacked'
  BY <1>1, <1>4 DEF SuccessIsBacked, rows
<1> QED
  BY <1>8, <1>9, <1>10, <1>11, <1>12, <1>13

LEMMA SetStockStep ==
    ASSUME IInv, NEW p \in Products, NEW n \in StockInputs, SetStock(p, n)
    PROVE  IInv'
<1> USE DEF IInv
<1>1. /\ UNCHANGED <<orderStatus, payment, payOrder, provider, acked, denied, job, failures>>
      /\ stock' = [stock EXCEPT ![p] = n]
      /\ n \in Nat
  BY StockAssumption DEF SetStock
<1>2. TypeOK'
  BY <1>1 DEF TypeOK, provider
<1>3. \A w \in Workers : JobOK(w)'
  BY <1>1 DEF JobOK, At, provider
<1>4. \A t \in Txns : RowOK(t)'
  BY <1>1 DEF RowOK, provider
<1>5. Disjoint' /\ SuccessIsBacked'
  BY <1>1 DEF Disjoint, SuccessIsBacked, provider
<1>6. NoOversell'
  <2>1. \A w \in Workers : job[w].draft[p] = 0
    BY DEF SetStock, HoldsProduct, TypeOK, JobSet
  <2>2. stock'[p] = n /\ \A q \in Products \ {p} : stock'[q] = stock[q]
    BY <1>1 DEF TypeOK
  <2> QED
    BY <1>1, <2>1, <2>2 DEF NoOversell
<1> QED
  BY <1>2, <1>3, <1>4, <1>5, <1>6

(* What a commit writes: the whole order leaves the stock at once. *)
LEMMA CommitRows ==
    ASSUME IInv, NEW w \in Workers, Commit(w)
    PROVE  LET t == job[w].txn
               o == payOrder[t]
           IN  /\ t \in Txns /\ o \in Orders /\ payment[t] # "NONE"
               /\ job[w].success \in BOOLEAN
               /\ job[w].success =>
                    /\ intent[t] = "captured"
                    /\ payment' = [payment EXCEPT ![t] = "SUCCESS"]
                    /\ orderStatus' = [orderStatus EXCEPT ![o] = "PAID"]
                    /\ job[w].draft = Demand[o]
               /\ ~ job[w].success =>
                    /\ payment' = [payment EXCEPT ![t] = "FAILED"]
                    /\ orderStatus' = orderStatus
                    /\ job[w].draft = Nothing
               /\ stock' = [p \in Products |-> stock[p] - job[w].draft[p]]
               /\ UNCHANGED <<payOrder, intent, declined, denied, failures>>
<1>1. job[w].step = "commit" /\ JobOK(w)
  BY DEF Commit, CommitAs, At, IInv
<1>2. /\ job[w].txn \in Txns /\ payment[job[w].txn] # "NONE"
      /\ job[w].order = payOrder[job[w].txn] /\ job[w].order \in Orders
      /\ job[w].success \in BOOLEAN
  BY <1>1 DEF JobOK, At, IInv, RowOK, TypeOK, JobSet
<1>3. job[w].draft = IF job[w].success THEN Demand[job[w].order] ELSE Nothing
  BY <1>1 DEF JobOK, At
<1>4. job[w].success => intent[job[w].txn] = "captured"
  BY <1>1 DEF JobOK, At
<1> QED
  BY <1>2, <1>3, <1>4 DEF Commit, CommitAs, provider

LEMMA CommitStep == ASSUME IInv, NEW w \in Workers, Commit(w) PROVE IInv'
<1> USE DEF IInv
<1> DEFINE t == job[w].txn
           o == payOrder[t]
<1>1. /\ t \in Txns /\ o \in Orders /\ payment[t] # "NONE"
      /\ job[w].success \in BOOLEAN
      /\ job[w].success => /\ intent[t] = "captured"
                           /\ payment' = [payment EXCEPT ![t] = "SUCCESS"]
                           /\ orderStatus' = [orderStatus EXCEPT ![o] = "PAID"]
      /\ ~ job[w].success => /\ payment' = [payment EXCEPT ![t] = "FAILED"]
                             /\ orderStatus' = orderStatus
      /\ stock' = [p \in Products |-> stock[p] - job[w].draft[p]]
      /\ UNCHANGED <<payOrder, intent, declined, denied, failures>>
  BY CommitRows
<1>2. /\ job' \in [Workers -> JobSet] /\ job'[w] = NoJob
      /\ \A v \in Workers \ {w} : job'[v] = job[v]
  BY NoJobType, BecomeJob DEF Commit, CommitAs, Finish
<1>3. /\ payment' \in [Txns -> {"NONE", "PENDING", "SUCCESS", "FAILED"}]
      /\ orderStatus' \in [Orders -> {"PENDING", "PAID"}]
      /\ payment'[t] = IF job[w].success THEN "SUCCESS" ELSE "FAILED"
      /\ \A u \in Txns \ {t} : payment'[u] = payment[u]
      /\ \A q \in Orders : orderStatus[q] = "PAID" => orderStatus'[q] = "PAID"
      /\ job[w].success => orderStatus'[o] = "PAID"
      /\ \A q \in Orders \ {o} : orderStatus'[q] = orderStatus[q]
      /\ ~ job[w].success => orderStatus' = orderStatus
  BY <1>1 DEF TypeOK
<1>4. \A v \in Workers : job[v].draft \in [Products -> Nat]
  BY DEF TypeOK, JobSet
<1>5. acked' \subseteq Txns \X BOOLEAN
  BY <1>1, AcknowledgeType DEF Commit, CommitAs
<1>6. stock' \in [Products -> Int]
      /\ \A p \in Products : stock'[p] = stock[p] - job[w].draft[p]
  BY <1>1, <1>4 DEF TypeOK
<1> HIDE DEF t
<1>7. TypeOK'
  BY <1>1, <1>2, <1>3, <1>5, <1>6 DEF TypeOK
<1>8. ASSUME NEW v \in Workers PROVE JobOK(v)'
  <2>1. CASE v = w
    BY <1>2, <2>1 DEF JobOK, At, NoJob
  <2>2. CASE v # w /\ job[v].txn = t
    BY <1>1, <1>2, <1>3, <2>2 DEF JobOK, At
  <2>3. CASE v # w /\ job[v].txn # t
    BY <1>1, <1>2, <1>3, <2>3 DEF JobOK, At
  <2> QED
    BY <2>1, <2>2, <2>3
<1>9. \A u \in Txns : RowOK(u)'
  BY <1>1, <1>3 DEF RowOK
<1>10. Disjoint'
  <2>1. \A v \in Workers : job[v].step \in {"create", "persist"} => job[v].txn # None
    BY NoneAssumption DEF JobOK, At
  <2> QED
    BY <1>2, <2>1 DEF Disjoint, NoJob, Nothing
<1>11. NoOversell'
  <2> SUFFICES ASSUME NEW p \in Products
               PROVE  stock'[p] >= 0 /\ \A v \in Workers : job'[v].draft[p] <= stock'[p]
    BY DEF NoOversell
  <2>1. stock'[p] = stock[p] - job[w].draft[p] /\ stock[p] \in Int
    BY <1>6 DEF TypeOK
  <2>2. job[w].draft[p] \in Nat /\ job[w].draft[p] <= stock[p] /\ stock[p] >= 0
    BY <1>4 DEF NoOversell
  <2>3. stock'[p] >= 0
    BY <2>1, <2>2
  <2>4. ASSUME NEW v \in Workers PROVE job'[v].draft[p] <= stock'[p]
    <3>1. CASE v = w
      BY <1>2, <2>3, <3>1 DEF NoJob, Nothing
    <3>2. CASE v # w
      <4>1. job[v].draft[p] \in Nat /\ job[v].draft[p] <= stock[p]
        BY <1>4 DEF NoOversell
      <4>2. job[w].draft[p] = 0 \/ job[v].draft[p] = 0
        BY <3>2 DEF Disjoint
      <4>3. job'[v] = job[v]
        BY <1>2, <3>2
      <4> QED
        BY <2>1, <2>2, <2>3, <4>1, <4>2, <4>3
    <3> QED
      BY <3>1, <3>2
  <2> QED
    BY <2>3, <2>4
<1>12. SuccessIsBacked'
  BY <1>1, <1>3 DEF SuccessIsBacked
<1> QED
  BY <1>7, <1>8, <1>9, <1>10, <1>11, <1>12

-------------------------------------------------------------------------------
LEMMA InitInv == Init => IInv
<1> SUFFICES ASSUME Init PROVE IInv
  OBVIOUS
<1> USE DEF Init
<1>1. TypeOK
  BY NoJobType, StockAssumption DEF TypeOK
<1>2. \A w \in Workers : JobOK(w)
  BY DEF JobOK, At, NoJob
<1>3. \A t \in Txns : RowOK(t)
  BY DEF RowOK
<1>4. Disjoint
  BY DEF Disjoint, NoJob, Nothing
<1>5. NoOversell
  <2>1. \A p \in Products : InitialStock[p] >= 0 /\ InitialStock[p] \in Int
    BY StockAssumption
  <2>2. \A w \in Workers, p \in Products : job[w].draft[p] = 0
    BY DEF NoJob, Nothing
  <2> QED
    BY <2>1, <2>2 DEF NoOversell
<1>6. SuccessIsBacked
  BY DEF SuccessIsBacked
<1> QED
  BY <1>1, <1>2, <1>3, <1>4, <1>5, <1>6 DEF IInv

(* Requests that end without touching a row. *)
LEMMA EndingStep ==
    ASSUME IInv, NEW w \in Workers,
           \/ ExecuteRefused(w) \/ ReadSettled(w) \/ MarkPaidRejected(w)
           \/ OutOfStock(w) \/ Fail(w) \/ DeadlockVictim(w)
    PROVE  IInv'
<1>1. Finish(w) /\ UNCHANGED <<rows, provider, denied>>
  BY DEF ExecuteRefused, ReadSettled, MarkPaidRejected, OutOfStock, Fail,
     DeadlockVictim
<1>2. failures' \in Nat
  BY DEF ExecuteRefused, ReadSettled, MarkPaidRejected, OutOfStock, Fail,
     DeadlockVictim, IInv, TypeOK
<1>3. acked' \subseteq Txns \X BOOLEAN
  <2>1. CASE ReadSettled(w)
    BY <2>1, AcknowledgeType DEF ReadSettled, IInv, JobOK, At
  <2>2. CASE ~ ReadSettled(w)
    BY <2>2 DEF ExecuteRefused, MarkPaidRejected, OutOfStock, Fail,
       DeadlockVictim, IInv, TypeOK
  <2> QED
    BY <2>1, <2>2
<1> QED
  BY <1>1, <1>2, <1>3, FinishStep DEF provider, IInv, TypeOK

(* The provider reports only transactions that have a row. *)
LEMMA RowsKnown ==
    ASSUME IInv, NEW t \in Txns, intent[t] = "captured" \/ t \in declined
    PROVE  intent[t] \notin {"none", "created"}
BY DEF IInv, RowOK

LEMMA ConfirmationStep ==
    ASSUME IInv, NEW w \in Workers, NEW t \in Txns,
           \/ \E ok \in BOOLEAN : StripeWebhook(w, t, ok)
           \/ BkashCallback(w, t)
           \/ ConfirmPayment(w, t)
    PROVE  IInv'
<1>1. CASE \E ok \in BOOLEAN : StripeWebhook(w, t, ok)
  <2>1. PICK ok \in BOOLEAN : StripeWebhook(w, t, ok)
    BY <1>1
  <2>2. intent[t] \notin {"none", "created"}
    BY <2>1, RowsKnown DEF StripeWebhook
  <2> QED
    BY <2>1, <2>2, BeginStep DEF StripeWebhook
<1>2. CASE BkashCallback(w, t)
  BY <1>2, BeginStep DEF BkashCallback, Known
<1>3. CASE ConfirmPayment(w, t)
  <2>1. (intent[t] = "captured") \in BOOLEAN
    OBVIOUS
  <2> QED
    BY <1>3, <2>1, BeginStep DEF ConfirmPayment, Known
<1> QED
  BY <1>1, <1>2, <1>3

LEMMA NextInv == IInv /\ [Next]_vars => IInv'
<1> SUFFICES ASSUME IInv, [Next]_vars PROVE IInv'
  OBVIOUS
<1>1. ASSUME NEW w \in Workers, Request(w) PROVE IInv'
  BY <1>1, InitiateStep, ConfirmationStep DEF Request
<1>2. ASSUME NEW w \in Workers, Handle(w) PROVE IInv'
  BY <1>2, CreateIntentStep, CreatePaymentStep, ExecutePaymentStep, EndingStep,
     ReadPendingStep, ReadOrderStep, UpdatePaymentStep, MarkPaidStep,
     ReduceStockStep, ItemsDoneStep, CommitStep DEF Handle
<1>3. ASSUME NEW w \in Workers, Fail(w) \/ DeadlockVictim(w) PROVE IInv'
  BY <1>3, EndingStep
<1>4. ASSUME NEW t \in Txns, Customer(t) PROVE IInv'
  BY <1>4, CustomerStep
<1>5. ASSUME NEW p \in Products, NEW n \in StockInputs, SetStock(p, n) PROVE IInv'
  BY <1>5, SetStockStep
<1>6. CASE UNCHANGED vars
  BY <1>6 DEF vars, IInv, TypeOK, JobOK, At, RowOK, Disjoint, NoOversell,
     SuccessIsBacked
<1> QED
  BY <1>1, <1>2, <1>3, <1>4, <1>5, <1>6 DEF Next

(* The inductive invariant holds of every behaviour. *)
THEOREM Invariance == Spec => []IInv
<1> QED
  BY InitInv, NextInv, PTL DEF Spec

(* Every variable keeps its type. *)
THEOREM TypeCorrect == Spec => []TypeOK
<1>1. IInv => TypeOK
  BY DEF IInv
<1> QED
  BY <1>1, Invariance, PTL

(* Stock never goes negative: reduceStockSafely under row locks, for any   *)
(* number of concurrent confirmations and orders. *)
THEOREM StockSafety == Spec => []NoOversell
<1>1. IInv => NoOversell
  BY DEF IInv
<1> QED
  BY <1>1, Invariance, PTL

(* No order is paid, and no payment successful, without money taken. *)
THEOREM Backing == Spec => []SuccessIsBacked
<1>1. IInv => SuccessIsBacked
  BY DEF IInv
<1> QED
  BY <1>1, Invariance, PTL

(* No customer can act on a transaction the service does not know. *)
THEOREM RowsFirst == Spec => []NoOrphanCapture
<1>1. IInv => NoOrphanCapture
  BY DEF IInv, RowOK, NoOrphanCapture
<1> QED
  BY <1>1, Invariance, PTL

-------------------------------------------------------------------------------
(* finalizePayment implements an atomic settlement. *)

LEMMA CommitSettles ==
    ASSUME IInv, NEW w \in Workers, Commit(w)
    PROVE  Atomic!Settle(job[w].txn) \/ Atomic!Reject(job[w].txn)
<1> DEFINE t == job[w].txn
           o == payOrder[t]
<1>1. /\ t \in Txns /\ o \in Orders /\ payment[t] # "NONE"
      /\ job[w].success \in BOOLEAN
      /\ stock' = [p \in Products |-> stock[p] - job[w].draft[p]]
      /\ payOrder' = payOrder
  BY CommitRows
<1>2. CASE job[w].success
  <2>1. /\ payment' = [payment EXCEPT ![t] = "SUCCESS"]
        /\ orderStatus' = [orderStatus EXCEPT ![o] = "PAID"]
        /\ job[w].draft = Demand[o]
    BY <1>2, CommitRows
  <2>2. \A p \in Products : stock[p] >= Demand[o][p]
    <3>1. ASSUME NEW p \in Products PROVE stock[p] >= Demand[o][p]
      <4>1. job[w].draft[p] <= stock[p] /\ job[w].draft[p] \in Nat /\ stock[p] \in Int
        BY DEF IInv, NoOversell, TypeOK, JobSet
      <4> QED
        BY <2>1, <4>1
    <3> QED
      BY <3>1
  <2>3. Atomic!Settle(t)
    BY <1>1, <2>1, <2>2 DEF Atomic!Settle, Atomic!Covers
  <2> QED
    BY <2>3
<1>3. CASE ~ job[w].success
  <2>1. /\ payment' = [payment EXCEPT ![t] = "FAILED"]
        /\ orderStatus' = orderStatus
        /\ job[w].draft = Nothing
    BY <1>3, CommitRows
  <2>2. stock' = stock
    <3>1. \A p \in Products : stock[p] \in Int /\ stock[p] - Nothing[p] = stock[p]
      BY DEF IInv, TypeOK, Nothing
    <3>2. stock \in [Products -> Int]
      BY DEF IInv, TypeOK
    <3> QED
      BY <1>1, <2>1, <3>1, <3>2
  <2>3. Atomic!Reject(t)
    BY <1>1, <2>1, <2>2 DEF Atomic!Reject
  <2> QED
    BY <2>3
<1> QED
  BY <1>2, <1>3

(* What a step is to someone who sees payments, orders and stock only. *)
LEMMA StepMaps ==
    ASSUME IInv, [Next]_vars
    PROVE  \/ \E w \in Workers : Commit(w)
           \/ \E t \in Txns, o \in Orders : Atomic!Open(t, o)
           \/ Atomic!Administer
           \/ UNCHANGED Atomic!vars
<1>1. ASSUME NEW w \in Workers, Request(w) PROVE UNCHANGED Atomic!vars
  BY <1>1 DEF Request, InitiatePayment, StripeWebhook, BkashCallback,
     ConfirmPayment, Begin, rows, Atomic!vars
<1>2. ASSUME NEW w \in Workers, CreatePayment(w)
      PROVE  \E t \in Txns, o \in Orders : Atomic!Open(t, o)
  <2>1. /\ job[w].txn \in Txns /\ job[w].order \in Orders
        /\ payment[job[w].txn] = "NONE"
        /\ orderStatus[job[w].order] # "NONE"
    BY <1>2 DEF CreatePayment, IInv, TypeOK, JobOK, At
  <2>2. Atomic!Open(job[w].txn, job[w].order)
    BY <1>2, <2>1 DEF CreatePayment, Atomic!Open
  <2> QED
    BY <2>1, <2>2
<1>3. ASSUME NEW w \in Workers, Handle(w), ~ CreatePayment(w), ~ Commit(w)
      PROVE  UNCHANGED Atomic!vars
  BY <1>3 DEF Handle, CreateIntent, ExecutePayment, ExecuteRefused, ReadSettled,
     ReadPending, ReadOrder, UpdatePayment, MarkPaid, MarkPaidRejected,
     ReduceStock, OutOfStock, ItemsDone, rows, Atomic!vars
<1>4. ASSUME NEW w \in Workers, Fail(w) \/ DeadlockVictim(w)
      PROVE  UNCHANGED Atomic!vars
  BY <1>4 DEF Fail, DeadlockVictim, rows, Atomic!vars
<1>5. ASSUME NEW t \in Txns, Customer(t) PROVE UNCHANGED Atomic!vars
  BY <1>5 DEF Customer, Pay, Decline, Approve, rows, Atomic!vars
<1>6. ASSUME NEW p \in Products, NEW n \in StockInputs, SetStock(p, n)
      PROVE  Atomic!Administer
  BY <1>6 DEF SetStock, Atomic!SetStock, Atomic!Administer
<1>7. CASE UNCHANGED vars
  BY <1>7 DEF vars, Atomic!vars
<1> QED
  BY <1>1, <1>2, <1>3, <1>4, <1>5, <1>6, <1>7 DEF Next

LEMMA StepRefines == IInv /\ [Next]_vars => [Atomic!Next]_(Atomic!vars)
<1> SUFFICES ASSUME IInv, [Next]_vars PROVE [Atomic!Next]_(Atomic!vars)
  OBVIOUS
<1>1. ASSUME NEW w \in Workers, Commit(w) PROVE Atomic!Next
  BY <1>1, CommitSettles, CommitRows DEF Atomic!Next
<1> QED
  BY <1>1, StepMaps DEF Atomic!Next

LEMMA InitRefines == Init => Atomic!Init
BY DEF Init, Atomic!Init, Demand

(* Payment, order and stock change together or not at all, whatever fails, *)
(* deadlocks or interleaves. *)
THEOREM Refinement == Spec => AtomicSettlement
<1> QED
  BY InitRefines, StepRefines, Invariance, PTL DEF Spec, Atomic!Spec, AtomicSettlement

-------------------------------------------------------------------------------
(* What was sold.                                                          *)

LEMMA DemandType == ASSUME NEW o \in Orders PROVE Demand[o] \in [Products -> Nat]
<1>1. Len(OrderItems[o]) \in Nat
  BY ItemsAssumption
<1>2. Len(OrderItems[o]) \in 0..Len(OrderItems[o])
  BY <1>1
<1> QED
  BY <1>2, TakenAssumption DEF Demand

LEMMA SoldType ==
    ASSUME NEW p \in Products, IsFiniteSet(Paid)
    PROVE  Sold(p) \in Int
<1> DEFINE f == [o \in Orders |-> Demand[o][p]]
<1>1. \A o \in Paid : f[o] \in Int
  BY DemandType DEF Paid
<1> HIDE DEF f
<1>2. SumFunctionOnSet(f, Paid) \in Int
  BY <1>1, SumInt
<1> QED
  BY <1>2 DEF Sold, f

(* A settlement sells what it takes, or takes it for an order that is      *)
(* already paid. *)
LEMMA SettlePays ==
    ASSUME IInv, NEW t \in Txns, Atomic!Settle(t)
    PROVE  payOrder[t] \in Orders /\ Paid' = Paid \union {payOrder[t]}
<1>1. /\ payOrder[t] \in Orders
      /\ orderStatus' = [orderStatus EXCEPT ![payOrder[t]] = "PAID"]
      /\ orderStatus \in [Orders -> {"PENDING", "PAID"}]
  BY DEF IInv, TypeOK, RowOK, Atomic!Settle
<1> QED
  BY <1>1 DEF Paid

LEMMA SettleSells ==
    ASSUME IInv, IsFiniteSet(Paid), NEW t \in Txns, Atomic!Settle(t), NEW p \in Products
    PROVE  /\ Sold(p)' \in Int
           /\ stock'[p] + Sold(p)' <= stock[p] + Sold(p)
           /\ orderStatus[payOrder[t]] = "PENDING" =>
                  stock'[p] + Sold(p)' = stock[p] + Sold(p)
<1> DEFINE o == payOrder[t]
           f == [q \in Orders |-> Demand[q][p]]
<1>1. o \in Orders /\ Paid' = Paid \union {o}
  BY SettlePays
<1>2. stock'[p] = stock[p] - Demand[o][p]
  BY DEF Atomic!Settle
<1>3. stock[p] \in Int /\ Demand[o][p] \in Nat
  BY <1>1, DemandType DEF IInv, TypeOK
<1>4. IsFiniteSet(Paid')
  BY <1>1, FS_AddElement
<1>5. \A q \in Paid' : f[q] \in Int
  BY DemandType DEF Paid
<1>6. Sold(p) = SumFunctionOnSet(f, Paid) /\ Sold(p)' = SumFunctionOnSet(f, Paid')
  BY DEF Sold
<1>7. Sold(p) \in Int /\ f[o] = Demand[o][p]
  BY <1>1, SoldType
<1> HIDE DEF f
<1>8. Sold(p)' \in Int
  BY <1>4, <1>5, <1>6, SumInt
<1>9. CASE o \in Paid
  <2>1. Sold(p)' = Sold(p) /\ orderStatus[o] = "PAID"
    BY <1>1, <1>6, <1>9 DEF Paid
  <2> QED
    BY <1>2, <1>3, <1>7, <1>8, <2>1
<1>10. CASE o \notin Paid
  <2>1. SumFunctionOnSet(f, Paid \union {o}) = SumFunctionOnSet(f, Paid) + f[o]
    BY <1>1, <1>5, <1>10, SumAdds
  <2>2. Sold(p)' = Sold(p) + Demand[o][p]
    BY <1>1, <1>6, <1>7, <2>1
  <2> QED
    BY <1>2, <1>3, <1>7, <1>8, <2>2
<1> QED
  BY <1>9, <1>10

(* Every other step leaves both alone, while nobody writes the stock. *)
LEMMA KeepsSold ==
    ASSUME StockInputs = {}, IInv, [Next]_vars, ~ \E w \in Workers : Commit(w)
    PROVE  stock' = stock /\ orderStatus' = orderStatus
BY StepMaps DEF Atomic!Open, Atomic!Administer, Atomic!vars

SupplyInv == IInv /\ IsFiniteSet(Paid) /\ SoldWithinSupply

LEMMA SupplyKept ==
    ASSUME SupplyInv, IInv', stock' = stock, orderStatus' = orderStatus
    PROVE  SupplyInv'
<1>1. Paid' = Paid
  BY DEF Paid
<1>2. \A p \in Products : Sold(p)' = Sold(p)
  BY <1>1 DEF Sold
<1> QED
  BY <1>1, <1>2 DEF SupplyInv, SoldWithinSupply

(* No unit is sold twice: whatever overlaps, fails or is repeated, what    *)
(* paid orders take and what is left is never more than there was. *)
THEOREM Supply == StockInputs = {} => (Spec => []SoldWithinSupply)
<1> SUFFICES ASSUME StockInputs = {} PROVE Spec => []SoldWithinSupply
  OBVIOUS
<1>1. Init => SupplyInv
  <2> SUFFICES ASSUME Init PROVE SupplyInv
    OBVIOUS
  <2>1. Paid = {}
    BY DEF Init, Paid
  <2>2. ASSUME NEW p \in Products PROVE stock[p] + Sold(p) <= InitialStock[p]
    <3>1. Sold(p) = 0
      BY <2>1, SumEmpty DEF Sold
    <3> QED
      BY <3>1, StockAssumption DEF Init
  <2> QED
    BY <2>1, <2>2, InitInv, FS_EmptySet DEF SupplyInv, SoldWithinSupply
<1>2. SupplyInv /\ [Next]_vars => SupplyInv'
  <2> SUFFICES ASSUME SupplyInv, [Next]_vars PROVE SupplyInv'
    OBVIOUS
  <2>1. IInv /\ IInv' /\ IsFiniteSet(Paid)
    BY NextInv DEF SupplyInv
  <2>2. CASE \E w \in Workers : Commit(w)
    <3>1. PICK w \in Workers : Commit(w)
      BY <2>2
    <3> DEFINE t == job[w].txn
    <3>2. t \in Txns /\ (Atomic!Settle(t) \/ Atomic!Reject(t))
      BY <2>1, <3>1, CommitRows, CommitSettles
    <3> HIDE DEF t
    <3>3. ASSUME Atomic!Settle(t) PROVE SupplyInv'
      <4>1. ASSUME NEW p \in Products PROVE stock'[p] + Sold(p)' <= InitialStock[p]
        <5>1. /\ Sold(p)' \in Int
              /\ stock'[p] + Sold(p)' <= stock[p] + Sold(p)
          BY <2>1, <3>2, <3>3, SettleSells
        <5>2. /\ stock[p] \in Int /\ stock'[p] \in Int /\ InitialStock[p] \in Int
              /\ Sold(p) \in Int /\ stock[p] + Sold(p) <= InitialStock[p]
          BY <2>1, SoldType, StockAssumption DEF IInv, TypeOK, SupplyInv, SoldWithinSupply
        <5> QED
          BY <5>1, <5>2
      <4>2. IsFiniteSet(Paid')
        BY <2>1, <3>2, <3>3, SettlePays, FS_AddElement
      <4> QED
        BY <2>1, <4>1, <4>2 DEF SupplyInv, SoldWithinSupply
    <3>4. ASSUME Atomic!Reject(t) PROVE SupplyInv'
      BY <2>1, <3>4, SupplyKept DEF Atomic!Reject
    <3> QED
      BY <3>2, <3>3, <3>4
  <2>3. CASE ~ \E w \in Workers : Commit(w)
    BY <2>1, <2>3, KeepsSold, SupplyKept
  <2> QED
    BY <2>2, <2>3
<1>3. SupplyInv => SoldWithinSupply
  BY DEF SupplyInv
<1> QED
  BY <1>1, <1>2, <1>3, PTL DEF Spec

-------------------------------------------------------------------------------
(* Confirmations of one order that do not overlap.                         *)

(* From the read of the payment to the commit. *)
InWindow(w) == job[w].step \in {"include", "update", "order", "items", "commit"}

OnePerOrder ==
    \A v \in Workers : \A w \in Workers \ {v} :
        InWindow(v) /\ InWindow(w) => job[v].order # job[w].order

(* Nothing that finalizePayment has read is out of date. *)
Current(w) ==
    LET j == job[w] IN
    /\ j.step \in {"include", "update", "order", "items", "commit"} =>
           payment[j.txn] = "PENDING"
    /\ j.step \in {"update", "order", "items", "commit"} =>
           j.seen = orderStatus[j.order]
    /\ At(w, "items") \/ (At(w, "commit") /\ j.success) => j.seen = "PENDING"

OnceInv == IInv /\ \A w \in Workers : Current(w)

(* The worker's own steps leave it with what it has read. *)
LEMMA CurrentStep ==
    ASSUME OnceInv, IInv', NEW w \in Workers,
           Request(w) \/ Handle(w) \/ Fail(w) \/ DeadlockVictim(w)
    PROVE  Current(w)'
<1> USE DEF Current, At
<1>0. job \in [Workers -> JobSet] /\ job[w] \in JobSet /\ Current(w)
  BY DEF OnceInv, IInv, TypeOK
<1>1. CASE Finish(w)
  BY <1>0, <1>1 DEF Finish, Become, NoJob
<1>2. CASE Request(w)
  <2>1. PICK s \in {"create", "execute", "read"} : job'[w].step = s
    <3>1. ASSUME NEW s \in {"create", "execute", "read"}, NEW t \in Txns,
                 NEW ok \in BOOLEAN, NEW hook \in BOOLEAN, Begin(w, s, t, ok, hook)
          PROVE  job'[w].step = s
      BY <1>0, <3>1 DEF Begin, Become, NoJob
    <3>2. ASSUME NEW o \in Orders, NEW t \in Txns, InitiatePayment(w, o, t)
          PROVE  job'[w].step = "create"
      BY <1>0, <3>2 DEF InitiatePayment, Become, NoJob
    <3>3. ASSUME NEW t \in Txns, NEW ok \in BOOLEAN, StripeWebhook(w, t, ok)
          PROVE  job'[w].step = "read"
      BY <3>1, <3>3 DEF StripeWebhook
    <3>4. ASSUME NEW t \in Txns, BkashCallback(w, t)
          PROVE  job'[w].step \in {"read", "execute"}
      BY <3>1, <3>4 DEF BkashCallback
    <3>5. ASSUME NEW t \in Txns, ConfirmPayment(w, t)
          PROVE  job'[w].step \in {"read", "execute"}
      <4>1. CASE Provider[t] = "STRIPE"
        <5>1. (intent[t] = "captured") \in BOOLEAN
          OBVIOUS
        <5> QED
          BY <3>1, <3>5, <4>1, <5>1 DEF ConfirmPayment
      <4>2. CASE Provider[t] # "STRIPE"
        BY <3>1, <3>5, <4>2 DEF ConfirmPayment
      <4> QED
        BY <4>1, <4>2
    <3> QED
      BY <1>2, <3>2, <3>3, <3>4, <3>5 DEF Request
  <2> QED
    BY <2>1
<1>3. CASE CreateIntent(w) \/ ExecutePayment(w)
  <2>1. CreateIntent(w) => job'[w].step = "persist"
    BY <1>0 DEF CreateIntent, GoTo, Become, JobSet
  <2>2. ExecutePayment(w) => job'[w].step = "read"
    BY <1>0 DEF ExecutePayment, Become, JobSet
  <2> QED
    BY <1>3, <2>1, <2>2
<1>4. CASE ReadPending(w)
  <2>1. /\ job'[w].step = "include" /\ job'[w].txn = job[w].txn
        /\ payment' = payment
        /\ payment[job[w].txn] \notin {"NONE", "SUCCESS", "FAILED"}
    BY <1>0, <1>4 DEF ReadPending, Become, JobSet, IsTerminal, rows
  <2>2. job[w].txn \in Txns
    BY <1>4 DEF ReadPending, OnceInv, IInv, JobOK
  <2>3. payment[job[w].txn] = "PENDING"
    BY <2>1, <2>2 DEF OnceInv, IInv, TypeOK
  <2> QED
    BY <2>1, <2>3
<1>5. CASE ReadOrder(w)
  <2>1. /\ job[w].step = "include"
        /\ job'[w].step = "update" /\ job'[w].txn = job[w].txn
        /\ job'[w].order = job[w].order
        /\ job'[w].seen = orderStatus[job[w].order]
        /\ payment' = payment /\ orderStatus' = orderStatus
    BY <1>0, <1>5 DEF ReadOrder, Become, JobSet, rows
  <2> QED
    BY <1>0, <2>1
<1>6. CASE UpdatePayment(w) \/ MarkPaid(w) \/ ItemsDone(w)
  <2>1. PICK s \in {"order", "commit", "items"} :
            /\ GoTo(w, s)
            /\ job[w].step = "update" \/ job[w].seen = "PENDING"
            /\ s = "items" => job[w].seen = "PENDING"
            /\ job[w].step = "update" => s = IF job[w].success THEN "order" ELSE "commit"
            /\ job[w].step \in {"update", "order", "items"}
            /\ payment' = payment /\ orderStatus' = orderStatus
    <3>1. UpdatePayment(w) => GoTo(w, IF job[w].success THEN "order" ELSE "commit")
      BY DEF UpdatePayment
    <3>2. CASE UpdatePayment(w) /\ job[w].success
      BY <3>1, <3>2 DEF UpdatePayment, rows
    <3>3. CASE UpdatePayment(w) /\ ~ job[w].success
      BY <3>1, <3>3 DEF UpdatePayment, rows
    <3>4. CASE MarkPaid(w)
      BY <3>4 DEF MarkPaid, rows
    <3>5. CASE ItemsDone(w)
      BY <1>0, <3>5 DEF ItemsDone, rows
    <3> QED
      BY <1>6, <3>2, <3>3, <3>4, <3>5
  <2>2. /\ job'[w].step = s
        /\ job'[w].txn = job[w].txn /\ job'[w].order = job[w].order
        /\ job'[w].seen = job[w].seen /\ job'[w].success = job[w].success
    BY <1>0, <2>1 DEF GoTo, Become, JobSet
  <2> QED
    BY <1>0, <2>1, <2>2
<1>7. CASE ReduceStock(w)
  <2>1. /\ job'[w].step = job[w].step
        /\ job'[w].txn = job[w].txn /\ job'[w].order = job[w].order
        /\ job'[w].seen = job[w].seen /\ job'[w].success = job[w].success
        /\ payment' = payment /\ orderStatus' = orderStatus
    BY <1>0, <1>7 DEF ReduceStock, Become, JobSet, rows
  <2> QED
    BY <1>0, <1>7, <2>1 DEF ReduceStock
<1> QED
  BY <1>1, <1>2, <1>3, <1>4, <1>5, <1>6, <1>7 DEF Handle, CreatePayment,
     ExecuteRefused, ReadSettled, MarkPaidRejected, OutOfStock, Commit, CommitAs, Fail, DeadlockVictim

(* A worker's step changes no other worker's job. *)
LEMMA OwnJob ==
    ASSUME TypeOK, NEW v \in Workers, NEW w \in Workers \ {v},
           Request(v) \/ Handle(v) \/ Fail(v) \/ DeadlockVictim(v)
    PROVE  job'[w] = job[w]
<1>1. ASSUME NEW j, Become(v, j) PROVE job'[w] = job[w]
  BY <1>1 DEF Become, TypeOK
<1>2. CASE Request(v)
  BY <1>1, <1>2 DEF Request, InitiatePayment, StripeWebhook, BkashCallback,
     ConfirmPayment, Begin
<1>3. CASE Handle(v)
  BY <1>1, <1>3 DEF Handle, CreateIntent, CreatePayment, ExecutePayment,
     ExecuteRefused, ReadSettled, ReadPending, ReadOrder, UpdatePayment, MarkPaid,
     MarkPaidRejected, ReduceStock, OutOfStock, ItemsDone, Commit, CommitAs, GoTo, Finish
<1>4. CASE Fail(v) \/ DeadlockVictim(v)
  BY <1>1, <1>4 DEF Fail, DeadlockVictim, Finish
<1> QED
  BY <1>2, <1>3, <1>4

(* Nor what another worker has read, if they do not share the order.       *)
LEMMA CurrentOther ==
    ASSUME OnceInv, OnePerOrder, NEW v \in Workers, NEW w \in Workers \ {v},
           Request(v) \/ Handle(v) \/ Fail(v) \/ DeadlockVictim(v)
    PROVE  Current(w)'
<1>1. /\ TypeOK /\ JobOK(w) /\ Current(w)
      /\ payment \in [Txns -> {"NONE", "PENDING", "SUCCESS", "FAILED"}]
      /\ orderStatus \in [Orders -> {"PENDING", "PAID"}]
  BY DEF OnceInv, IInv, TypeOK
<1>2. job'[w] = job[w]
  BY <1>1, OwnJob
<1>3. CASE UNCHANGED <<payment, orderStatus>>
  BY <1>1, <1>2, <1>3 DEF Current, At
<1>4. CASE CreatePayment(v)
  <2>1. /\ job[v].txn \in Txns /\ payment[job[v].txn] = "NONE"
        /\ payment' = [payment EXCEPT ![job[v].txn] = "PENDING"]
        /\ orderStatus' = orderStatus
    BY <1>4 DEF CreatePayment, OnceInv, IInv, JobOK, At
  <2> QED
    BY <1>1, <1>2, <2>1 DEF Current, At
<1>5. CASE Commit(v)
  <2> DEFINE t == job[v].txn
             o == job[v].order
  <2>1. /\ t \in Txns /\ o = payOrder[t] /\ InWindow(v)
        /\ \A u \in Txns \ {t} : payment'[u] = payment[u]
        /\ \A q \in Orders \ {o} : orderStatus'[q] = orderStatus[q]
    BY <1>1, <1>5 DEF Commit, CommitAs, OnceInv, IInv, JobOK, At, InWindow
  <2> HIDE DEF t, o
  <2>2. ASSUME InWindow(w)
        PROVE  /\ job[w].txn \in Txns \ {t} /\ job[w].order \in Orders \ {o}
    <3>1. job[w].order # o /\ job[w].txn \in Txns /\ job[w].order = payOrder[job[w].txn]
      BY <1>1, <2>1, <2>2 DEF OnePerOrder, o, JobOK, InWindow, At
    <3>2. job[w].order \in Orders
      BY <1>1, <2>2, <3>1 DEF OnceInv, IInv, RowOK, JobOK, InWindow
    <3> QED
      BY <2>1, <3>1, <3>2
  <2>3. InWindow(w) => /\ payment'[job[w].txn] = payment[job[w].txn]
                       /\ orderStatus'[job[w].order] = orderStatus[job[w].order]
    BY <2>1, <2>2
  <2> QED
    BY <1>1, <1>2, <2>3 DEF Current, At, InWindow
<1>6. ASSUME Request(v) \/ Handle(v) \/ Fail(v) \/ DeadlockVictim(v),
             ~ CreatePayment(v), ~ Commit(v)
      PROVE  UNCHANGED <<payment, orderStatus>>
  <2>1. CASE Request(v)
    BY <2>1 DEF Request, InitiatePayment, StripeWebhook, BkashCallback,
       ConfirmPayment, Begin, rows
  <2>2. CASE Handle(v)
    BY <1>6, <2>2 DEF Handle, CreateIntent, ExecutePayment,
       ExecuteRefused, ReadSettled, ReadPending, ReadOrder, UpdatePayment, MarkPaid,
       MarkPaidRejected, ReduceStock, OutOfStock, ItemsDone, rows
  <2>3. CASE Fail(v) \/ DeadlockVictim(v)
    BY <2>3 DEF Fail, DeadlockVictim, rows
  <2> QED
    BY <1>6, <2>1, <2>2, <2>3
<1> QED
  BY <1>3, <1>4, <1>5, <1>6

LEMMA OnceNextInv == OnceInv /\ OnePerOrder /\ [Next]_vars => OnceInv'
<1> SUFFICES ASSUME OnceInv, OnePerOrder, [Next]_vars PROVE OnceInv'
  OBVIOUS
<1>1. IInv'
  BY NextInv DEF OnceInv
<1>2. ASSUME NEW w \in Workers PROVE Current(w)'
  <2>1. ASSUME NEW v \in Workers, Request(v) \/ Handle(v) \/ Fail(v) \/ DeadlockVictim(v)
        PROVE  Current(w)'
    <3>1. CASE v = w
      BY <1>1, <2>1, <3>1, CurrentStep
    <3>2. CASE v # w
      BY <2>1, <3>2, CurrentOther
    <3> QED
      BY <3>1, <3>2
  <2>2. CASE UNCHANGED <<job, payment, orderStatus>>
    BY <2>2 DEF OnceInv, Current, At
  <2>3. ASSUME NEW t \in Txns, Customer(t) PROVE UNCHANGED <<job, payment, orderStatus>>
    BY <2>3 DEF Customer, Pay, Decline, Approve, rows
  <2> QED
    BY <2>1, <2>2, <2>3 DEF Next, SetStock, vars
<1> QED
  BY <1>1, <1>2 DEF OnceInv

LEMMA OnceInvariance == Spec /\ []OnePerOrder => []OnceInv
<1>1. Init => OnceInv
  BY InitInv DEF OnceInv, Current, Init, At, NoJob
<1> QED
  BY <1>1, OnceNextInv, PTL DEF Spec

(* A commit decides an open payment, and pays an open order. *)
LEMMA CommitOnce ==
    ASSUME OnceInv, NEW w \in Workers, Commit(w)
    PROVE  /\ job[w].txn \in Txns
           /\ Atomic!SettleOnce(job[w].txn) \/ Atomic!RejectOnce(job[w].txn)
<1> DEFINE t == job[w].txn
<1>1. IInv
  BY DEF OnceInv
<1>2. /\ At(w, "commit") /\ t \in Txns /\ job[w].success \in BOOLEAN
      /\ payment \in [Txns -> {"NONE", "PENDING", "SUCCESS", "FAILED"}]
      /\ payment'[t] = IF job[w].success THEN "SUCCESS" ELSE "FAILED"
  BY <1>1, CommitRows DEF Commit, CommitAs, IInv, TypeOK
<1>3. payment[t] = "PENDING" /\ job[w].order = payOrder[t]
  BY <1>1, <1>2 DEF OnceInv, Current, IInv, JobOK, At
<1>4. job[w].success => orderStatus[payOrder[t]] = "PENDING"
  BY <1>2, <1>3 DEF OnceInv, Current, At
<1>5. Atomic!Settle(t) => job[w].success
  BY <1>2 DEF Atomic!Settle
<1> QED
  BY <1>1, <1>2, <1>3, <1>4, <1>5, CommitSettles DEF Atomic!SettleOnce, Atomic!RejectOnce

(* As long as no two confirmations of one order overlap between the read   *)
(* of the payment and the commit, each payment is decided once and each    *)
(* order is paid once, whatever else goes on at the same time: that        *)
(* overlap is the only way a confirmation can be applied twice. *)
THEOREM Once == Spec /\ []OnePerOrder => OnceSettlement
<1>1. OnceInv /\ [Next]_vars => [Atomic!OnceNext]_(Atomic!vars)
  <2> SUFFICES ASSUME OnceInv, [Next]_vars PROVE [Atomic!OnceNext]_(Atomic!vars)
    OBVIOUS
  <2>1. IInv
    BY DEF OnceInv
  <2>2. ASSUME NEW w \in Workers, Commit(w) PROVE Atomic!OnceNext
    BY <2>2, CommitOnce DEF Atomic!OnceNext
  <2> QED
    BY <2>1, <2>2, StepMaps DEF Atomic!OnceNext
<1> QED
  BY <1>1, InitRefines, OnceInvariance, PTL DEF Spec, Atomic!OnceSpec, OnceSettlement

OneAtATime == \A v, w \in Workers : v = w

(* Requests that come one at a time do not overlap: a service that handled *)
(* each to its end would decide every payment and pay every order once.    *)
THEOREM OnceInTurn == OneAtATime => (Spec => OnceSettlement)
<1> SUFFICES ASSUME OneAtATime PROVE Spec => OnceSettlement
  OBVIOUS
<1>1. OnePerOrder
  BY DEF OneAtATime, OnePerOrder
<1> QED
  BY <1>1, Once, PTL

(* docs/payment-flows.md: a confirmation that comes again changes nothing, *)
(* as long as it does not overlap another one of the same order and nobody *)
(* writes the stock. *)
THEOREM RepeatChangesNothing ==
    StockInputs = {} => (Spec /\ []OnePerOrder => RepeatIsNoOp)
<1> SUFFICES ASSUME StockInputs = {} PROVE Spec /\ []OnePerOrder => RepeatIsNoOp
  OBVIOUS
<1> DEFINE Harmless ==
        /\ \A t \in Txns : IsTerminal(payment[t]) => payment'[t] = payment[t]
        /\ (\E p \in Products : stock'[p] < stock[p]) =>
               \E o \in Orders : orderStatus[o] = "PENDING" /\ orderStatus'[o] = "PAID"
<1>1. OnceInv /\ [Next]_vars => [Harmless]_vars
  <2> SUFFICES ASSUME OnceInv, [Next]_vars PROVE Harmless
    OBVIOUS
  <2>1. /\ IInv /\ payment \in [Txns -> {"NONE", "PENDING", "SUCCESS", "FAILED"}]
        /\ orderStatus \in [Orders -> {"PENDING", "PAID"}]
        /\ \A p \in Products : stock[p] \in Int
    BY DEF OnceInv, IInv, TypeOK
  <2>2. ASSUME NEW t \in Txns, Atomic!SettleOnce(t) PROVE Harmless
    <3>1. payOrder[t] \in Orders
      BY <2>1, <2>2 DEF Atomic!SettleOnce, IInv, RowOK
    <3> QED
      BY <2>1, <2>2, <3>1 DEF Atomic!SettleOnce, Atomic!Settle, IsTerminal
  <2>3. ASSUME NEW t \in Txns, Atomic!RejectOnce(t) PROVE Harmless
    BY <2>1, <2>3 DEF Atomic!RejectOnce, Atomic!Reject, IsTerminal
  <2>4. ASSUME NEW t \in Txns, NEW o \in Orders, Atomic!Open(t, o) PROVE Harmless
    BY <2>1, <2>4 DEF Atomic!Open, IsTerminal
  <2>5. CASE UNCHANGED Atomic!vars
    BY <2>1, <2>5 DEF Atomic!vars
  <2>6. ~ Atomic!Administer
    BY DEF Atomic!Administer
  <2> QED
    BY <2>1, <2>2, <2>3, <2>4, <2>5, <2>6, StepMaps, CommitOnce
<1> QED
  BY <1>1, OnceInvariance, PTL DEF Spec, RepeatIsNoOp

(* What was there at the start is sold or still there, to the unit.        *)
SoldIsGone == \A p \in Products : stock[p] + Sold(p) = InitialStock[p]

LedgerInv == OnceInv /\ IsFiniteSet(Paid) /\ SoldIsGone

(* No unit is taken for nothing either: without overlap, what has left the *)
(* stock is exactly what the paid orders take. *)
THEOREM Ledger == StockInputs = {} => (Spec /\ []OnePerOrder => []SoldIsGone)
<1> SUFFICES ASSUME StockInputs = {} PROVE Spec /\ []OnePerOrder => []SoldIsGone
  OBVIOUS
<1>1. Init => LedgerInv
  <2> SUFFICES ASSUME Init PROVE LedgerInv
    OBVIOUS
  <2>1. Paid = {}
    BY DEF Init, Paid
  <2>2. ASSUME NEW p \in Products PROVE stock[p] + Sold(p) = InitialStock[p]
    <3>1. Sold(p) = 0
      BY <2>1, SumEmpty DEF Sold
    <3> QED
      BY <3>1, StockAssumption DEF Init
  <2>3. OnceInv
    BY InitInv DEF OnceInv, Current, Init, At, NoJob
  <2> QED
    BY <2>1, <2>2, <2>3, FS_EmptySet DEF LedgerInv, SoldIsGone
<1>2. LedgerInv /\ OnePerOrder /\ [Next]_vars => LedgerInv'
  <2> SUFFICES ASSUME LedgerInv, OnePerOrder, [Next]_vars PROVE LedgerInv'
    OBVIOUS
  <2>1. OnceInv /\ OnceInv' /\ IInv /\ IsFiniteSet(Paid)
    BY OnceNextInv DEF LedgerInv, OnceInv
  <2>2. ASSUME NEW t \in Txns, Atomic!SettleOnce(t) PROVE LedgerInv'
    <3>1. Atomic!Settle(t) /\ orderStatus[payOrder[t]] = "PENDING"
      BY <2>2 DEF Atomic!SettleOnce
    <3>2. ASSUME NEW p \in Products PROVE stock'[p] + Sold(p)' = InitialStock[p]
      BY <2>1, <3>1, SettleSells DEF LedgerInv, SoldIsGone
    <3>3. IsFiniteSet(Paid')
      BY <2>1, <3>1, SettlePays, FS_AddElement
    <3> QED
      BY <2>1, <3>2, <3>3 DEF LedgerInv, SoldIsGone
  <2>3. ASSUME stock' = stock, orderStatus' = orderStatus PROVE LedgerInv'
    <3>1. Paid' = Paid
      BY <2>3 DEF Paid
    <3>2. \A p \in Products : Sold(p)' = Sold(p)
      BY <3>1 DEF Sold
    <3> QED
      BY <2>1, <2>3, <3>1, <3>2 DEF LedgerInv, SoldIsGone
  <2>4. ASSUME NEW w \in Workers, Commit(w) PROVE LedgerInv'
    <3>1. job[w].txn \in Txns
          /\ (Atomic!SettleOnce(job[w].txn) \/ Atomic!RejectOnce(job[w].txn))
      BY <2>1, <2>4, CommitOnce
    <3>2. Atomic!RejectOnce(job[w].txn) => stock' = stock /\ orderStatus' = orderStatus
      BY DEF Atomic!RejectOnce, Atomic!Reject
    <3> QED
      BY <2>2, <2>3, <3>1, <3>2
  <2> QED
    BY <2>1, <2>3, <2>4, KeepsSold
<1>3. LedgerInv => SoldIsGone
  BY DEF LedgerInv
<1> QED
  BY <1>1, <1>2, <1>3, OnceInvariance, PTL DEF Spec

-------------------------------------------------------------------------------
(* What an acknowledgement is worth.                                       *)

(* A request that goes on to call its transaction unpaid has been counted. *)
Counted(w) ==
    job[w].step \notin {"idle", "create", "persist", "execute"} /\ ~ job[w].success
        => job[w].txn \in denied

AckInv ==
    /\ IInv
    /\ \A t \in Txns : payment[t] = "FAILED" => t \in denied
    /\ \A w \in Workers : Counted(w)
    /\ UndeniedIsApplied

(* Steps that change one job, and acknowledge nothing new.                 *)
LEMMA AckQuiet ==
    ASSUME AckInv, IInv', NEW w \in Workers, NEW j \in JobSet, Become(w, j),
           acked' = acked, denied \subseteq denied',
           \A t \in Txns : \/ payment'[t] = payment[t]
                           \/ (payment'[t] = "PENDING" /\ payment[t] = "NONE"),
           j.step \notin {"idle", "create", "persist", "execute"} /\ ~ j.success
               => j.txn \in denied'
    PROVE  AckInv'
<1>1. /\ job'[w] = j
      /\ \A v \in Workers \ {w} : job'[v] = job[v]
  BY BecomeJob DEF AckInv, IInv
<1>2. ASSUME NEW v \in Workers PROVE Counted(v)'
  BY <1>1 DEF AckInv, Counted
<1>3. UndeniedIsApplied'
  BY DEF AckInv, UndeniedIsApplied
<1>4. \A t \in Txns : payment'[t] = "FAILED" => t \in denied'
  BY DEF AckInv
<1> QED
  BY <1>2, <1>3, <1>4 DEF AckInv

LEMMA AckFinish ==
    ASSUME AckInv, IInv', NEW w \in Workers, Finish(w),
           UNCHANGED <<acked, denied, payment>>
    PROVE  AckInv'
BY NoJobType, AckQuiet DEF Finish, NoJob

LEMMA AckRequest ==
    ASSUME AckInv, IInv', NEW w \in Workers, Request(w)
    PROVE  AckInv'
<1>1. CASE \E o \in Orders, t \in Txns : InitiatePayment(w, o, t)
  <2>1. PICK o \in Orders, t \in Txns : InitiatePayment(w, o, t)
    BY <1>1
  <2> DEFINE j == [NoJob EXCEPT !.step = "create", !.txn = t, !.order = o]
  <2>2. j \in JobSet /\ j.step = "create"
    BY NoJobType DEF NoJob, JobSet
  <2>3. Become(w, j) /\ UNCHANGED <<acked, denied, payment>>
    BY <2>1 DEF InitiatePayment, rows
  <2> HIDE DEF j
  <2> QED
    BY <2>2, <2>3, AckQuiet
<1>2. ASSUME NEW t \in Txns, NEW s \in {"read", "execute"}, NEW ok \in BOOLEAN,
             NEW hook \in BOOLEAN, Begin(w, s, t, ok, hook)
      PROVE  AckInv'
  <2> DEFINE j == [NoJob EXCEPT !.step = s, !.txn = t, !.success = ok, !.hook = hook]
  <2>1. j \in JobSet /\ j.step = s /\ j.txn = t /\ j.success = ok
    BY NoJobType DEF NoJob, JobSet
  <2>2. Become(w, j) /\ UNCHANGED <<acked, payment>>
    BY <1>2 DEF Begin, rows
  <2>3. denied \subseteq denied' /\ (s = "read" /\ ~ ok => t \in denied')
    BY <1>2 DEF Begin, DeniedIf
  <2> HIDE DEF j
  <2> QED
    BY <2>1, <2>2, <2>3, AckQuiet
<1>3. ASSUME NEW t \in Txns, NEW ok \in BOOLEAN, StripeWebhook(w, t, ok) PROVE AckInv'
  BY <1>2, <1>3 DEF StripeWebhook
<1>4. ASSUME NEW t \in Txns, BkashCallback(w, t) PROVE AckInv'
  BY <1>2, <1>4 DEF BkashCallback
<1>5. ASSUME NEW t \in Txns, ConfirmPayment(w, t) PROVE AckInv'
  <2>1. (intent[t] = "captured") \in BOOLEAN
    OBVIOUS
  <2> QED
    BY <1>2, <1>5, <2>1 DEF ConfirmPayment
<1> QED
  BY <1>1, <1>3, <1>4, <1>5 DEF Request

(* The acknowledged event is in force when it is acknowledged.             *)
LEMMA AckReadSettled ==
    ASSUME AckInv, IInv', NEW w \in Workers, ReadSettled(w)
    PROVE  AckInv'
<1>1. job[w].txn \in Txns
  BY DEF ReadSettled, AckInv, IInv, JobOK, At
<1>2. UNCHANGED <<denied, payment>> /\ Finish(w)
  BY DEF ReadSettled, rows
<1>3. CASE acked' = acked
  BY <1>2, <1>3, AckFinish
<1>4. CASE acked' # acked
  <2>1. /\ acked' = acked \union {<<job[w].txn, job[w].success>>}
        /\ payment[job[w].txn] \in {"SUCCESS", "FAILED"}
    BY <1>4 DEF ReadSettled, Acknowledge, IsTerminal
  <2>2. job[w].txn \notin denied => payment[job[w].txn] = "SUCCESS"
    BY <1>1, <2>1 DEF AckInv
  <2>3. job'[w] = NoJob /\ \A v \in Workers \ {w} : job'[v] = job[v]
    BY <1>2, NoJobType, BecomeJob DEF Finish, AckInv, IInv
  <2>4. \A v \in Workers : Counted(v)'
    BY <1>2, <2>3 DEF AckInv, Counted, NoJob
  <2>5. UndeniedIsApplied'
    BY <1>2, <2>1, <2>2 DEF AckInv, UndeniedIsApplied
  <2> QED
    BY <1>2, <2>4, <2>5 DEF AckInv
<1> QED
  BY <1>3, <1>4

LEMMA AckCommit ==
    ASSUME AckInv, IInv', NEW w \in Workers, Commit(w)
    PROVE  AckInv'
<1> DEFINE t == job[w].txn
<1>1. /\ t \in Txns /\ job[w].success \in BOOLEAN /\ UNCHANGED denied
      /\ payment' = [payment EXCEPT ![t] = IF job[w].success THEN "SUCCESS" ELSE "FAILED"]
      /\ payment \in [Txns -> {"NONE", "PENDING", "SUCCESS", "FAILED"}]
  BY CommitRows DEF AckInv, IInv, TypeOK
<1>2. ~ job[w].success => t \in denied
  BY DEF AckInv, Counted, Commit, CommitAs, At
<1>3. job'[w] = NoJob /\ \A v \in Workers \ {w} : job'[v] = job[v]
  BY NoJobType, BecomeJob DEF Commit, CommitAs, Finish, AckInv, IInv
<1>4. acked' \subseteq acked \union {<<t, job[w].success>>}
  BY DEF Commit, CommitAs, Acknowledge
<1>5. \A v \in Workers : Counted(v)'
  BY <1>1, <1>3 DEF AckInv, Counted, NoJob
<1> HIDE DEF t
<1>6. \A u \in Txns : payment'[u] = "FAILED" => u \in denied'
  BY <1>1, <1>2 DEF AckInv
<1>7. ASSUME NEW u \in Txns \ denied, <<u, TRUE>> \in acked'
      PROVE  payment'[u] = "SUCCESS"
  <2>1. CASE u = t
    BY <1>1, <1>2, <2>1
  <2>2. CASE u # t
    <3>1. <<u, TRUE>> \in acked
      BY <1>4, <1>7, <2>2
    <3>2. payment[u] = "SUCCESS"
      BY <3>1 DEF AckInv, UndeniedIsApplied
    <3> QED
      BY <1>1, <2>2, <3>2
  <2> QED
    BY <2>1, <2>2
<1>8. UndeniedIsApplied'
  BY <1>1, <1>7 DEF UndeniedIsApplied
<1> QED
  BY <1>5, <1>6, <1>8 DEF AckInv

(* What the request has decided does not change on the way to the commit.  *)
LEMMA AckHandle ==
    ASSUME AckInv, IInv', NEW w \in Workers, Handle(w)
    PROVE  AckInv'
<1>1. job[w] \in JobSet /\ Counted(w)
  BY DEF AckInv, IInv, TypeOK
<1>2. ASSUME NEW s \in {"persist", "order", "commit", "items"}, GoTo(w, s),
             UNCHANGED <<acked, denied, payment>>,
             s # "persist" =>
                 job[w].step \notin {"idle", "create", "persist", "execute"}
      PROVE  AckInv'
  <2> DEFINE j == [job[w] EXCEPT !.step = s]
  <2>1. /\ j \in JobSet /\ j.step = s /\ j.txn = job[w].txn
        /\ j.success = job[w].success
    BY <1>1 DEF JobSet
  <2>2. Become(w, j)
    BY <1>2 DEF GoTo
  <2> HIDE DEF j
  <2> QED
    BY <1>1, <1>2, <2>1, <2>2, AckQuiet DEF Counted
<1>3. ASSUME NEW j \in JobSet, Become(w, j), UNCHANGED <<acked, denied, payment>>,
             j.txn = job[w].txn, j.success = job[w].success,
             job[w].step \notin {"idle", "create", "persist", "execute"}
      PROVE  AckInv'
  BY <1>1, <1>3, AckQuiet DEF Counted
<1>4. CASE CreateIntent(w)
  BY <1>2, <1>4 DEF CreateIntent, rows
<1>5. CASE CreatePayment(w)
  <2>1. /\ payment' = [payment EXCEPT ![job[w].txn] = "PENDING"]
        /\ payment[job[w].txn] = "NONE" /\ job[w].txn \in Txns
        /\ UNCHANGED <<acked, denied>> /\ Become(w, NoJob)
        /\ payment \in [Txns -> {"NONE", "PENDING", "SUCCESS", "FAILED"}]
    BY <1>5 DEF CreatePayment, Finish, AckInv, IInv, TypeOK, JobOK, At
  <2> QED
    BY <2>1, NoJobType, AckQuiet DEF NoJob
<1>6. CASE ExecutePayment(w)
  <2> DEFINE ok == intent[job[w].txn] \in {"approved", "captured"}
             j == [job[w] EXCEPT !.step = "read", !.success = ok]
  <2>0. ok \in BOOLEAN
    OBVIOUS
  <2>1. Become(w, j) /\ UNCHANGED <<acked, payment>>
    BY <1>6 DEF ExecutePayment, rows
  <2>2. denied \subseteq denied' /\ (~ ok => job[w].txn \in denied')
    BY <1>6 DEF ExecutePayment, DeniedIf
  <2> HIDE DEF ok
  <2>3. j \in JobSet /\ j.txn = job[w].txn /\ j.success = ok
    BY <1>1, <2>0 DEF JobSet
  <2> HIDE DEF j
  <2> QED
    BY <2>1, <2>2, <2>3, AckQuiet
<1>7. CASE ExecuteRefused(w) \/ MarkPaidRejected(w) \/ OutOfStock(w)
  BY <1>7, AckFinish DEF ExecuteRefused, MarkPaidRejected, OutOfStock, rows
<1>8. CASE ReadPending(w)
  <2> DEFINE j == [job[w] EXCEPT !.step = "include", !.order = payOrder[job[w].txn]]
  <2>1. job[w].txn \in Txns /\ payOrder[job[w].txn] \in Orders
    BY <1>8 DEF ReadPending, AckInv, IInv, JobOK, RowOK, At
  <2>2. j \in JobSet /\ j.txn = job[w].txn /\ j.success = job[w].success
    BY <1>1, <2>1 DEF JobSet
  <2>3. /\ Become(w, j) /\ UNCHANGED <<acked, denied, payment>>
        /\ job[w].step = "read"
    BY <1>8 DEF ReadPending, At, rows
  <2> HIDE DEF j
  <2> QED
    BY <1>3, <2>2, <2>3
<1>9. CASE ReadOrder(w)
  <2> DEFINE j == [job[w] EXCEPT !.step = "update", !.seen = orderStatus[job[w].order]]
  <2>1. orderStatus[job[w].order] \in {"PENDING", "PAID"}
    BY <1>9 DEF ReadOrder, AckInv, IInv, JobOK, RowOK, TypeOK, At
  <2>2. j \in JobSet /\ j.txn = job[w].txn /\ j.success = job[w].success
    BY <1>1, <2>1 DEF JobSet
  <2>3. /\ Become(w, j) /\ UNCHANGED <<acked, denied, payment>>
        /\ job[w].step = "include"
    BY <1>9 DEF ReadOrder, At, rows
  <2> HIDE DEF j
  <2> QED
    BY <1>3, <2>2, <2>3
<1>10. CASE UpdatePayment(w)
  <2>1. \E s \in {"order", "commit"} : GoTo(w, s)
    BY <1>10 DEF UpdatePayment
  <2> QED
    BY <1>2, <1>10, <2>1 DEF UpdatePayment, At, rows
<1>11. CASE MarkPaid(w) \/ ItemsDone(w)
  BY <1>2, <1>11 DEF MarkPaid, ItemsDone, At, rows
<1>12. CASE ReduceStock(w)
  <2>1. /\ job'[w].txn = job[w].txn /\ job'[w].success = job[w].success
        /\ Become(w, job'[w]) /\ job'[w] \in JobSet
    BY <1>1, <1>12 DEF ReduceStock, Become, AckInv, IInv, TypeOK, JobSet
  <2>2. UNCHANGED <<acked, denied, payment>> /\ job[w].step = "items"
    BY <1>12 DEF ReduceStock, At, rows
  <2> QED
    BY <1>3, <2>1, <2>2
<1> QED
  BY <1>4, <1>5, <1>6, <1>7, <1>8, <1>9, <1>10, <1>11, <1>12, AckReadSettled, AckCommit
  DEF Handle

(* However deliveries, polls, callbacks and declined cards overlap, repeat *)
(* and fail, a success event that has been answered is applied unless a    *)
(* request has called its transaction unpaid. *)
THEOREM AnsweredIsApplied == Spec => []UndeniedIsApplied
<1>1. Init => AckInv
  BY InitInv DEF Init, AckInv, Counted, NoJob, UndeniedIsApplied
<1>2. AckInv /\ [Next]_vars => AckInv'
  <2> SUFFICES ASSUME AckInv, [Next]_vars PROVE AckInv'
    OBVIOUS
  <2>1. IInv'
    BY NextInv DEF AckInv
  <2>2. ASSUME NEW w \in Workers, Fail(w) \/ DeadlockVictim(w) PROVE AckInv'
    BY <2>1, <2>2, AckFinish DEF Fail, DeadlockVictim, rows
  <2>3. ASSUME UNCHANGED <<job, payment, acked, denied>> PROVE AckInv'
    BY <2>1, <2>3 DEF AckInv, Counted, UndeniedIsApplied
  <2>4. ASSUME NEW t \in Txns, Customer(t) PROVE AckInv'
    BY <2>3, <2>4 DEF Customer, Pay, Decline, Approve, rows
  <2>5. ASSUME NEW p \in Products, NEW n \in StockInputs, SetStock(p, n) PROVE AckInv'
    BY <2>3, <2>5 DEF SetStock
  <2> QED
    BY <2>1, <2>2, <2>3, <2>4, <2>5, AckRequest, AckHandle DEF Next, vars
<1>3. AckInv => UndeniedIsApplied
  BY DEF AckInv
<1> QED
  BY <1>1, <1>2, <1>3, PTL DEF Spec
===============================================================================
