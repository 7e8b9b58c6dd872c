------------------------------- MODULE MoneyProofs -------------------------------
(***************************************************************************)
(* Sums and rounding, for every Grain, Err and any number of summands.     *)
(***************************************************************************)
EXTENDS Money, SetLemmas

-------------------------------------------------------------------------------
(* Running sums.                                                           *)

(* f is the running sum of q as far as n. *)
SumsUpTo(f, q, n) == f = [i \in 0..n |-> IF i = 0 THEN 0 ELSE f[i-1] + q[i]]

LEMMA SumsValue ==
    ASSUME NEW q, NEW n \in Nat, NEW f, SumsUpTo(f, q, n)
    PROVE  f[0] = 0 /\ \A i \in 1..n : f[i] = f[i-1] + q[i]
<1>1. ASSUME NEW i \in 0..n PROVE f[i] = IF i = 0 THEN 0 ELSE f[i-1] + q[i]
  <2>. DEFINE g == [k \in 0..n |-> IF k = 0 THEN 0 ELSE f[k-1] + q[k]]
  <2>1. f = g
    BY DEF SumsUpTo
  <2>2. g[i] = IF i = 0 THEN 0 ELSE f[i-1] + q[i]
    OBVIOUS
  <2>. QED
    BY <2>1, <2>2
<1>. QED
  BY <1>1

LEMMA SumsExist ==
    ASSUME NEW q
    PROVE  \A n \in Nat : \E f : SumsUpTo(f, q, n)
<1>. DEFINE S == {n \in Nat : \E f : SumsUpTo(f, q, n)}
<1>1. 0 \in S
  <2>1. SumsUpTo([i \in 0..0 |-> 0], q, 0)
    BY DEF SumsUpTo
  <2>. QED
    BY <2>1
<1>2. ASSUME NEW n \in S PROVE n + 1 \in S
  <2>1. PICK f : SumsUpTo(f, q, n)
    BY <1>2
  <2>. DEFINE g == [i \in 0..n+1 |-> IF i = n + 1 THEN f[n] + q[n+1] ELSE f[i]]
  <2>2. ASSUME NEW i \in 0..n+1 PROVE g[i] = IF i = 0 THEN 0 ELSE g[i-1] + q[i]
    <3>1. CASE i = n + 1
      BY <3>1
    <3>2. CASE i \in 1..n
      BY <2>1, <3>2, SumsValue
    <3>3. CASE i = 0
      BY <2>1, <3>3, SumsValue
    <3>. QED
      BY <3>1, <3>2, <3>3
  <2>3. SumsUpTo(g, q, n+1)
    BY <2>2 DEF SumsUpTo
  <2>. QED
    BY <2>3
<1>3. S = Nat
  <2>. HIDE DEF S
  <2>1. S \in SUBSET Nat
    BY DEF S
  <2>. QED
    BY <1>1, <1>2, <2>1, SetInduction
<1>. QED
  BY <1>3

LEMMA SumsUnique ==
    ASSUME NEW q, NEW n \in Nat, NEW m \in Nat, NEW f, NEW g,
           SumsUpTo(f, q, n), SumsUpTo(g, q, m)
    PROVE  \A i \in Nat : i <= n /\ i <= m => f[i] = g[i]
<1>. DEFINE S == {i \in Nat : i <= n /\ i <= m => f[i] = g[i]}
<1>1. 0 \in S
  BY SumsValue
<1>2. ASSUME NEW i \in S PROVE i + 1 \in S
  <2>1. SUFFICES ASSUME i + 1 <= n, i + 1 <= m PROVE f[i+1] = g[i+1]
    OBVIOUS
  <2>2. i + 1 \in 1..n /\ i + 1 \in 1..m /\ (i + 1) - 1 = i
    BY <2>1
  <2>3. f[i+1] = f[i] + q[i+1] /\ g[i+1] = g[i] + q[i+1]
    BY <2>2, SumsValue
  <2>. QED
    BY <2>1, <2>3
<1>3. S = Nat
  <2>. HIDE DEF S
  <2>1. S \in SUBSET Nat
    BY DEF S
  <2>. QED
    BY <1>1, <1>2, <2>1, SetInduction
<1>. QED
  BY <1>3

LEMMA SumUpToDefined ==
    ASSUME NEW q
    PROVE  SumUpTo(q) = [n \in Nat |-> IF n = 0 THEN 0 ELSE SumUpTo(q)[n-1] + q[n]]
<1>. DEFINE Upto(n) == CHOOSE f : SumsUpTo(f, q, n)
            h == [n \in Nat |-> Upto(n)[n]]
<1>1. \A n \in Nat : SumsUpTo(Upto(n), q, n)
  BY SumsExist
<1>2. ASSUME NEW n \in Nat PROVE h[n] = IF n = 0 THEN 0 ELSE h[n-1] + q[n]
  <2>1. CASE n = 0
    BY <1>1, <2>1, SumsValue
  <2>2. CASE n # 0
    <3>1. n - 1 \in Nat /\ n \in 1..n /\ n - 1 <= n
      BY <2>2
    <3>2. SumsUpTo(Upto(n), q, n) /\ SumsUpTo(Upto(n-1), q, n-1)
      BY <1>1, <3>1
    <3>3. Upto(n)[n] = Upto(n)[n-1] + q[n]
      <4>. HIDE DEF Upto
      <4>. QED
        BY <3>1, <3>2, SumsValue
    <3>4. Upto(n)[n-1] = Upto(n-1)[n-1]
      <4>. HIDE DEF Upto
      <4>. QED
        BY <3>1, <3>2, SumsUnique
    <3>. HIDE DEF Upto
    <3>. QED
      BY <2>2, <3>1, <3>3, <3>4
  <2>. QED
    BY <2>1, <2>2
<1>. HIDE DEF Upto
<1>3. h = [n \in Nat |-> IF n = 0 THEN 0 ELSE h[n-1] + q[n]]
  BY <1>2
<1>. HIDE DEF h
<1>. QED
  BY <1>3 DEF SumUpTo

LEMMA SumValue ==
    ASSUME NEW q
    PROVE  /\ SumUpTo(q)[0] = 0
           /\ \A n \in Nat : SumUpTo(q)[n+1] = SumUpTo(q)[n] + q[n+1]
<1>. DEFINE sum == SumUpTo(q)
            g == [n \in Nat |-> IF n = 0 THEN 0 ELSE sum[n-1] + q[n]]
<1>1. sum = g
  BY SumUpToDefined
<1>2. g[0] = 0 /\ \A n \in Nat : g[n+1] = sum[n] + q[n+1]
  <2>. HIDE DEF sum
  <2>. QED
    OBVIOUS
<1>. HIDE DEF g
<1>. QED
  BY <1>1, <1>2

LEMMA SumType ==
    ASSUME NEW q, NEW N \in Nat, \A i \in 1..N : q[i] \in Int
    PROVE  \A n \in 0..N : SumUpTo(q)[n] \in Int
<1>. DEFINE sum == SumUpTo(q)
            S == {n \in Nat : n <= N => sum[n] \in Int}
<1>1. sum[0] = 0 /\ \A n \in Nat : sum[n+1] = sum[n] + q[n+1]
  BY SumValue
<1>. HIDE DEF sum
<1>2. 0 \in S /\ \A n \in S : n + 1 \in S
  BY <1>1
<1>3. S = Nat
  <2>. HIDE DEF S
  <2>1. S \in SUBSET Nat
    BY DEF S
  <2>. QED
    BY <1>2, <2>1, SetInduction
<1>. QED
  BY <1>3 DEF sum

LEMMA SumNat ==
    ASSUME NEW q, NEW N \in Nat, \A i \in 1..N : q[i] \in Nat
    PROVE  \A n \in 0..N : SumUpTo(q)[n] \in Nat
<1>. DEFINE sum == SumUpTo(q)
            S == {n \in Nat : n <= N => sum[n] \in Nat}
<1>1. sum[0] = 0 /\ \A n \in Nat : sum[n+1] = sum[n] + q[n+1]
  BY SumValue
<1>. HIDE DEF sum
<1>2. 0 \in S /\ \A n \in S : n + 1 \in S
  BY <1>1
<1>3. S = Nat
  <2>. HIDE DEF S
  <2>1. S \in SUBSET Nat
    BY DEF S
  <2>. QED
    BY <1>2, <2>1, SetInduction
<1>. QED
  BY <1>3 DEF sum

(* Summands that are the same have sums that are the same. *)
LEMMA SumSame ==
    ASSUME NEW q, NEW r, NEW N \in Nat, \A i \in 1..N : q[i] = r[i]
    PROVE  \A n \in 0..N : SumUpTo(q)[n] = SumUpTo(r)[n]
<1>. DEFINE sq == SumUpTo(q)
            sr == SumUpTo(r)
            S == {n \in Nat : n <= N => sq[n] = sr[n]}
<1>1. /\ sq[0] = 0 /\ \A n \in Nat : sq[n+1] = sq[n] + q[n+1]
      /\ sr[0] = 0 /\ \A n \in Nat : sr[n+1] = sr[n] + r[n+1]
  BY SumValue
<1>. HIDE DEF sq, sr
<1>2. 0 \in S /\ \A n \in S : n + 1 \in S
  BY <1>1
<1>3. S = Nat
  <2>. HIDE DEF S
  <2>1. S \in SUBSET Nat
    BY DEF S
  <2>. QED
    BY <1>2, <2>1, SetInduction
<1>. QED
  BY <1>3 DEF sq, sr

(* The errors of the summands add up.                                      *)
LEMMA SumOfDoubles ==
    ASSUME NEW q, NEW r, NEW N \in Nat, NEW c \in Int,
           \A i \in 1..N : q[i] \in Int /\ r[i] = q[i] * Grain + c
    PROVE  \A n \in 0..N : SumUpTo(r)[n] = SumUpTo(q)[n] * Grain + n * c
<1>. DEFINE sq == SumUpTo(q)
            sr == SumUpTo(r)
            S == {n \in Nat : n <= N => sr[n] = sq[n] * Grain + n * c}
<1>1. /\ sq[0] = 0 /\ \A n \in Nat : sq[n+1] = sq[n] + q[n+1]
      /\ sr[0] = 0 /\ \A n \in Nat : sr[n+1] = sr[n] + r[n+1]
  BY SumValue
<1>2. \A n \in 0..N : sq[n] \in Int
  BY SumType
<1>. HIDE DEF sq, sr
<1>3. Grain \in Int
  BY RoundingAssumption
<1>4. 0 \in S
  BY <1>1, <1>3
<1>5. ASSUME NEW n \in S PROVE n + 1 \in S
  <2>1. SUFFICES ASSUME n + 1 <= N PROVE sr[n+1] = sq[n+1] * Grain + (n+1) * c
    OBVIOUS
  <2>2. PICK a \in Int, b \in Int : a = sq[n] /\ b = q[n+1]
    BY <1>2, <2>1
  <2>3. sr[n+1] = (a * Grain + n * c) + (b * Grain + c) /\ sq[n+1] = a + b
    BY <1>1, <2>1, <2>2
  <2>4. (a * Grain + n * c) + (b * Grain + c) = (a + b) * Grain + (n+1) * c
    BY <1>3
  <2>. QED
    BY <2>3, <2>4
<1>6. S = Nat
  <2>. HIDE DEF S
  <2>1. S \in SUBSET Nat
    BY DEF S
  <2>. QED
    BY <1>4, <1>5, <2>1, SetInduction
<1>. QED
  BY <1>6 DEF sq, sr

-------------------------------------------------------------------------------
(* Rounding.                                                               *)

(* Math.round undoes an error below half a cent.                           *)
LEMMA MathRoundExact ==
    ASSUME NEW x \in Int, NEW d \in Int, 2 * d < Grain, -(2 * d) < Grain
    PROVE  MathRound(x * Grain + d) = x
<1>1. Grain \in Int /\ Grain > 0
  BY RoundingAssumption
<1>2. PICK r \in Int : r = 2 * d + Grain
  BY <1>1
<1>3. 0 <= r /\ r < 2 * Grain
  BY <1>1, <1>2
<1>4. 2 * (x * Grain + d) + Grain = x * (2 * Grain) + r
  BY <1>1, <1>2
<1>5. (x * (2 * Grain) + r) \div (2 * Grain) = x
  <2>1. PICK m \in Int : m = 2 * Grain
    BY <1>1
  <2>2. PICK g \in Int : g = x * m + r
    BY <1>2, <2>1
  <2>3. (g \div m) \in Int /\ m * (g \div m) <= g /\ g < m * (g \div m) + m
    BY <1>1, <2>1, <2>2
  <2>4. g \div m = x
    BY <1>1, <1>3, <2>1, <2>2, <2>3
  <2>. QED
    BY <2>1, <2>2, <2>4
<1>. QED
  BY <1>4, <1>5 DEF MathRound

(* A multiple of one error, in either direction. *)
LEMMA ErrorBound ==
    ASSUME NEW k \in Nat, NEW e \in Errors, 2 * k * Err < Grain
    PROVE  k * e \in Int /\ 2 * (k * e) < Grain /\ -(2 * (k * e)) < Grain
<1>1. Err \in Nat /\ Grain \in Nat /\ e \in Int /\ -Err <= e /\ e <= Err
  BY RoundingAssumption DEF Errors
<1>2. PICK x \in Nat : x = Err - e
  BY <1>1
<1>3. PICK y \in Nat : y = Err + e
  BY <1>1
<1>4. k * x \in Nat /\ k * y \in Nat /\ k * Err \in Nat /\ k * e \in Int
  BY <1>1
<1>5. k * Err - k * e = k * x /\ k * Err + k * e = k * y
  BY <1>1, <1>2, <1>3
<1>6. 2 * (k * Err) < Grain
  BY <1>1
<1>. QED
  BY <1>1, <1>4, <1>5, <1>6

(* order.entity.ts: a line's subtotal is quantity * price, to the cent.    *)
THEOREM SubtotalExact ==
    ASSUME NEW quantity \in Nat, NEW price \in Nat, NEW e \in Errors
    PROVE  Subtotal(quantity, price, e) = quantity * price
<1>1. 2 * 3 * Err < Grain
  BY RoundingAssumption
<1>2. 3 * e \in Int /\ 2 * (3 * e) < Grain /\ -(2 * (3 * e)) < Grain
  BY <1>1, ErrorBound
<1>. QED
  BY <1>2, MathRoundExact DEF Subtotal

(* order.entity.ts, calculateTotal: as long as all lines together err by   *)
(* less than half a cent, the total is the sum of the subtotals.           *)
THEOREM TotalExact ==
    ASSUME NEW q \in Seq(Nat), NEW e \in Errors, 4 * Len(q) * Err < Grain
    PROVE  Total(q, e) = SumUpTo(q)[Len(q)]
<1>1. PICK N \in Nat : N = Len(q)
  OBVIOUS
<1>2. \A i \in 1..N : q[i] \in Int
  BY <1>1
<1>3. PICK c \in Int : c = 2 * e
  BY DEF Errors
<1>4. \A i \in 1..N : Doubles(q, e)[i] = q[i] * Grain + c
  BY <1>1, <1>3 DEF Doubles
<1>5. SumUpTo(Doubles(q, e))[N] = SumUpTo(q)[N] * Grain + N * c
  <2>1. \A n \in 0..N : SumUpTo(Doubles(q, e))[n] = SumUpTo(q)[n] * Grain + n * c
    BY <1>2, <1>3, <1>4, SumOfDoubles
  <2>. QED
    BY <2>1
<1>6. SumUpTo(q)[N] \in Int
  <2>1. \A n \in 0..N : SumUpTo(q)[n] \in Int
    BY <1>2, SumType
  <2>. QED
    BY <2>1
<1>7. N * c = (2 * N) * e
  <2>1. PICK d \in Int : d = e
    BY RoundingAssumption DEF Errors
  <2>2. N * (2 * d) = (2 * N) * d
    OBVIOUS
  <2>. QED
    BY <1>3, <2>1, <2>2
<1>8. 2 * N \in Nat /\ 2 * (2 * N) * Err < Grain
  <2>1. 2 * (2 * N) = 4 * N
    OBVIOUS
  <2>. QED
    BY <1>1, <2>1
<1>9. /\ (2 * N) * e \in Int /\ 2 * ((2 * N) * e) < Grain /\ -(2 * ((2 * N) * e)) < Grain
  BY <1>8, ErrorBound
<1>. QED
  BY <1>1, <1>5, <1>6, <1>7, <1>9, MathRoundExact DEF Total

(* stripe.strategy.ts and bkash-http.client.ts: the number a provider is   *)
(* told is the total that is stored.  Nothing is said of its currency.     *)
THEOREM ProviderAmountExact ==
    ASSUME NEW total \in Nat, NEW e \in Errors
    PROVE  StripeAmount(total, e) = total /\ BkashAmount(total, e) = total
<1>1. 2 * 2 * Err < Grain /\ 2 * 1 * Err < Grain
  BY RoundingAssumption
<1>2. /\ 2 * e \in Int /\ 2 * (2 * e) < Grain /\ -(2 * (2 * e)) < Grain
      /\ 1 * e \in Int /\ 2 * (1 * e) < Grain /\ -(2 * (1 * e)) < Grain
  BY <1>1, ErrorBound
<1>3. 1 * e = e
  BY DEF Errors
<1>. QED
  BY <1>2, <1>3, MathRoundExact DEF StripeAmount, BkashAmount
===============================================================================
