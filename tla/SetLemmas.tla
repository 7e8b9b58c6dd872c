------------------------------- MODULE SetLemmas -------------------------------
(***************************************************************************)
(* Induction, and sums over finite sets.  The library's induction theorems *)
(* take an operator as a parameter, which no installed prover              *)
(* instantiates.  SetInduction and SubsetInduction say the same of a set,  *)
(* and are proved from the well-foundedness of finite sets.                *)
(***************************************************************************)
EXTENDS Integers, SequencesExt, FiniteSetTheorems, TLAPS

(* Induction, said of a set.  The finite sets 0..n are well-founded by     *)
(* inclusion, so the first n outside of S would have no predecessor.       *)
LEMMA SetInduction ==
    ASSUME NEW S \in SUBSET Nat, 0 \in S, \A n \in S : n + 1 \in S
    PROVE  S = Nat
<1>. DEFINE T == {0..n : n \in Nat \ S}
<1>1. SUFFICES ASSUME S # Nat PROVE FALSE
  OBVIOUS
<1>2. T # {}
  BY <1>1
<1>3. T \subseteq FiniteSubsetsOf(Nat)
  <2>1. ASSUME NEW n \in Nat PROVE IsFiniteSet(0..n) /\ 0..n \subseteq Nat
    BY FS_Interval
  <2>. QED
    BY <2>1 DEF FiniteSubsetsOf
<1>4. PICK U \in T : \A V \in T : <<V, U>> \notin StrictSubsetOrdering(Nat)
  <2>. HIDE DEF T
  <2>. QED
    BY <1>2, <1>3, FS_StrictSubsetOrderingWellFounded, WFMin
<1>5. PICK m \in Nat \ S : U = 0..m
  OBVIOUS
<1>6. m # 0 /\ m - 1 \in Nat
  BY <1>5
<1>7. m - 1 \notin S
  BY <1>5, <1>6
<1>8. 0..(m-1) \in T
  BY <1>6, <1>7
<1>9. <<0..(m-1), 0..m>> \in StrictSubsetOrdering(Nat)
  <2>1. 0..(m-1) \subseteq 0..m /\ m \in 0..m /\ m \notin 0..(m-1)
    BY <1>6
  <2>2. 0..(m-1) \in SUBSET Nat /\ 0..m \in SUBSET Nat
    BY <1>6
  <2>. QED
    BY <2>1, <2>2 DEF StrictSubsetOrdering
<1>. QED
  BY <1>4, <1>5, <1>8, <1>9

(* The same for the subsets of a finite set: what holds of a set whenever  *)
(* it holds of all its proper subsets holds of every one.                  *)
LEMMA SubsetInduction ==
    ASSUME NEW S, IsFiniteSet(S), NEW G \in SUBSET SUBSET S,
           \A T \in SUBSET S : (SUBSET T) \ {T} \subseteq G => T \in G
    PROVE  G = SUBSET S
<1>1. SUFFICES ASSUME G # SUBSET S PROVE FALSE
  OBVIOUS
<1>. DEFINE B == (SUBSET S) \ G
<1>2. B \subseteq FiniteSubsetsOf(S) /\ B # {}
  <2>1. ASSUME NEW T \in SUBSET S PROVE IsFiniteSet(T)
    BY FS_Subset
  <2>. QED
    BY <1>1, <2>1 DEF FiniteSubsetsOf
<1>3. PICK T \in B : \A U \in B : <<U, T>> \notin StrictSubsetOrdering(S)
  <2>. HIDE DEF B
  <2>. QED
    BY <1>2, FS_StrictSubsetOrderingWellFounded, WFMin
<1>4. ASSUME NEW U \in (SUBSET T) \ {T} PROVE U \in G
  <2>1. <<U, T>> \in StrictSubsetOrdering(S)
    BY DEF StrictSubsetOrdering
  <2>. QED
    BY <1>3, <2>1
<1>. QED
  BY <1>3, <1>4

-------------------------------------------------------------------------------
(* Iteration.                                                              *)

(* f gives a and what g makes of it, again and again, as far as n.         *)
IteratesTo(f, a, g, n) == f[0] = a /\ \A i \in 1..n : f[i] = g[f[i-1]]

LEMMA IteratesUnique ==
    ASSUME NEW a, NEW g, NEW f, NEW h, NEW n \in Nat, NEW m \in Nat,
           IteratesTo(f, a, g, n), IteratesTo(h, a, g, m)
    PROVE  \A i \in Nat : i <= n /\ i <= m => f[i] = h[i]
<1>. DEFINE S == {i \in Nat : i <= n /\ i <= m => f[i] = h[i]}
<1>1. 0 \in S
  BY DEF IteratesTo
<1>2. ASSUME NEW i \in S PROVE i + 1 \in S
  <2>1. SUFFICES ASSUME i + 1 <= n, i + 1 <= m PROVE f[i+1] = h[i+1]
    OBVIOUS
  <2>2. i + 1 \in 1..n /\ i + 1 \in 1..m /\ (i + 1) - 1 = i
    BY <2>1
  <2>3. f[i+1] = g[f[i]] /\ h[i+1] = g[h[i]]
    BY <2>2 DEF IteratesTo
  <2>. QED
    BY <2>1, <2>3
<1>3. S = Nat
  <2>. HIDE DEF S
  <2>1. S \in SUBSET Nat
    BY DEF S
  <2>. QED
    BY <1>1, <1>2, <2>1, SetInduction
<1>. QED
  BY <1>3

(* A function can be iterated for ever. *)
LEMMA Iteration ==
    ASSUME NEW D, NEW a \in D, NEW g \in [D -> D]
    PROVE  \E f \in [Nat -> D] : f[0] = a /\ \A n \in Nat \ {0} : f[n] = g[f[n-1]]
<1>. DEFINE Good(f, n) == f \in [0..n -> D] /\ IteratesTo(f, a, g, n)
            S == {n \in Nat : \E f : Good(f, n)}
<1>1. 0 \in S
  <2>1. Good([i \in 0..0 |-> a], 0)
    BY DEF IteratesTo
  <2>. QED
    BY <2>1
<1>2. ASSUME NEW n \in S PROVE n + 1 \in S
  <2>1. PICK f : Good(f, n)
    OBVIOUS
  <2>. DEFINE h == [i \in 0..n+1 |-> IF i = n + 1 THEN g[f[n]] ELSE f[i]]
  <2>2. f[n] \in D /\ g[f[n]] \in D
    BY <2>1
  <2>3. h \in [0..n+1 -> D]
    BY <2>1, <2>2
  <2>4. h[0] = a
    BY <2>1 DEF IteratesTo
  <2>5. ASSUME NEW i \in 1..n+1 PROVE h[i] = g[h[i-1]]
    <3>1. CASE i = n + 1
      BY <3>1
    <3>2. CASE i \in 1..n
      BY <2>1, <3>2 DEF IteratesTo
    <3>. QED
      BY <3>1, <3>2
  <2>6. Good(h, n+1)
    BY <2>3, <2>4, <2>5 DEF IteratesTo
  <2>. HIDE DEF h, Good
  <2>. QED
    BY <2>6
<1>3. S = Nat
  <2>. HIDE DEF S
  <2>1. S \in SUBSET Nat
    BY DEF S
  <2>. QED
    BY <1>1, <1>2, <2>1, SetInduction
<1>. DEFINE To(n) == CHOOSE f : Good(f, n)
            f == [n \in Nat |-> To(n)[n]]
<1>4. ASSUME NEW n \in Nat PROVE Good(To(n), n)
  <2>1. \E h : Good(h, n)
    BY <1>3
  <2>. HIDE DEF Good
  <2>. QED
    BY <2>1
<1>. HIDE DEF To
<1>5. f \in [Nat -> D]
  BY <1>4
<1>6. ASSUME NEW n \in Nat PROVE f[n] = IF n = 0 THEN a ELSE g[f[n-1]]
  <2>1. CASE n = 0
    BY <1>4, <2>1 DEF IteratesTo
  <2>2. CASE n # 0
    <3>1. n - 1 \in Nat /\ n \in 1..n /\ n - 1 <= n
      BY <2>2
    <3>2. IteratesTo(To(n), a, g, n) /\ IteratesTo(To(n-1), a, g, n-1)
      BY <1>4, <3>1
    <3>3. To(n)[n-1] = To(n-1)[n-1]
      BY <3>1, <3>2, IteratesUnique
    <3>4. To(n)[n] = g[To(n)[n-1]]
      BY <3>1, <3>2 DEF IteratesTo
    <3>. QED
      BY <2>2, <3>1, <3>3, <3>4
  <2>. QED
    BY <2>1, <2>2
<1>. HIDE DEF f
<1>7. f[0] = a /\ \A n \in Nat \ {0} : f[n] = g[f[n-1]]
  BY <1>6
<1>. QED
  BY <1>5, <1>7

(* A set listed without repetition. *)
LEMMA SetToSeqLists ==
    ASSUME NEW S, IsFiniteSet(S)
    PROVE  /\ SetToSeq(S) \in Seq(S) /\ Len(SetToSeq(S)) = Cardinality(S)
           /\ \A x \in S : \E i \in 1..Len(SetToSeq(S)) : SetToSeq(S)[i] = x
<1>. DEFINE n == Cardinality(S)
            q == SetToSeq(S)
<1>1. n \in Nat /\ ExistsBijection(1..n, S)
  BY FS_CardinalityType
<1>2. \E f \in [1..n -> S] : IsInjective(f)
  BY <1>1 DEF ExistsBijection, Bijection, Injection
<1>3. q \in [1..n -> S] /\ IsInjective(q)
  BY <1>2 DEF SetToSeq
<1>4. q \in Injection(1..n, S)
  BY <1>3 DEF Injection
<1>5. IsFiniteSet(1..n) /\ Cardinality(1..n) = n
  BY <1>1, FS_Interval
<1>. HIDE DEF n, q
<1>6. q \in Surjection(1..n, S)
  BY <1>4, <1>5, FS_Injection DEF n
<1>7. \A x \in S : \E i \in 1..n : q[i] = x
  BY <1>6 DEF Surjection
<1>8. q \in Seq(S) /\ Len(q) = n
  BY <1>1, <1>3
<1>. QED
  BY <1>7, <1>8 DEF n, q

-------------------------------------------------------------------------------
(* Sums over a set.                                                        *)

First(s) == CHOOSE x \in s : TRUE

(* g gives the sum of f over every subset of S. *)
SumsOver(g, f, S) ==
    g = [s \in SUBSET S |-> IF s = {} THEN 0 ELSE f[First(s)] + g[s \ {First(s)}]]

LEMMA SumsOverValue ==
    ASSUME NEW f, NEW S, NEW g, SumsOver(g, f, S)
    PROVE  /\ g[{}] = 0
           /\ \A s \in SUBSET S : s # {} => g[s] = f[First(s)] + g[s \ {First(s)}]
<1>1. ASSUME NEW s \in SUBSET S
      PROVE  g[s] = IF s = {} THEN 0 ELSE f[First(s)] + g[s \ {First(s)}]
  <2>. DEFINE h == [r \in SUBSET S |-> IF r = {} THEN 0
                                        ELSE f[First(r)] + g[r \ {First(r)}]]
  <2>1. g = h
    BY DEF SumsOver
  <2>2. h[s] = IF s = {} THEN 0 ELSE f[First(s)] + g[s \ {First(s)}]
    OBVIOUS
  <2>. QED
    BY <2>1, <2>2
<1>. QED
  BY <1>1

LEMMA FirstOf == ASSUME NEW s, s # {} PROVE First(s) \in s
BY DEF First

(* Two such functions agree where both are defined. *)
LEMMA SumsOverUnique ==
    ASSUME NEW f, NEW S, IsFiniteSet(S), NEW T \in SUBSET S,
           NEW g, NEW h, SumsOver(g, f, S), SumsOver(h, f, T)
    PROVE  \A s \in SUBSET T : g[s] = h[s]
<1>. DEFINE G == {s \in SUBSET T : g[s] = h[s]}
<1>1. ASSUME NEW s \in SUBSET T, (SUBSET s) \ {s} \subseteq G
      PROVE  s \in G
  <2>1. CASE s = {}
    BY <2>1, SumsOverValue
  <2>2. CASE s # {}
    <3>1. s \ {First(s)} \in (SUBSET s) \ {s} /\ s \in SUBSET S
      BY <2>2, FirstOf
    <3>2. g[s \ {First(s)}] = h[s \ {First(s)}]
      BY <1>1, <3>1
    <3>3. /\ g[s] = f[First(s)] + g[s \ {First(s)}]
          /\ h[s] = f[First(s)] + h[s \ {First(s)}]
      BY <2>2, <3>1, SumsOverValue
    <3>. QED
      BY <3>2, <3>3
  <2>. QED
    BY <2>1, <2>2
<1>2. IsFiniteSet(T)
  BY FS_Subset
<1>3. G = SUBSET T
  <2>. HIDE DEF G
  <2>1. G \in SUBSET SUBSET T
    BY DEF G
  <2>. QED
    BY <1>1, <1>2, <2>1, SubsetInduction
<1>. QED
  BY <1>3

LEMMA SumsOverExist ==
    ASSUME NEW f, NEW S, IsFiniteSet(S)
    PROVE  \A T \in SUBSET S : \E g : SumsOver(g, f, T)
<1>. DEFINE G == {T \in SUBSET S : \E g : SumsOver(g, f, T)}
            Of(T) == CHOOSE g : SumsOver(g, f, T)
<1>1. ASSUME NEW T \in SUBSET S, (SUBSET T) \ {T} \subseteq G
      PROVE  T \in G
  <2>1. \A U \in (SUBSET T) \ {T} : SumsOver(Of(U), f, U)
    BY <1>1
  <2>. HIDE DEF Of
  <2>. DEFINE Sub(s) == s \ {First(s)}
              g == [s \in SUBSET T |-> IF s = {} THEN 0 ELSE f[First(s)] + Of(Sub(s))[Sub(s)]]
  <2>2. ASSUME NEW s \in SUBSET T, s # {} PROVE Of(Sub(s))[Sub(s)] = g[Sub(s)]
    <3>1. Sub(s) \in (SUBSET T) \ {T} /\ IsFiniteSet(Sub(s))
      <4>1. Sub(s) \in (SUBSET T) \ {T}
        BY <2>2, FirstOf
      <4>. QED
        BY <4>1, FS_Subset
    <3>. DEFINE r == Sub(s)
    <3>2. SumsOver(Of(r), f, r)
      BY <2>1, <3>1
    <3>3. CASE r = {}
      <4>. HIDE DEF r
      <4>1. Of(r)[r] = 0
        BY <3>2, <3>3, SumsOverValue
      <4>2. g[r] = 0
        BY <3>3
      <4>. QED
        BY <4>1, <4>2 DEF r
    <3>4. CASE r # {}
      <4>. HIDE DEF r
      <4>1. Of(r)[r] = f[First(r)] + Of(r)[Sub(r)]
        BY <3>2, <3>4, SumsOverValue
      <4>2. Sub(r) \in SUBSET r /\ Sub(r) \in (SUBSET T) \ {T}
        BY <3>1 DEF r
      <4>3. Of(r)[Sub(r)] = Of(Sub(r))[Sub(r)]
        <5>1. SumsOver(Of(Sub(r)), f, Sub(r))
          BY <2>1, <4>2
        <5>. HIDE DEF Sub
        <5>2. IsFiniteSet(r) /\ Sub(r) \in SUBSET Sub(r)
          BY <3>1 DEF r
        <5>. QED
          BY <3>2, <4>2, <5>1, <5>2, SumsOverUnique
      <4>4. g[r] = f[First(r)] + Of(Sub(r))[Sub(r)]
        BY <3>1, <3>4 DEF r
      <4>5. Of(r)[r] = g[r]
        BY <4>1, <4>3, <4>4
      <4>. QED
        BY <4>5 DEF r
    <3>. QED
      BY <3>3, <3>4
  <2>3. SumsOver(g, f, T)
    <3>1. ASSUME NEW s \in SUBSET T
          PROVE  (IF s = {} THEN 0 ELSE f[First(s)] + Of(Sub(s))[Sub(s)])
                     = (IF s = {} THEN 0 ELSE f[First(s)] + g[Sub(s)])
      <4>. HIDE DEF g
      <4>. QED
        BY <2>2
    <3>2. g = [s \in SUBSET T |-> IF s = {} THEN 0 ELSE f[First(s)] + g[Sub(s)]]
      BY <3>1
    <3>. HIDE DEF g
    <3>. QED
      BY <3>2 DEF SumsOver
  <2>. QED
    BY <2>3
<1>2. G = SUBSET S
  <2>. HIDE DEF G
  <2>1. G \in SUBSET SUBSET S
    BY DEF G
  <2>. QED
    BY <1>1, <2>1, SubsetInduction
<1>. QED
  BY <1>2

LEMMA SumDefined ==
    ASSUME NEW f, NEW S
    PROVE  SumFunctionOnSet(f, S) = (CHOOSE g : SumsOver(g, f, S))[S]
BY DEF SumFunctionOnSet, FoldFunctionOnSet, MapThenFoldSet, SumsOver, First

(* The sum over a finite set, unfolded at the element it begins with. *)
LEMMA SumUnfolds ==
    ASSUME NEW f, NEW S, IsFiniteSet(S)
    PROVE  SumFunctionOnSet(f, S) =
               IF S = {} THEN 0
               ELSE f[First(S)] + SumFunctionOnSet(f, S \ {First(S)})
<1>. DEFINE Of(T) == CHOOSE g : SumsOver(g, f, T)
            r == S \ {First(S)}
<1>1. \A T \in SUBSET S : SumsOver(Of(T), f, T)
  BY SumsOverExist
<1>2. \A T : SumFunctionOnSet(f, T) = Of(T)[T]
  BY SumDefined
<1>. HIDE DEF Of
<1>3. r \in SUBSET S /\ S \in SUBSET S
  OBVIOUS
<1>4. SumsOver(Of(S), f, S) /\ SumsOver(Of(r), f, r)
  BY <1>1, <1>3
<1>. HIDE DEF r
<1>5. PICK g : g = Of(S)
  OBVIOUS
<1>6. SumsOver(g, f, S)
  BY <1>4, <1>5
<1>7. g[{}] = 0
  BY <1>6, SumsOverValue
<1>8. S # {} => g[S] = f[First(S)] + g[r]
  <2>1. ASSUME S # {} PROVE g[S] = f[First(S)] + g[S \ {First(S)}]
    BY <1>6, <2>1, SumsOverValue
  <2>. QED
    BY <2>1 DEF r
<1>9. g[r] = Of(r)[r]
  BY <1>3, <1>4, <1>5, SumsOverUnique
<1>. QED
  BY <1>2, <1>5, <1>7, <1>8, <1>9 DEF r

LEMMA SumEmpty == ASSUME NEW f PROVE SumFunctionOnSet(f, {}) = 0
BY SumUnfolds, FS_EmptySet

LEMMA SumInt ==
    ASSUME NEW S, IsFiniteSet(S), NEW f, \A x \in S : f[x] \in Int
    PROVE  SumFunctionOnSet(f, S) \in Int
<1>. DEFINE G == {T \in SUBSET S : SumFunctionOnSet(f, T) \in Int}
<1>1. ASSUME NEW T \in SUBSET S, (SUBSET T) \ {T} \subseteq G PROVE T \in G
  <2>1. IsFiniteSet(T)
    BY FS_Subset
  <2>2. CASE T = {}
    BY <2>2, SumEmpty
  <2>3. CASE T # {}
    <3>1. First(T) \in T /\ T \ {First(T)} \in (SUBSET T) \ {T}
      BY <2>3, FirstOf
    <3>2. SumFunctionOnSet(f, T \ {First(T)}) \in Int /\ f[First(T)] \in Int
      BY <1>1, <3>1
    <3>3. SumFunctionOnSet(f, T) = f[First(T)] + SumFunctionOnSet(f, T \ {First(T)})
      BY <2>1, <2>3, SumUnfolds
    <3>. QED
      BY <3>2, <3>3
  <2>. QED
    BY <2>2, <2>3
<1>2. G = SUBSET S
  <2>. HIDE DEF G
  <2>1. G \in SUBSET SUBSET S
    BY DEF G
  <2>. QED
    BY <1>1, <2>1, SubsetInduction
<1>. QED
  BY <1>2

(* Any element may be the one the sum begins with. *)
LEMMA SumTakesOut ==
    ASSUME NEW S, IsFiniteSet(S), NEW f, \A x \in S : f[x] \in Int, NEW e \in S
    PROVE  SumFunctionOnSet(f, S) = f[e] + SumFunctionOnSet(f, S \ {e})
<1>. DEFINE G == {T \in SUBSET S : \A x \in T :
                      SumFunctionOnSet(f, T) = f[x] + SumFunctionOnSet(f, T \ {x})}
<1>1. ASSUME NEW T \in SUBSET S, (SUBSET T) \ {T} \subseteq G PROVE T \in G
  <2>1. SUFFICES ASSUME NEW x \in T
        PROVE SumFunctionOnSet(f, T) = f[x] + SumFunctionOnSet(f, T \ {x})
    OBVIOUS
  <2>. DEFINE y == First(T)
              Sum(U) == SumFunctionOnSet(f, U)
  <2>2. IsFiniteSet(T) /\ y \in T
    BY FS_Subset, FirstOf
  <2>3. Sum(T) = f[y] + Sum(T \ {y})
    BY <2>2, SumUnfolds
  <2>4. CASE x = y
    BY <2>3, <2>4
  <2>5. CASE x # y
    <3>. DEFINE R == T \ {x, y}
    <3>. HIDE DEF y
    <3>1. /\ T \ {x} \in (SUBSET T) \ {T} /\ T \ {y} \in (SUBSET T) \ {T}
          /\ y \in T \ {x} /\ x \in T \ {y}
          /\ (T \ {x}) \ {y} = R /\ (T \ {y}) \ {x} = R
      BY <2>2, <2>5
    <3>2. Sum(T \ {x}) = f[y] + Sum(R) /\ Sum(T \ {y}) = f[x] + Sum(R)
      BY <1>1, <3>1
    <3>3. Sum(R) \in Int /\ f[x] \in Int /\ f[y] \in Int
      <4>1. IsFiniteSet(R)
        BY <2>2, FS_Subset
      <4>. QED
        BY <2>2, <4>1, SumInt
    <3>. HIDE DEF Sum
    <3>4. Sum(T) = f[x] + Sum(T \ {x})
      BY <2>3, <3>2, <3>3
    <3>. QED
      BY <3>4 DEF Sum
  <2>. QED
    BY <2>4, <2>5
<1>2. G = SUBSET S
  <2>. HIDE DEF G
  <2>1. G \in SUBSET SUBSET S
    BY DEF G
  <2>. QED
    BY <1>1, <2>1, SubsetInduction
<1>. QED
  BY <1>2

(* One more element adds its value. *)
LEMMA SumAdds ==
    ASSUME NEW S, IsFiniteSet(S), NEW e, e \notin S, NEW f,
           \A x \in S \union {e} : f[x] \in Int
    PROVE  SumFunctionOnSet(f, S \union {e}) = SumFunctionOnSet(f, S) + f[e]
<1>. DEFINE T == S \union {e}
<1>1. IsFiniteSet(T) /\ e \in T /\ T \ {e} = S
  BY FS_AddElement
<1>. HIDE DEF T
<1>2. SumFunctionOnSet(f, T) = f[e] + SumFunctionOnSet(f, S)
  BY <1>1, SumTakesOut DEF T
<1>3. SumFunctionOnSet(f, S) \in Int /\ f[e] \in Int
  BY SumInt
<1>. QED
  BY <1>2, <1>3 DEF T
===============================================================================
