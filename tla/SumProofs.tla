------------------------------ MODULE SumProofs ------------------------------
(***************************************************************************)
(* What SumTo computes, for every function and every length: the two       *)
(* equations that define it, and what they entail by induction.  The       *)
(* library states induction for a predicate given as an operator, which    *)
(* the provers cannot instantiate; here it is stated for a set.            *)
(***************************************************************************)
EXTENDS Sums, WellFoundedInduction, FiniteSetTheorems, TLAPS

(***************************************************************************)
(* Induction on the natural numbers, for sets.                             *)
(***************************************************************************)

(* A set of natural numbers that is not empty has a least element. *)
LEMMA Least ==
  ASSUME NEW T \in SUBSET Nat, T # {}
  PROVE  \E x \in T : \A y \in T : x <= y
  <1>1. IsWellFoundedOn(OpToRel(<, Nat), Nat)
    BY NatLessThanWellFounded
  <1>2. \E x \in T : \A y \in T : <<y, x>> \notin OpToRel(<, Nat)
    BY <1>1, WFMin
  <1>3. \A x, y \in Nat : <<y, x>> \notin OpToRel(<, Nat) => x <= y
    BY DEF OpToRel
  <1> QED BY <1>2, <1>3

(* A set that holds zero, and the next of each number it holds, holds every *)
(* natural number.                                                          *)
LEMMA SetInduction ==
  ASSUME NEW P, 0 \in P, \A n \in Nat : n \in P => n + 1 \in P
  PROVE  \A n \in Nat : n \in P
  <1> SUFFICES ASSUME Nat \ P # {}
               PROVE  FALSE
    OBVIOUS
  <1>1. PICK x \in Nat \ P : \A y \in Nat \ P : x <= y
    BY Least
  <1>2. x - 1 \in Nat /\ x - 1 \in P
    BY <1>1
  <1> QED BY <1>1, <1>2

(***************************************************************************)
(* The recursive function of SumTo exists.                                 *)
(***************************************************************************)

Summand(h, f, k) == IF k = 0 THEN 0 ELSE h[k - 1] + f[k - 1]

(* h adds up f as far as n. *)
Adds(h, f, n) == h = [k \in 0 .. n |-> Summand(h, f, k)]

(* Functions with the same domain and the same values are the same. *)
LEMMA SameFunction ==
  ASSUME NEW S, NEW a, NEW b, a = [k \in S |-> a[k]], b = [k \in S |-> b[k]],
         \A k \in S : a[k] = b[k]
  PROVE  a = b
  OBVIOUS

(* Two functions that add up f agree as far as both go. *)
LEMMA AddsAgree ==
  ASSUME NEW f, NEW m \in Nat, NEW n \in Nat, NEW g, NEW h,
         Adds(g, f, m), Adds(h, f, n)
  PROVE  \A k \in Nat : k <= m /\ k <= n => g[k] = h[k]
  <1> DEFINE P == {k \in Nat : k <= m /\ k <= n => g[k] = h[k]}
  <1>1. 0 \in P
    BY DEF Adds, Summand
  <1>2. ASSUME NEW k \in Nat, k \in P
        PROVE  k + 1 \in P
    <2> SUFFICES ASSUME k + 1 <= m, k + 1 <= n
                 PROVE  g[k + 1] = h[k + 1]
      OBVIOUS
    <2>1. g[k + 1] = g[k] + f[k] /\ h[k + 1] = h[k] + f[k]
      BY DEF Adds, Summand
    <2> QED BY <1>2, <2>1
  <1> HIDE DEF P
  <1>3. \A k \in Nat : k \in P
    BY <1>1, <1>2, SetInduction
  <1> QED BY <1>3 DEF P

(* There is a function that adds up f as far as n. *)
LEMMA AddsExists ==
  ASSUME NEW f
  PROVE  \A n \in Nat : \E h : Adds(h, f, n)
  <1> DEFINE P == {n \in Nat : \E h : Adds(h, f, n)}
  <1>1. 0 \in P
    <2> DEFINE h == [k \in 0 .. 0 |-> 0]
    <2>1. Adds(h, f, 0)
      BY DEF Adds, Summand
    <2> QED BY <2>1
  <1>2. ASSUME NEW n \in Nat, n \in P
        PROVE  n + 1 \in P
    <2>1. PICK g : Adds(g, f, n)
      BY <1>2
    <2> DEFINE h == [k \in 0 .. (n + 1) |-> Summand(g, f, k)]
               hh == [k \in 0 .. (n + 1) |-> Summand(h, f, k)]
    <2>2. \A k \in 0 .. n : h[k] = g[k]
      BY <2>1 DEF Adds
    <2>3. \A k \in 0 .. (n + 1) : Summand(h, f, k) = Summand(g, f, k)
      <3>1. \A k \in 0 .. (n + 1) : k # 0 => k - 1 \in 0 .. n
        OBVIOUS
      <3> HIDE DEF h
      <3> QED BY <2>2, <3>1 DEF Summand
    <2>4. \A k \in 0 .. (n + 1) : h[k] = hh[k]
      <3>1. /\ \A k \in 0 .. (n + 1) : hh[k] = Summand(h, f, k)
            /\ \A k \in 0 .. (n + 1) : h[k] = Summand(g, f, k)
        OBVIOUS
      <3> HIDE DEF h, hh
      <3> QED BY <2>3, <3>1
    <2>5. h = [k \in 0 .. (n + 1) |-> h[k]] /\ hh = [k \in 0 .. (n + 1) |-> hh[k]]
      OBVIOUS
    <2>6. h = hh
      <3> HIDE DEF h, hh
      <3> QED BY <2>4, <2>5, SameFunction
    <2>7. Adds(h, f, n + 1)
      BY <2>6 DEF Adds
    <2> HIDE DEF h
    <2> QED BY <2>7
  <1> HIDE DEF P
  <1>3. \A n \in Nat : n \in P
    BY <1>1, <1>2, SetInduction
  <1> QED BY <1>3 DEF P

(* The sum of no values is zero, and one more value adds it. *)
LEMMA SumRecursion ==
  ASSUME NEW f
  PROVE  /\ SumTo(0, f) = 0
         /\ \A n \in Nat : SumTo(n + 1, f) = SumTo(n, f) + f[n]
  <1> DEFINE h(n) == CHOOSE h : Adds(h, f, n)
             s    == [n \in Nat |-> h(n)[n]]
  <1>1. \A n \in Nat : Adds(h(n), f, n)
    BY AddsExists
  <1> HIDE DEF h
  <1>2. \A n \in Nat : s[n] = h(n)[n]
    OBVIOUS
  <1>3. s[0] = 0
    BY <1>1, <1>2 DEF Adds, Summand
  <1>4. ASSUME NEW n \in Nat
        PROVE  s[n + 1] = s[n] + f[n]
    <2>1. Adds(h(n), f, n) /\ Adds(h(n + 1), f, n + 1)
      BY <1>1
    <2>2. h(n + 1)[n + 1] = h(n + 1)[n] + f[n]
      BY <2>1 DEF Adds, Summand
    <2>3. h(n + 1)[n] = h(n)[n]
      BY <2>1, AddsAgree
    <2> QED BY <1>2, <2>2, <2>3
  <1>5. s = [n \in Nat |-> s[n]]
    OBVIOUS
  <1> HIDE DEF s
  <1>6. \A k \in Nat : k # 0 => s[k] = s[k - 1] + f[k - 1]
    <2>1. \A k \in Nat : k # 0 => k - 1 \in Nat /\ (k - 1) + 1 = k
      OBVIOUS
    <2> QED BY <1>4, <2>1
  <1>7. s = [k \in Nat |-> IF k = 0 THEN 0 ELSE s[k - 1] + f[k - 1]]
    BY <1>3, <1>5, <1>6
  <1> DEFINE sum == CHOOSE g : g = [k \in Nat |-> IF k = 0 THEN 0 ELSE g[k - 1] + f[k - 1]]
  <1>8. sum = [k \in Nat |-> IF k = 0 THEN 0 ELSE sum[k - 1] + f[k - 1]]
    BY <1>7
  <1>9. \A n : SumTo(n, f) = sum[n]
    BY DEF SumTo
  <1> HIDE DEF sum
  <1>10. sum[0] = 0
    BY <1>8
  <1>11. ASSUME NEW n \in Nat
         PROVE  sum[n + 1] = sum[n] + f[n]
    <2>1. n + 1 \in Nat /\ n + 1 # 0 /\ (n + 1) - 1 = n
      OBVIOUS
    <2> QED BY <1>8, <2>1
  <1> QED BY <1>9, <1>10, <1>11

(***************************************************************************)
(* What the sums of two functions have to do with each other.              *)
(***************************************************************************)

(* The sum of integers is an integer. *)
LEMMA SumType ==
  ASSUME NEW n \in Nat, NEW f, \A i \in 0 .. (n - 1) : f[i] \in Int
  PROVE  SumTo(n, f) \in Int
  <1> DEFINE P == {k \in Nat : k <= n => SumTo(k, f) \in Int}
  <1>1. 0 \in P
    BY SumRecursion
  <1>2. ASSUME NEW k \in Nat, k \in P
        PROVE  k + 1 \in P
    <2> SUFFICES ASSUME k + 1 <= n
                 PROVE  SumTo(k + 1, f) \in Int
      OBVIOUS
    <2>1. SumTo(k, f) \in Int /\ f[k] \in Int
      BY <1>2
    <2>2. SumTo(k + 1, f) = SumTo(k, f) + f[k]
      BY SumRecursion
    <2> QED BY <2>1, <2>2
  <1> HIDE DEF P
  <1>3. n \in P
    BY <1>1, <1>2, SetInduction
  <1> QED BY <1>3 DEF P

(* Values that are nowhere larger have a sum that is not larger. *)
LEMMA SumMonotone ==
  ASSUME NEW n \in Nat, NEW f, NEW g,
         \A i \in 0 .. (n - 1) : f[i] \in Int /\ g[i] \in Int /\ f[i] <= g[i]
  PROVE  SumTo(n, f) <= SumTo(n, g)
  <1> DEFINE P == {k \in Nat : k <= n => SumTo(k, f) <= SumTo(k, g)}
  <1>1. 0 \in P
    BY SumRecursion
  <1>2. ASSUME NEW k \in Nat, k \in P
        PROVE  k + 1 \in P
    <2> SUFFICES ASSUME k + 1 <= n
                 PROVE  SumTo(k + 1, f) <= SumTo(k + 1, g)
      OBVIOUS
    <2>1. f[k] \in Int /\ g[k] \in Int /\ f[k] <= g[k]
      OBVIOUS
    <2>2. SumTo(k, f) \in Int /\ SumTo(k, g) \in Int
      <3>1. \A i \in 0 .. (k - 1) : f[i] \in Int /\ g[i] \in Int
        OBVIOUS
      <3> QED BY <3>1, SumType
    <2>3. SumTo(k + 1, f) = SumTo(k, f) + f[k] /\ SumTo(k + 1, g) = SumTo(k, g) + g[k]
      BY SumRecursion
    <2> QED BY <1>2, <2>1, <2>2, <2>3
  <1> HIDE DEF P
  <1>3. n \in P
    BY <1>1, <1>2, SetInduction
  <1> QED BY <1>3 DEF P

(* Equal values have equal sums. *)
LEMMA SumSame ==
  ASSUME NEW n \in Nat, NEW f, NEW g, \A i \in 0 .. (n - 1) : f[i] = g[i]
  PROVE  SumTo(n, f) = SumTo(n, g)
  <1> DEFINE P == {k \in Nat : k <= n => SumTo(k, f) = SumTo(k, g)}
  <1>1. 0 \in P
    BY SumRecursion
  <1>2. ASSUME NEW k \in Nat, k \in P
        PROVE  k + 1 \in P
    <2> SUFFICES ASSUME k + 1 <= n
                 PROVE  SumTo(k + 1, f) = SumTo(k + 1, g)
      OBVIOUS
    <2>1. f[k] = g[k]
      OBVIOUS
    <2>2. SumTo(k + 1, f) = SumTo(k, f) + f[k] /\ SumTo(k + 1, g) = SumTo(k, g) + g[k]
      BY SumRecursion
    <2> QED BY <1>2, <2>1, <2>2
  <1> HIDE DEF P
  <1>3. n \in P
    BY <1>1, <1>2, SetInduction
  <1> QED BY <1>3 DEF P

(* A sum of zeros is zero. *)
LEMMA SumZero ==
  ASSUME NEW n \in Nat, NEW f, \A i \in 0 .. (n - 1) : f[i] = 0
  PROVE  SumTo(n, f) = 0
  <1> DEFINE P == {k \in Nat : k <= n => SumTo(k, f) = 0}
  <1>1. 0 \in P
    BY SumRecursion
  <1>2. ASSUME NEW k \in Nat, k \in P
        PROVE  k + 1 \in P
    <2>1. k + 1 <= n => f[k] = 0 /\ SumTo(k + 1, f) = SumTo(k, f) + f[k]
      BY SumRecursion
    <2> QED BY <1>2, <2>1
  <1> HIDE DEF P
  <1>3. n \in P
    BY <1>1, <1>2, SetInduction
  <1> QED BY <1>3 DEF P

(* A change of one value changes the sum by as much. *)
LEMMA SumChange ==
  ASSUME NEW n \in Nat, NEW f, NEW g, NEW m \in 0 .. (n - 1),
         \A i \in 0 .. (n - 1) : f[i] \in Int /\ g[i] \in Int,
         \A i \in 0 .. (n - 1) : i # m => f[i] = g[i]
  PROVE  SumTo(n, g) = SumTo(n, f) - f[m] + g[m]
  <1> DEFINE P == {k \in Nat : m < k /\ k <= n => SumTo(k, g) = SumTo(k, f) - f[m] + g[m]}
  <1>1. 0 \in P
    OBVIOUS
  <1>2. ASSUME NEW k \in Nat, k \in P
        PROVE  k + 1 \in P
    <2> SUFFICES ASSUME m < k + 1, k + 1 <= n
                 PROVE  SumTo(k + 1, g) = SumTo(k + 1, f) - f[m] + g[m]
      OBVIOUS
    <2>1. /\ \A i \in 0 .. (k - 1) : f[i] \in Int /\ g[i] \in Int
          /\ f[k] \in Int /\ g[k] \in Int /\ f[m] \in Int /\ g[m] \in Int
      OBVIOUS
    <2>2. SumTo(k, f) \in Int /\ SumTo(k, g) \in Int
      BY <2>1, SumType
    <2>3. SumTo(k + 1, f) = SumTo(k, f) + f[k] /\ SumTo(k + 1, g) = SumTo(k, g) + g[k]
      BY SumRecursion
    <2>4. CASE m = k
      <3>1. \A i \in 0 .. (k - 1) : f[i] = g[i]
        BY <2>4
      <3>2. SumTo(k, f) = SumTo(k, g)
        BY <3>1, SumSame
      <3> QED BY <2>1, <2>2, <2>3, <2>4, <3>2
    <2>5. CASE m < k
      <3>1. f[k] = g[k]
        BY <2>5
      <3>2. SumTo(k, g) = SumTo(k, f) - f[m] + g[m]
        BY <1>2, <2>5
      <3> QED BY <2>1, <2>2, <2>3, <3>1, <3>2
    <2> QED BY <2>4, <2>5
  <1> HIDE DEF P
  <1>3. n \in P
    BY <1>1, <1>2, SetInduction
  <1> QED BY <1>3 DEF P

(* Changing two neighbours changes the sum by the differences. *)
LEMMA SumChangePair ==
  ASSUME NEW n \in Nat, NEW f, NEW g, NEW m \in 0 .. (n - 1), m + 1 < n,
         \A i \in 0 .. (n - 1) : f[i] \in Int /\ g[i] \in Int,
         \A i \in 0 .. (n - 1) : i # m /\ i # m + 1 => f[i] = g[i]
  PROVE  SumTo(n, g) = SumTo(n, f) - f[m] - f[m + 1] + g[m] + g[m + 1]
  <1> DEFINE d == m + 1
             h == [i \in 0 .. (n - 1) |-> IF i = m THEN g[i] ELSE f[i]]
  <1>1. d \in 0 .. (n - 1) /\ d # m
    OBVIOUS
  <1>2. \A i \in 0 .. (n - 1) : h[i] \in Int /\ (i # m => f[i] = h[i])
    OBVIOUS
  <1>3. \A i \in 0 .. (n - 1) : i # d => h[i] = g[i]
    OBVIOUS
  <1>4. h[m] = g[m] /\ h[d] = f[d]
    BY <1>1
  <1>5. SumTo(n, f) \in Int
    BY SumType
  <1> HIDE DEF d, h
  <1>6. SumTo(n, h) = SumTo(n, f) - f[m] + h[m]
    BY <1>2, SumChange
  <1>7. SumTo(n, g) = SumTo(n, h) - h[d] + g[d]
    BY <1>1, <1>2, <1>3, SumChange
  <1>8. f[m] \in Int /\ g[m] \in Int /\ f[d] \in Int /\ g[d] \in Int
    BY <1>1
  <1>9. SumTo(n, g) = SumTo(n, f) - f[m] - f[d] + g[m] + g[d]
    BY <1>4, <1>5, <1>6, <1>7, <1>8
  <1> QED BY <1>9 DEF d

(***************************************************************************)
(* Sums over the elements of a finite set, as MapThenSumSet computes them: *)
(* one element after the other is taken out, whichever CHOOSE names.       *)
(***************************************************************************)

Some(T) == CHOOSE x \in T : TRUE

TakeOne(h, f, T) == IF T = {} THEN 0 ELSE f[Some(T)] + h[T \ {Some(T)}]

(* h adds up f over each subset of S.  *)
AddsOver(h, f, S) == h = [T \in SUBSET S |-> TakeOne(h, f, T)]

LEMMA AddsOverRecursion ==
  ASSUME NEW S, NEW f, NEW h, AddsOver(h, f, S), NEW T \in SUBSET S
  PROVE  /\ T = {} => h[T] = 0
         /\ T # {} => /\ Some(T) \in T /\ Some(T) \in S
                      /\ T \ {Some(T)} \in SUBSET S
                      /\ h[T] = f[Some(T)] + h[T \ {Some(T)}]
  <1>1. h[T] = TakeOne(h, f, T)
    BY DEF AddsOver
  <1>2. T # {} => Some(T) \in T
    BY DEF Some
  <1> QED BY <1>1, <1>2 DEF TakeOne

LEMMA AddsOverEmpty ==
  ASSUME NEW S, NEW f, NEW h, AddsOver(h, f, S)
  PROVE  h[{}] = 0
  <1>1. {} \in SUBSET S
    OBVIOUS
  <1> QED BY <1>1, AddsOverRecursion

(* Taking an element out leaves a smaller set.  *)
LEMMA SmallerWithoutOne ==
  ASSUME NEW S, IsFiniteSet(S), NEW T \in SUBSET S
  PROVE  /\ IsFiniteSet(T) /\ Cardinality(T) \in Nat
         /\ Cardinality(T) <= Cardinality(S)
         /\ T # {} => /\ Cardinality(T) > 0
                      /\ Cardinality(T \ {Some(T)}) = Cardinality(T) - 1
  <1>1. IsFiniteSet(T) /\ Cardinality(T) <= Cardinality(S)
    BY FS_Subset
  <1>2. Cardinality(T) \in Nat
    BY <1>1, FS_CardinalityType
  <1>3. T # {} => Some(T) \in T
    BY DEF Some
  <1>4. T # {} => Cardinality(T \ {Some(T)}) = Cardinality(T) - 1
    BY <1>1, <1>3, FS_RemoveElement
  <1>5. T # {} => Cardinality(T) # 0
    BY <1>1, FS_EmptySet
  <1> QED BY <1>1, <1>2, <1>4, <1>5

(* There is a function that adds up f over each subset of a finite set.  *)
LEMMA AddsOverExists ==
  ASSUME NEW S, IsFiniteSet(S), NEW f
  PROVE  \E h : AddsOver(h, f, S)
  <1> DEFINE Good(h, n) == \A T \in SUBSET S : Cardinality(T) <= n => h[T] = TakeOne(h, f, T)
             P == {n \in Nat : \E h : h = [T \in SUBSET S |-> h[T]] /\ Good(h, n)}
  <1>1. 0 \in P
    <2> DEFINE h == [T \in SUBSET S |-> 0]
    <2>1. ASSUME NEW T \in SUBSET S, Cardinality(T) <= 0
          PROVE  T = {}
      <3>1. Cardinality(T) \in Nat /\ (T # {} => Cardinality(T) > 0)
        BY SmallerWithoutOne
      <3> QED BY <2>1, <3>1
    <2>2. Good(h, 0)
      BY <2>1 DEF TakeOne
    <2>3. h = [T \in SUBSET S |-> h[T]]
      OBVIOUS
    <2> HIDE DEF h, Good
    <2> QED BY <2>2, <2>3
  <1>2. ASSUME NEW n \in Nat, n \in P
        PROVE  n + 1 \in P
    <2>1. PICK g : Good(g, n)
      BY <1>2
    <2> DEFINE h == [T \in SUBSET S |-> TakeOne(g, f, T)]
    <2>2. \A T \in SUBSET S : Cardinality(T) <= n => h[T] = g[T]
      BY <2>1
    <2>3. ASSUME NEW T \in SUBSET S, Cardinality(T) <= n + 1
          PROVE  h[T] = TakeOne(h, f, T)
      <3>1. h[T] = TakeOne(g, f, T)
        OBVIOUS
      <3> HIDE DEF h, Good
      <3>2. CASE T = {}
        BY <3>1, <3>2 DEF TakeOne
      <3>3. CASE T # {}
        <4>1. Cardinality(T) \in Nat /\ Cardinality(T \ {Some(T)}) = Cardinality(T) - 1
          BY <3>3, SmallerWithoutOne
        <4>2. Cardinality(T \ {Some(T)}) <= n /\ T \ {Some(T)} \in SUBSET S
          BY <4>1, <2>3
        <4>3. h[T \ {Some(T)}] = g[T \ {Some(T)}]
          BY <2>2, <4>2
        <4> QED BY <3>1, <4>3 DEF TakeOne
      <3> QED BY <3>2, <3>3
    <2>4. h = [T \in SUBSET S |-> h[T]]
      OBVIOUS
    <2>5. Good(h, n + 1)
      <3> HIDE DEF h
      <3> QED BY <2>3
    <2> HIDE DEF h, Good
    <2> QED BY <2>4, <2>5
  <1> HIDE DEF P
  <1>3. \A n \in Nat : n \in P
    BY <1>1, <1>2, SetInduction
  <1>4. Cardinality(S) \in Nat
    BY FS_CardinalityType
  <1>5. PICK h : h = [T \in SUBSET S |-> h[T]] /\ Good(h, Cardinality(S))
    BY <1>3, <1>4 DEF P
  <1>6. \A T \in SUBSET S : h[T] = TakeOne(h, f, T)
    BY <1>5, SmallerWithoutOne
  <1>7. h = [T \in SUBSET S |-> TakeOne(h, f, T)]
    BY <1>5, <1>6
  <1> QED BY <1>7 DEF AddsOver

(* Induction on the subsets of a finite set, for a set of subsets.  *)
LEMMA SubsetInduction ==
  ASSUME NEW S, IsFiniteSet(S), NEW Q, {} \in Q,
         \A T \in SUBSET S : T # {} /\ T \ {Some(T)} \in Q => T \in Q
  PROVE  \A T \in SUBSET S : T \in Q
  <1> DEFINE P == {n \in Nat : \A T \in SUBSET S : Cardinality(T) <= n => T \in Q}
  <1>1. 0 \in P
    <2> SUFFICES ASSUME NEW T \in SUBSET S, Cardinality(T) <= 0
                 PROVE  T \in Q
      OBVIOUS
    <2>1. Cardinality(T) \in Nat /\ (T # {} => Cardinality(T) > 0)
      BY SmallerWithoutOne
    <2> QED BY <2>1
  <1>2. ASSUME NEW n \in Nat, n \in P
        PROVE  n + 1 \in P
    <2> SUFFICES ASSUME NEW T \in SUBSET S, Cardinality(T) <= n + 1
                 PROVE  T \in Q
      OBVIOUS
    <2>1. CASE T = {}
      BY <2>1
    <2>2. CASE T # {}
      <3>1. Cardinality(T) \in Nat /\ Cardinality(T \ {Some(T)}) = Cardinality(T) - 1
        BY <2>2, SmallerWithoutOne
      <3>2. Cardinality(T \ {Some(T)}) <= n /\ T \ {Some(T)} \in SUBSET S
        BY <3>1
      <3>3. T \ {Some(T)} \in Q
        BY <1>2, <3>2
      <3> QED BY <2>2, <3>3
    <2> QED BY <2>1, <2>2
  <1> HIDE DEF P
  <1>3. \A n \in Nat : n \in P
    BY <1>1, <1>2, SetInduction
  <1>4. ASSUME NEW T \in SUBSET S
        PROVE  T \in Q
    BY <1>3, SmallerWithoutOne DEF P
  <1> QED BY <1>4

(* The sum of f over S.  *)
SumOver(f, S) == (CHOOSE h : AddsOver(h, f, S))[S]

LEMMA SumOverIsAdded ==
  ASSUME NEW S, IsFiniteSet(S), NEW f
  PROVE  \E h : AddsOver(h, f, S) /\ SumOver(f, S) = h[S]
  BY AddsOverExists DEF SumOver

(* No two functions add up f differently.  *)
LEMMA AddsOverUnique ==
  ASSUME NEW S, IsFiniteSet(S), NEW f, NEW g, NEW h, AddsOver(g, f, S), AddsOver(h, f, S)
  PROVE  g[S] = h[S]
  <1> DEFINE Q == {T \in SUBSET S : g[T] = h[T]}
  <1>1. {} \in Q
    <2>1. g[{}] = 0
      BY AddsOverEmpty
    <2>2. h[{}] = 0
      BY AddsOverEmpty
    <2> QED BY <2>1, <2>2
  <1>2. ASSUME NEW T \in SUBSET S, T # {}, T \ {Some(T)} \in Q
        PROVE  T \in Q
    <2>1. g[T] = f[Some(T)] + g[T \ {Some(T)}]
      BY <1>2, AddsOverRecursion
    <2>2. h[T] = f[Some(T)] + h[T \ {Some(T)}]
      BY <1>2, AddsOverRecursion
    <2>3. g[T \ {Some(T)}] = h[T \ {Some(T)}]
      BY <1>2
    <2> QED BY <2>1, <2>2, <2>3
  <1> HIDE DEF Q
  <1>3. \A T \in SUBSET S : T \in Q
    BY <1>1, <1>2, SubsetInduction
  <1>4. S \in Q
    BY <1>3
  <1> QED BY <1>4 DEF Q

(* If each k * f[x] is at most g[x] + d * e[x], so is the sum.  *)
LEMMA AddsOverBound ==
  ASSUME NEW S, IsFiniteSet(S), NEW k \in Int, NEW d \in Int,
         NEW f \in [S -> Int], NEW g \in [S -> Int], NEW e \in [S -> Int],
         \A x \in S : k * f[x] <= g[x] + d * e[x],
         NEW sf, AddsOver(sf, f, S), NEW sg, AddsOver(sg, g, S), NEW se, AddsOver(se, e, S)
  PROVE  \A T \in SUBSET S : /\ sf[T] \in Int /\ sg[T] \in Int /\ se[T] \in Int
                             /\ k * sf[T] <= sg[T] + d * se[T]
  <1> DEFINE Q == {T \in SUBSET S : /\ sf[T] \in Int /\ sg[T] \in Int /\ se[T] \in Int
                                    /\ k * sf[T] <= sg[T] + d * se[T]}
  <1>1. {} \in Q
    <2>1. sf[{}] = 0 /\ sg[{}] = 0 /\ se[{}] = 0
      BY AddsOverEmpty
    <2> QED BY <2>1
  <1>2. ASSUME NEW T \in SUBSET S, T # {}, T \ {Some(T)} \in Q
        PROVE  T \in Q
    <2> DEFINE x == Some(T)
               R == T \ {x}
    <2>1. /\ x \in S
          /\ sf[T] = f[x] + sf[R] /\ sg[T] = g[x] + sg[R] /\ se[T] = e[x] + se[R]
      BY <1>2, AddsOverRecursion
    <2>2. sf[R] \in Int /\ sg[R] \in Int /\ se[R] \in Int /\ k * sf[R] <= sg[R] + d * se[R]
      BY <1>2
    <2> HIDE DEF x, R
    <2>3. f[x] \in Int /\ g[x] \in Int /\ e[x] \in Int /\ k * f[x] <= g[x] + d * e[x]
      BY <2>1
    <2>4. /\ k * (f[x] + sf[R]) = k * f[x] + k * sf[R]
          /\ d * (e[x] + se[R]) = d * e[x] + d * se[R]
      BY <2>2, <2>3
    <2>5. /\ k * f[x] \in Int /\ k * sf[R] \in Int
          /\ d * e[x] \in Int /\ d * se[R] \in Int
      BY <2>2, <2>3
    <2>6. k * sf[T] <= sg[T] + d * se[T]
      BY <2>1, <2>2, <2>3, <2>4, <2>5
    <2>7. sf[T] \in Int /\ sg[T] \in Int /\ se[T] \in Int
      BY <2>1, <2>2, <2>3
    <2> QED BY <2>6, <2>7
  <1> HIDE DEF Q
  <1>3. \A T \in SUBSET S : T \in Q
    BY <1>1, <1>2, SubsetInduction
  <1> QED BY <1>3 DEF Q

LEMMA SumOverBound ==
  ASSUME NEW S, IsFiniteSet(S), NEW k \in Int, NEW d \in Int,
         NEW f \in [S -> Int], NEW g \in [S -> Int], NEW e \in [S -> Int],
         \A x \in S : k * f[x] <= g[x] + d * e[x]
  PROVE  /\ SumOver(f, S) \in Int /\ SumOver(g, S) \in Int /\ SumOver(e, S) \in Int
         /\ k * SumOver(f, S) <= SumOver(g, S) + d * SumOver(e, S)
  <1>1. PICK sf : AddsOver(sf, f, S) /\ SumOver(f, S) = sf[S]
    BY SumOverIsAdded
  <1>2. PICK sg : AddsOver(sg, g, S) /\ SumOver(g, S) = sg[S]
    BY SumOverIsAdded
  <1>3. PICK se : AddsOver(se, e, S) /\ SumOver(e, S) = se[S]
    BY SumOverIsAdded
  <1>4. S \in SUBSET S
    OBVIOUS
  <1>5. \A T \in SUBSET S : /\ sf[T] \in Int /\ sg[T] \in Int /\ se[T] \in Int
                            /\ k * sf[T] <= sg[T] + d * se[T]
    BY <1>1, <1>2, <1>3, AddsOverBound
  <1> QED BY <1>1, <1>2, <1>3, <1>4, <1>5

LEMMA SumOverBelow ==
  ASSUME NEW S, IsFiniteSet(S), NEW k \in Int, NEW f \in [S -> Int], NEW g \in [S -> Int],
         \A x \in S : k * f[x] <= g[x]
  PROVE  /\ SumOver(f, S) \in Int /\ SumOver(g, S) \in Int
         /\ k * SumOver(f, S) <= SumOver(g, S)
  <1>1. PICK d \in Int : d = 0
    OBVIOUS
  <1>2. \A x \in S : k * f[x] <= g[x] + d * g[x]
    BY <1>1
  <1>3. /\ SumOver(f, S) \in Int /\ SumOver(g, S) \in Int
        /\ k * SumOver(f, S) <= SumOver(g, S) + d * SumOver(g, S)
    BY <1>2, SumOverBound
  <1> QED BY <1>1, <1>3

(* Functions that differ at s alone have sums that differ as their values   *)
(* at s do.                                                                 *)
LEMMA AddsOverChange ==
  ASSUME NEW S, IsFiniteSet(S), NEW s \in S,
         NEW f \in [S -> Int], NEW g \in [S -> Int],
         \A x \in S : x # s => f[x] = g[x],
         NEW sf, AddsOver(sf, f, S), NEW sg, AddsOver(sg, g, S)
  PROVE  \A T \in SUBSET S :
           /\ sf[T] \in Int /\ sg[T] \in Int
           /\ s \notin T => sg[T] = sf[T]
           /\ s \in T => sg[T] = sf[T] + g[s] - f[s]
  <1> DEFINE Q == {T \in SUBSET S : /\ sf[T] \in Int /\ sg[T] \in Int
                                    /\ s \notin T => sg[T] = sf[T]
                                    /\ s \in T => sg[T] = sf[T] + g[s] - f[s]}
  <1>1. {} \in Q
    <2>1. sf[{}] = 0
      BY AddsOverEmpty
    <2>2. sg[{}] = 0
      BY AddsOverEmpty
    <2> QED BY <2>1, <2>2
  <1>2. ASSUME NEW T \in SUBSET S, T # {}, T \ {Some(T)} \in Q
        PROVE  T \in Q
    <2> DEFINE x == Some(T)
               R == T \ {x}
    <2>0. x \in S /\ x \in T /\ sf[T] = f[x] + sf[R]
      BY <1>2, AddsOverRecursion
    <2>1. sg[T] = g[x] + sg[R]
      BY <1>2, AddsOverRecursion
    <2>2. /\ sf[R] \in Int /\ sg[R] \in Int
          /\ s \notin R => sg[R] = sf[R]
          /\ s \in R => sg[R] = sf[R] + g[s] - f[s]
      BY <1>2
    <2>3. /\ x \notin R
          /\ s # x => (s \in R <=> s \in T)
      OBVIOUS
    <2> HIDE DEF x, R
    <2>4. f[x] \in Int /\ g[x] \in Int /\ f[s] \in Int /\ g[s] \in Int
      BY <2>0
    <2>5. x # s => f[x] = g[x]
      BY <2>0
    <2>6. CASE x = s
      BY <2>0, <2>1, <2>2, <2>3, <2>4, <2>6
    <2>7. CASE x # s
      BY <2>0, <2>1, <2>2, <2>3, <2>4, <2>5, <2>7
    <2> QED BY <2>6, <2>7
  <1> HIDE DEF Q
  <1>3. \A T \in SUBSET S : T \in Q
    BY <1>1, <1>2, SubsetInduction
  <1> QED BY <1>3 DEF Q

LEMMA SumOverChange ==
  ASSUME NEW S, IsFiniteSet(S), NEW s \in S,
         NEW f \in [S -> Int], NEW g \in [S -> Int],
         \A x \in S : x # s => f[x] = g[x]
  PROVE  SumOver(g, S) = SumOver(f, S) + g[s] - f[s]
  <1>1. PICK sf : AddsOver(sf, f, S) /\ SumOver(f, S) = sf[S]
    BY SumOverIsAdded
  <1>2. PICK sg : AddsOver(sg, g, S) /\ SumOver(g, S) = sg[S]
    BY SumOverIsAdded
  <1>3. S \in SUBSET S
    OBVIOUS
  <1>4. \A T \in SUBSET S : s \in T => sg[T] = sf[T] + g[s] - f[s]
    BY <1>1, <1>2, AddsOverChange
  <1> QED BY <1>1, <1>2, <1>3, <1>4

(* The sum of natural numbers is natural, and none is more than the sum.  *)
LEMMA SumOverNat ==
  ASSUME NEW S, IsFiniteSet(S), NEW f \in [S -> Nat]
  PROVE  /\ SumOver(f, S) \in Nat
         /\ \A s \in S : f[s] <= SumOver(f, S)
  <1>0. f \in [S -> Int]
    OBVIOUS
  <1>1. PICK sf : AddsOver(sf, f, S) /\ SumOver(f, S) = sf[S]
    BY SumOverIsAdded
  <1> DEFINE Q == {T \in SUBSET S : sf[T] \in Nat /\ \A s \in T : f[s] <= sf[T]}
  <1>2. {} \in Q
    BY <1>1, AddsOverEmpty
  <1>3. ASSUME NEW T \in SUBSET S, T # {}, T \ {Some(T)} \in Q
        PROVE  T \in Q
    <2> DEFINE x == Some(T)
               R == T \ {x}
    <2>1. x \in S /\ sf[T] = f[x] + sf[R]
      BY <1>1, <1>3, AddsOverRecursion
    <2>2. sf[R] \in Nat /\ \A s \in R : f[s] <= sf[R]
      BY <1>3
    <2>3. \A s \in T : s = x \/ s \in R
      OBVIOUS
    <2> HIDE DEF x, R
    <2>4. \A s \in T : f[s] \in Nat
      OBVIOUS
    <2> QED BY <2>1, <2>2, <2>3, <2>4
  <1> HIDE DEF Q
  <1>4. \A T \in SUBSET S : T \in Q
    BY <1>2, <1>3, SubsetInduction
  <1>5. S \in SUBSET S
    OBVIOUS
  <1>6. S \in Q
    BY <1>4, <1>5
  <1> QED BY <1>1, <1>6 DEF Q

(* The sum of what each element of S is mapped to, 0 for each, is 0.  *)
LEMMA SumOverZero ==
  ASSUME NEW S, IsFiniteSet(S), NEW f \in [S -> Int], \A x \in S : f[x] = 0
  PROVE  SumOver(f, S) = 0
  <1>1. PICK sf : AddsOver(sf, f, S) /\ SumOver(f, S) = sf[S]
    BY SumOverIsAdded
  <1> DEFINE Q == {T \in SUBSET S : sf[T] = 0}
  <1>2. {} \in Q
    BY <1>1, AddsOverEmpty
  <1>3. ASSUME NEW T \in SUBSET S, T # {}, T \ {Some(T)} \in Q
        PROVE  T \in Q
    <2>1. Some(T) \in S /\ sf[T] = f[Some(T)] + sf[T \ {Some(T)}]
      BY <1>1, <1>3, AddsOverRecursion
    <2>2. sf[T \ {Some(T)}] = 0 /\ f[Some(T)] = 0
      BY <1>3, <2>1
    <2> QED BY <2>1, <2>2
  <1> HIDE DEF Q
  <1>4. \A T \in SUBSET S : T \in Q
    BY <1>2, <1>3, SubsetInduction
  <1>5. S \in Q
    BY <1>4
  <1> QED BY <1>1, <1>5 DEF Q
==============================================================================
