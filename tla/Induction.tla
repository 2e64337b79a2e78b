------------------------------- MODULE Induction -------------------------------
(***************************************************************************)
(* Induction on natural numbers as statements about sets, which, unlike    *)
(* the library's theorems, take no operator as a parameter.  It rests on   *)
(* the strict-subset order of finite sets being well founded.              *)
(***************************************************************************)
EXTENDS Integers, FiniteSetTheorems, WellFoundedInduction, TLAPS

(* A set of naturals that is not empty has a least element.                *)
LEMMA LeastNat ==
  ASSUME NEW T, T \subseteq Nat, T # {}
  PROVE  \E x \in T : \A y \in T : x <= y
  <1> DEFINE R     == StrictSubsetOrdering(Nat)
             F     == FiniteSubsetsOf(Nat)
             below == {0..i : i \in T}
  <1>1. IsWellFoundedOn(R, F)
    BY FS_StrictSubsetOrderingWellFounded
  <1>2. below \subseteq F
    <2>1. \A i \in T : IsFiniteSet(0..i) /\ 0..i \subseteq Nat
      BY FS_Interval
    <2>2. QED
      BY <2>1 DEF FiniteSubsetsOf
  <1>3. below # {}
    OBVIOUS
  <1> HIDE DEF R, F, below
  <1>4. PICK X \in below : \A Y \in below : <<Y, X>> \notin R
    BY <1>1, <1>2, <1>3, WFMin
  <1>5. PICK x \in T : X = 0..x
    BY DEF below
  <1>6. ASSUME NEW y \in T, y < x
        PROVE  FALSE
    <2>1. 0..y \in below
      BY DEF below
    <2>2. 0..y \in SUBSET Nat /\ 0..x \in SUBSET Nat
      OBVIOUS
    <2>3. x \in 0..x /\ x \notin 0..y /\ 0..y \subseteq 0..x
      BY <1>6
    <2>4. <<0..y, X>> \in R
      BY <1>5, <2>2, <2>3 DEF R, StrictSubsetOrdering
    <2>5. QED
      BY <1>4, <2>1, <2>4
  <1>7. QED
    BY <1>6

(* A set with 0 and with every successor of its members has every natural. *)
LEMMA SetInduction ==
  ASSUME NEW S, 0 \in S, \A n \in Nat : n \in S => n + 1 \in S
  PROVE  Nat \subseteq S
  <1> SUFFICES ASSUME Nat \ S # {} PROVE FALSE
    OBVIOUS
  <1>1. PICK x \in Nat \ S : \A y \in Nat \ S : x <= y
    BY LeastNat
  <1>2. x - 1 \in Nat
    BY x # 0
  <1>3. x - 1 \in S
    BY <1>1, <1>2
  <1>4. QED
    BY <1>2, <1>3

(* Induction from 0 up to a bound.                                         *)
LEMMA BoundedInduction ==
  ASSUME NEW N \in Nat, NEW S, 0 \in S, \A k \in 1..N : k - 1 \in S => k \in S
  PROVE  0..N \subseteq S
  <1> DEFINE T == {n \in Nat : n \in 0..N => n \in S}
  <1>1. 0 \in T
    OBVIOUS
  <1>2. ASSUME NEW n \in Nat, n \in T
        PROVE  n + 1 \in T
    <2> SUFFICES ASSUME n + 1 \in 0..N PROVE n + 1 \in S
      OBVIOUS
    <2>1. n \in S /\ n + 1 \in 1..N /\ (n + 1) - 1 = n
      BY <1>2
    <2>2. QED
      BY <2>1
  <1>3. Nat \subseteq T
    <2> HIDE DEF T
    <2> QED
      BY <1>1, <1>2, SetInduction
  <1>4. QED
    BY <1>3

(* f iterates the steps G[1], ..., G[N] on D, starting with a.             *)
Iterates(f, D, a, G, N) ==
    /\ f \in [0..N -> D]
    /\ f[0] = a
    /\ \A k \in 1..N : f[k] = G[k][f[k - 1]]

(* A start and a step define a function on the numbers up to a bound.      *)
LEMMA IterateExists ==
  ASSUME NEW D, NEW a \in D, NEW G \in [Nat -> [D -> D]], NEW N \in Nat
  PROVE  \E f : Iterates(f, D, a, G, N)
  <1> DEFINE S == {n \in Nat : \E f : Iterates(f, D, a, G, n)}
  <1>1. 0 \in S
    <2> DEFINE g == [k \in 0..0 |-> a]
    <2>1. g \in [0..0 -> D] /\ g[0] = a /\ 1..0 = {}
      OBVIOUS
    <2> HIDE DEF g
    <2>2. Iterates(g, D, a, G, 0)
      BY <2>1 DEF Iterates
    <2>3. QED
      BY <2>2
  <1>2. ASSUME NEW n \in Nat, n \in S
        PROVE  n + 1 \in S
    <2>1. PICK f : Iterates(f, D, a, G, n)
      BY <1>2
    <2> DEFINE g == [k \in 0..(n + 1) |-> IF k = n + 1 THEN G[n + 1][f[n]] ELSE f[k]]
    <2>2. g \in [0..(n + 1) -> D]
      BY <2>1 DEF Iterates
    <2>3. g[0] = a
      BY <2>1 DEF Iterates
    <2>4. ASSUME NEW k \in 1..(n + 1)
          PROVE  g[k] = G[k][g[k - 1]]
      <3>1. CASE k = n + 1
        BY <3>1
      <3>2. CASE k # n + 1
        BY <3>2, <2>1 DEF Iterates
      <3>3. QED
        BY <3>1, <3>2
    <2> HIDE DEF g
    <2>5. Iterates(g, D, a, G, n + 1)
      BY <2>2, <2>3, <2>4 DEF Iterates
    <2>6. QED
      BY <2>5
  <1> HIDE DEF S
  <1>3. Nat \subseteq S
    BY <1>1, <1>2, SetInduction
  <1>4. QED
    BY <1>3 DEF S

(* What G gives at i depends on the values below i only. *)
LooksBack(G, L, V) ==
    \A i \in 1..L : \A f, g \in [1..L -> V] :
        (\A j \in 1..(i - 1) : f[j] = g[j]) => G[i][f] = G[i][g]

(* f takes all its values from G. *)
CourseOf(f, G, L, V) == f \in [1..L -> V] /\ \A i \in 1..L : f[i] = G[i][f]

(* Such a G defines a function on the numbers from 1 up to a bound.        *)
LEMMA CourseOfValues ==
  ASSUME NEW V, NEW v \in V, NEW L \in Nat, NEW G \in [1..L -> [[1..L -> V] -> V]],
         LooksBack(G, L, V)
  PROVE  \E f : CourseOf(f, G, L, V)
  <1> DEFINE D == [1..L -> V]
             a == [i \in 1..L |-> v]
             S == [k \in Nat |-> [f \in D |-> IF k \in 1..L THEN [f EXCEPT ![k] = G[k][f]] ELSE f]]
  <1>1. a \in D
    OBVIOUS
  <1>2. \A k \in 1..L : \A f \in D : G[k][f] \in V /\ [f EXCEPT ![k] = G[k][f]] \in D
    OBVIOUS
  <1>3. S \in [Nat -> [D -> D]]
    BY <1>2
  <1>4. \A k \in 1..L : \A f \in D : S[k][f] = [f EXCEPT ![k] = G[k][f]]
    OBVIOUS
  <1> HIDE DEF S, a
  <1>5. PICK F : Iterates(F, D, a, S, L)
    <2> HIDE DEF D
    <2> QED
      BY <1>1, <1>3, IterateExists
  <1>6. \A k \in 0..L : F[k] \in D
    BY <1>5 DEF Iterates
  <1>7. \A k \in 1..L : k - 1 \in 0..L /\ F[k] = [F[k - 1] EXCEPT ![k] = G[k][F[k - 1]]]
    <2> TAKE k \in 1..L
    <2>1. k - 1 \in 0..L
      OBVIOUS
    <2>2. F[k] = S[k][F[k - 1]]
      BY <1>5 DEF Iterates
    <2>3. QED
      BY <1>4, <1>6, <2>1, <2>2
  <1> DEFINE T == {k \in 0..L : \A i \in 1..k : F[k][i] = G[i][F[k]]}
  <1>8. 0 \in T
    OBVIOUS
  <1>9. ASSUME NEW k \in 1..L, k - 1 \in T
        PROVE  k \in T
    <2> DEFINE f == F[k - 1]
               g == F[k]
    <2>1. f \in D /\ g \in D /\ g = [f EXCEPT ![k] = G[k][f]] /\ \A i \in 1..(k - 1) : f[i] = G[i][f]
      BY <1>6, <1>7, <1>9
    <2> HIDE DEF f, g
    <2>2. \A j \in 1..(k - 1) : j \in 1..L /\ j # k /\ f[j] = g[j]
      BY <2>1
    <2>3. \A i \in 1..k : i \in 1..L /\ G[i][f] = G[i][g]
      <3> TAKE i \in 1..k
      <3>1. i \in 1..L /\ \A j \in 1..(i - 1) : j \in 1..(k - 1)
        OBVIOUS
      <3>2. \A j \in 1..(i - 1) : f[j] = g[j]
        BY <2>2, <3>1
      <3>3. f \in [1..L -> V] /\ g \in [1..L -> V]
        BY <2>1
      <3>4. G[i][f] = G[i][g]
        BY <3>1, <3>2, <3>3, Zenon DEF LooksBack
      <3>5. QED
        BY <3>1, <3>4
    <2>4. g[k] = G[k][f]
      BY <2>1
    <2>5. \A i \in 1..k : g[i] = G[i][g]
      <3> TAKE i \in 1..k
      <3>1. i = k \/ i \in 1..(k - 1)
        OBVIOUS
      <3>2. i \in 1..(k - 1) => g[i] = G[i][f]
        BY <2>1, <2>2
      <3>3. i = k => g[i] = G[i][f]
        BY <2>4
      <3>4. QED
        BY <2>3, <3>1, <3>2, <3>3
    <2>6. QED
      BY <2>5 DEF g
  <1>10. L \in T
    <2> HIDE DEF T
    <2>1. 0..L \subseteq T
      BY <1>8, <1>9, BoundedInduction
    <2>2. QED
      BY <2>1
  <1>11. CourseOf(F[L], G, L, V)
    BY <1>6, <1>10 DEF CourseOf
  <1>12. QED
    BY <1>11

(* What a function that is one to one counts. *)
LEMMA CountedBy ==
  ASSUME NEW S, IsFiniteSet(S), NEW T, NEW f \in [S -> T],
         \A u, v \in S : f[u] = f[v] => u = v,
         \A w \in T : \E u \in S : f[u] = w
  PROVE  IsFiniteSet(T) /\ Cardinality(T) = Cardinality(S)
  <1>1. f \in Bijection(S, T)
    BY DEF Bijection, Injection, Surjection, IsInjective
  <1>2. ExistsBijection(S, T)
    BY <1>1 DEF ExistsBijection
  <1>3. QED
    BY <1>2, FS_Bijection

(* A function on a finite set has finitely many values.                    *)
LEMMA ValuesFinite ==
  ASSUME NEW S, IsFiniteSet(S), NEW T, NEW f \in [S -> T], \A t \in T : \E i \in S : f[i] = t
  PROVE  IsFiniteSet(T)
  <1>1. f \in Surjection(S, T)
    BY DEF Surjection
  <1>2. QED
    BY <1>1, FS_Surjection
=============================================================================
