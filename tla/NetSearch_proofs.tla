--------------------------- MODULE NetSearch_proofs ---------------------------
(***************************************************************************)
(* What holds of the search for one net, on every device and for any costs: *)
(* the lemmas that the theorems about a caller of the search rest on.      *)
(* First what the functions of NetSearch compute of a route: the branch    *)
(* that BranchTo traces back, the nodes that ReachedBy finds, and why a    *)
(* list that searches have built branch by branch is a tree.  Then what    *)
(* holds at every step of the search; n is the net that is routed.         *)
(***************************************************************************)
EXTENDS NetSearch, Induction, SequenceTheorems

(* The nodes of a list that is a sequence of nodes.                        *)
LEMMA ElemsFit ==
  ASSUME NEW s \in Seq(Node)
  PROVE  ElemsOf(s) \subseteq Node
  BY DEF ElemsOf

(* The elements of a list and a branch appended to it.                     *)
LEMMA ElemsAppended ==
  ASSUME NEW p \in Seq(Node), NEW b \in Seq(Node)
  PROVE  ElemsOf(p \o b) = ElemsOf(p) \cup ElemsOf(b)
  <1>1. \A i \in 1..Len(p) : i \in 1..Len(p \o b) /\ (p \o b)[i] = p[i]
    OBVIOUS
  <1>2. \A i \in 1..Len(b) : i + Len(p) \in 1..Len(p \o b) /\ (p \o b)[i + Len(p)] = b[i]
    OBVIOUS
  <1>3. \A i \in 1..Len(p \o b) : \/ i \in 1..Len(p) /\ (p \o b)[i] = p[i]
                                  \/ i - Len(p) \in 1..Len(b) /\ (p \o b)[i] = b[i - Len(p)]
    OBVIOUS
  <1>4. DOMAIN p = 1..Len(p) /\ DOMAIN b = 1..Len(b) /\ DOMAIN (p \o b) = 1..Len(p \o b)
    OBVIOUS
  <1>5. ElemsOf(p \o b) \subseteq ElemsOf(p) \cup ElemsOf(b)
    BY <1>3, <1>4 DEF ElemsOf
  <1>6. ElemsOf(p) \subseteq ElemsOf(p \o b)
    BY <1>1, <1>4 DEF ElemsOf
  <1>7. ElemsOf(b) \subseteq ElemsOf(p \o b)
    BY <1>2, <1>4 DEF ElemsOf
  <1>8. QED
    BY <1>5, <1>6, <1>7
-----------------------------------------------------------------------------
(* One step back along the predecessors pv.                                *)
Back(s, pv) == IF pv[Head(s)] = NULL THEN s ELSE <<pv[Head(s)]>> \o s

NonEmpty == Seq(Node) \ {<<>>}

(* f holds what BranchTo has after 0, 1, ... steps from x.                 *)
Traces(f, x, pv) ==
    /\ f \in [0..Cardinality(Node) -> NonEmpty]
    /\ f[0] = <<x>>
    /\ \A k \in 1..Cardinality(Node) : f[k] = Back(f[k - 1], pv)
    /\ BranchTo(x, pv) = f[Cardinality(Node)]

(* BranchTo goes back one predecessor at a time.                           *)
LEMMA BranchTraced ==
  ASSUME NEW x \in Node, NEW pv \in [Node -> Node \cup {NULL}]
  PROVE  \E f : Traces(f, x, pv)
  <1> DEFINE N      == Cardinality(Node)
             Up(s)  == Back(s, pv)
             G      == [k \in Nat |-> [s \in NonEmpty |-> Up(s)]]
             a      == <<x>>
             Def(h) == h = [k \in 0..N |-> IF k = 0 THEN a ELSE Up(h[k - 1])]
             h      == CHOOSE g : Def(g)
  <1>1. N \in Nat
    BY NodeAssumption, FS_CardinalityType
  <1>2. \A s \in NonEmpty : Up(s) \in NonEmpty
    BY DEF NonEmpty, Back
  <1>3. a \in NonEmpty
    BY DEF NonEmpty
  <1>4. BranchTo(x, pv) = h[N]
    BY DEF BranchTo, Back
  <1> HIDE DEF Up, a, N
  <1>5. G \in [Nat -> [NonEmpty -> NonEmpty]]
    BY <1>2
  <1>6. \E f : Iterates(f, NonEmpty, a, G, N)
    <2> HIDE DEF G, Def, h
    <2> QED
      BY <1>5, <1>3, <1>1, IterateExists
  <1>7. PICK f \in [0..N -> NonEmpty] : f[0] = a /\ \A k \in 1..N : f[k] = Up(f[k - 1])
    <2>1. \A k \in 1..N : k \in Nat /\ k - 1 \in 0..N
      BY <1>1
    <2>2. QED
      BY <1>6, <2>1 DEF Iterates
  <1>8. Def(f)
    <2>1. f = [k \in 0..N |-> f[k]]
      OBVIOUS
    <2>2. \A k \in 0..N : f[k] = (IF k = 0 THEN a ELSE Up(f[k - 1]))
      BY <1>7, <1>1
    <2>3. QED
      BY <2>1, <2>2
  <1>9. Def(h)
    <2> HIDE DEF Def
    <2> QED
      BY <1>8
  <1> HIDE DEF h
  <1>10. h[0] = a /\ \A k \in 1..N : h[k] = Up(h[k - 1])
    BY <1>9, <1>1
  <1>11. \A k \in 0..N : h[k] \in NonEmpty
    <2> DEFINE S == {k \in 0..N : h[k] \in NonEmpty}
    <2>1. 0 \in S
      BY <1>10, <1>1, <1>3
    <2>2. \A k \in 1..N : k - 1 \in S => k \in S
      BY <1>10, <1>2
    <2> HIDE DEF S
    <2>3. 0..N \subseteq S
      BY <2>1, <2>2, BoundedInduction, <1>1
    <2>4. QED
      BY <2>3 DEF S
  <1>12. h \in [0..N -> NonEmpty]
    BY <1>9, <1>11
  <1>13. Traces(h, x, pv)
    BY <1>4, <1>10, <1>12 DEF Traces, Up, a, N
  <1>14. QED
    BY <1>13

(* A branch is made of nodes.                                              *)
LEMMA BranchFits ==
  ASSUME NEW x \in Node, NEW pv \in [Node -> Node \cup {NULL}]
  PROVE  BranchTo(x, pv) \in NonEmpty
  <1>1. PICK f : Traces(f, x, pv)
    BY BranchTraced
  <1>2. Cardinality(Node) \in Nat
    BY NodeAssumption, FS_CardinalityType
  <1>3. QED
    BY <1>1, <1>2 DEF Traces
-----------------------------------------------------------------------------
(* The set S with all that relation R leads to from it in one step.        *)
GrownBy(S, R) == S \cup {e[2] : e \in {f \in R : f[1] \in S}}

Closed(R, S) == \A e \in R : e[1] \in S => e[2] \in S

(* f holds what ReachedBy has after 0, 1, ... steps.                       *)
Growth(f, R, x) ==
    /\ f \in [0..Cardinality(Node) -> SUBSET Node]
    /\ f[0] = {x}
    /\ \A k \in 1..Cardinality(Node) : f[k] = GrownBy(f[k - 1], R)
    /\ ReachedBy(R, x) = f[Cardinality(Node)]

(* ReachedBy grows one switch at a time, as a recursive function of the    *)
(* steps.                                                                  *)
LEMMA ReachedGrows ==
  ASSUME NEW R \in SUBSET (Node \X Node), NEW x \in Node
  PROVE  \E f : Growth(f, R, x)
  <1> DEFINE N      == Cardinality(Node)
             D      == SUBSET Node
             Up(S)  == GrownBy(S, R)
             G      == [k \in Nat |-> [S \in D |-> Up(S)]]
             a      == {x}
             Def(h) == h = [k \in 0..N |-> IF k = 0 THEN a ELSE Up(h[k - 1])]
             h      == CHOOSE g : Def(g)
  <1>1. N \in Nat
    BY NodeAssumption, FS_CardinalityType
  <1>2. \A S \in D : Up(S) \in D
    BY DEF GrownBy
  <1>3. a \in D
    OBVIOUS
  <1>4. ReachedBy(R, x) = h[N]
    BY DEF ReachedBy, GrownBy
  <1> HIDE DEF Up, a, N, D
  <1>5. G \in [Nat -> [D -> D]]
    BY <1>2
  <1>6. \E f : Iterates(f, D, a, G, N)
    <2> HIDE DEF G, Def, h
    <2> QED
      BY <1>5, <1>3, <1>1, IterateExists
  <1>7. PICK f \in [0..N -> D] : f[0] = a /\ \A k \in 1..N : f[k] = Up(f[k - 1])
    <2>1. \A k \in 1..N : k \in Nat /\ k - 1 \in 0..N
      BY <1>1
    <2>2. QED
      BY <1>6, <2>1 DEF Iterates
  <1>8. Def(f)
    <2>1. f = [k \in 0..N |-> f[k]]
      OBVIOUS
    <2>2. \A k \in 0..N : f[k] = (IF k = 0 THEN a ELSE Up(f[k - 1]))
      BY <1>7, <1>1
    <2>3. QED
      BY <2>1, <2>2
  <1>9. Def(h)
    <2> HIDE DEF Def
    <2> QED
      BY <1>8
  <1> HIDE DEF h
  <1>10. h[0] = a /\ \A k \in 1..N : h[k] = Up(h[k - 1])
    BY <1>9, <1>1
  <1>11. \A k \in 0..N : h[k] \in D
    <2> DEFINE S == {k \in 0..N : h[k] \in D}
    <2>1. 0 \in S
      BY <1>10, <1>1, <1>3
    <2>2. \A k \in 1..N : k - 1 \in S => k \in S
      BY <1>10, <1>2
    <2> HIDE DEF S
    <2>3. 0..N \subseteq S
      BY <2>1, <2>2, BoundedInduction, <1>1
    <2>4. QED
      BY <2>3 DEF S
  <1>12. h \in [0..N -> D]
    BY <1>9, <1>11
  <1>13. Growth(h, R, x)
    BY <1>4, <1>10, <1>12 DEF Growth, Up, a, N, D
  <1>14. QED
    BY <1>13

(* ReachedBy is the least set with x that R does not lead out of: as many  *)
(* steps as there are nodes are enough.                                    *)
LEMMA ReachedLeast ==
  ASSUME NEW R \in SUBSET (Node \X Node), NEW x \in Node
  PROVE  /\ ReachedBy(R, x) \in SUBSET Node
         /\ x \in ReachedBy(R, x)
         /\ Closed(R, ReachedBy(R, x))
         /\ \A S : x \in S /\ Closed(R, S) => ReachedBy(R, x) \subseteq S
  <1> DEFINE N == Cardinality(Node)
  <1>1. N \in Nat /\ IsFiniteSet(Node)
    BY NodeAssumption, FS_CardinalityType
  <1>2. PICK f : Growth(f, R, x)
    BY ReachedGrows
  <1> HIDE DEF N
  <1>3. /\ \A k \in 0..N : f[k] \in SUBSET Node
        /\ f[0] = {x} /\ ReachedBy(R, x) = f[N]
        /\ \A k \in 1..N : f[k] = GrownBy(f[k - 1], R)
    BY <1>2 DEF Growth, N
  <1>4. \A S \in SUBSET Node : IsFiniteSet(S) /\ Cardinality(S) \in Nat /\ Cardinality(S) <= N
    BY <1>1, FS_Subset, FS_CardinalityType DEF N
  <1>5. \A k \in 0..N : x \in f[k] /\ (Closed(R, f[k]) \/ Cardinality(f[k]) >= k + 1)
    <2> DEFINE T == {k \in 0..N : x \in f[k] /\ (Closed(R, f[k]) \/ Cardinality(f[k]) >= k + 1)}
    <2>1. 0 \in T
      <3>1. Cardinality({x}) = 1
        BY FS_Singleton
      <3>2. QED
        BY <1>1, <1>3, <3>1
    <2>2. ASSUME NEW k \in 1..N, k - 1 \in T
          PROVE  k \in T
      <3> DEFINE A == f[k - 1]
                 B == f[k]
      <3>1. /\ k - 1 \in 0..N /\ k \in 0..N /\ (k - 1) + 1 = k
            /\ x \in A /\ (Closed(R, A) \/ Cardinality(A) >= k)
        BY <1>1, <2>2
      <3>2. A \in SUBSET Node /\ B \in SUBSET Node /\ B = GrownBy(A, R)
        BY <1>3, <3>1
      <3> HIDE DEF A, B
      <3>3. A \subseteq B
        BY <3>2 DEF GrownBy
      <3>4. CASE Closed(R, A)
        <4>1. B = A
          BY <3>2, <3>4 DEF GrownBy, Closed
        <4>2. QED
          BY <3>1, <3>4, <4>1 DEF A, B
      <3>5. CASE ~Closed(R, A)
        <4>1. PICK e \in R : e[1] \in A /\ e[2] \notin A
          BY <3>5 DEF Closed
        <4>2. e[2] \in B
          BY <3>2, <4>1 DEF GrownBy
        <4>3. Cardinality(A) < Cardinality(B)
          <5>1. A # B /\ IsFiniteSet(B) /\ A \in SUBSET B
            BY <4>1, <4>2, <3>2, <3>3, <1>4
          <5>2. Cardinality(A) <= Cardinality(B) /\ Cardinality(A) # Cardinality(B)
            BY <5>1, FS_Subset
          <5>3. Cardinality(A) \in Nat /\ Cardinality(B) \in Nat
            BY <3>2, <1>4
          <5>4. QED
            BY <5>2, <5>3
        <4>4. Cardinality(B) >= k + 1
          BY <4>3, <3>1, <3>2, <3>5, <1>4
        <4>5. QED
          BY <3>1, <3>3, <4>4 DEF B
      <3>6. QED
        BY <3>4, <3>5
    <2> HIDE DEF T
    <2>3. 0..N \subseteq T
      BY <2>1, <2>2, BoundedInduction, <1>1
    <2>4. QED
      BY <2>3 DEF T
  <1>6. Closed(R, f[N]) /\ x \in f[N] /\ f[N] \in SUBSET Node
    <2>1. N \in 0..N
      BY <1>1
    <2>2. Cardinality(f[N]) <= N /\ Cardinality(f[N]) \in Nat
      BY <1>3, <1>4, <2>1
    <2>3. QED
      BY <1>1, <1>3, <1>5, <2>1, <2>2
  <1>7. ASSUME NEW S, x \in S, Closed(R, S)
        PROVE  f[N] \subseteq S
    <2> DEFINE T == {k \in 0..N : f[k] \subseteq S}
    <2>1. 0 \in T
      BY <1>1, <1>3, <1>7
    <2>2. ASSUME NEW k \in 1..N, k - 1 \in T
          PROVE  k \in T
      <3>1. f[k - 1] \subseteq S /\ f[k] = GrownBy(f[k - 1], R)
        BY <1>3, <2>2
      <3>2. GrownBy(f[k - 1], R) \subseteq S
        BY <3>1, <1>7 DEF GrownBy, Closed
      <3>3. QED
        BY <3>1, <3>2
    <2> HIDE DEF T
    <2>3. 0..N \subseteq T
      BY <2>1, <2>2, BoundedInduction, <1>1
    <2>4. QED
      BY <2>3, <1>1 DEF T
  <1>8. QED
    BY <1>3, <1>6, <1>7
-----------------------------------------------------------------------------
(* A branch that ends in x: each node is the predecessor of the next, and  *)
(* none occurs twice.                                                      *)
IsBranch(b, x, pv) ==
    /\ b \in NonEmpty
    /\ b[Len(b)] = x
    /\ \A i \in 1..(Len(b) - 1) : pv[b[i + 1]] = b[i]
    /\ \A i, j \in 1..Len(b) : b[i] = b[j] => i = j

(* No set of nodes in A is closed under pv: going back comes to an end.    *)
Acyclic(pv, A) == \A S \in SUBSET A : S # {} => \E y \in S : pv[y] \notin S

(* One step back along the predecessors keeps a branch a branch.           *)
LEMMA BackKeepsBranch ==
  ASSUME NEW x \in Node, NEW pv, NEW A \in SUBSET Node, \A y \in A : pv[y] \in A \cup {NULL},
         Acyclic(pv, A), NEW s, IsBranch(s, x, pv), ElemsOf(s) \subseteq A,
         pv[Head(s)] # NULL
  PROVE  /\ IsBranch(Back(s, pv), x, pv)
         /\ ElemsOf(Back(s, pv)) \subseteq A
         /\ Len(Back(s, pv)) = Len(s) + 1
  <1> DEFINE y == pv[s[1]]
             t == Back(s, pv)
             L == Len(s)
  <1>1. s \in Seq(Node) /\ L \in Nat /\ L >= 1 /\ Head(s) = s[1] /\ DOMAIN s = 1..L
    BY DEF IsBranch, NonEmpty
  <1>2. \A i \in 1..L : s[i] \in A /\ s[i] \in Node
    BY <1>1 DEF ElemsOf
  <1>3. y \in A /\ y \in Node /\ t = <<y>> \o s
    BY <1>1, <1>2 DEF Back
  <1>4. /\ t \in Seq(Node) /\ Len(t) = L + 1 /\ t[1] = y /\ DOMAIN t = 1..(L + 1)
        /\ \A i \in 1..L : t[i + 1] = s[i]
    BY <1>1, <1>3
  <1>5. \A i \in 1..L : s[i] # y
    <2> SUFFICES ASSUME NEW i \in 1..L, s[i] = y
                 PROVE  FALSE
      OBVIOUS
    <2> DEFINE S == {s[j] : j \in 1..i}
    <2>1. S \in SUBSET A /\ s[1] \in S
      BY <1>1, <1>2
    <2>2. PICK j \in 1..i : pv[s[j]] \notin S
      BY <2>1 DEF Acyclic
    <2>3. CASE j = 1
      BY <2>2, <2>3
    <2>4. CASE j # 1
      <3>1. j - 1 \in 1..(L - 1) /\ (j - 1) + 1 = j /\ j - 1 \in 1..i
        BY <1>1, <2>4
      <3>2. pv[s[j]] = s[j - 1]
        BY <3>1 DEF IsBranch
      <3>3. QED
        BY <2>2, <3>1, <3>2
    <2>5. QED
      BY <2>3, <2>4
  <1> HIDE DEF t, y
  <1>6. \A i \in 1..(L + 1) : i = 1 \/ (i - 1 \in 1..L /\ t[i] = s[i - 1])
    <2> TAKE i \in 1..(L + 1)
    <2>1. i = 1 \/ (i - 1 \in 1..L /\ (i - 1) + 1 = i)
      BY <1>1
    <2>2. QED
      BY <1>4, <2>1
  <1>7. \A i, j \in 1..(L + 1) : t[i] = t[j] => i = j
    <2> SUFFICES ASSUME NEW i \in 1..(L + 1), NEW j \in 1..(L + 1), t[i] = t[j]
                 PROVE  i = j
      OBVIOUS
    <2>1. CASE i = 1 \/ j = 1
      BY <2>1, <1>4, <1>5, <1>6
    <2>2. CASE i # 1 /\ j # 1
      <3>1. i - 1 \in 1..L /\ j - 1 \in 1..L /\ s[i - 1] = s[j - 1]
        BY <2>2, <1>6
      <3>2. i - 1 = j - 1
        BY <3>1 DEF IsBranch
      <3>3. QED
        BY <3>2
    <2>3. QED
      BY <2>1, <2>2
  <1>8. \A i \in 1..L : pv[t[i + 1]] = t[i]
    <2> TAKE i \in 1..L
    <2>1. t[i + 1] = s[i]
      BY <1>4
    <2>2. CASE i = 1
      BY <2>1, <2>2, <1>4 DEF y
    <2>3. CASE i # 1
      <3>1. i - 1 \in 1..(L - 1) /\ (i - 1) + 1 = i
        BY <1>1, <2>3
      <3>2. pv[s[i]] = s[i - 1] /\ t[i] = s[i - 1]
        BY <3>1, <1>6, <2>3 DEF IsBranch
      <3>3. QED
        BY <2>1, <3>2
    <2>4. QED
      BY <2>2, <2>3
  <1>9. t[Len(t)] = x
    BY <1>1, <1>4 DEF IsBranch
  <1>10. t \in NonEmpty
    BY <1>1, <1>4 DEF NonEmpty
  <1>11. IsBranch(t, x, pv)
    BY <1>1, <1>4, <1>7, <1>8, <1>9, <1>10 DEF IsBranch
  <1>12. ElemsOf(t) \subseteq A
    BY <1>2, <1>3, <1>4, <1>6 DEF ElemsOf
  <1>13. QED
    BY <1>4, <1>11, <1>12 DEF t

(* A list without repetitions is no longer than there are nodes.           *)
LEMMA BranchLength ==
  ASSUME NEW b \in Seq(Node), \A i, j \in 1..Len(b) : b[i] = b[j] => i = j
  PROVE  Len(b) <= Cardinality(Node)
  <1>1. b \in [1..Len(b) -> Node] /\ Len(b) \in Nat
    OBVIOUS
  <1>2. b \in Injection(1..Len(b), Node)
    BY <1>1 DEF Injection, IsInjective
  <1>3. Cardinality(1..Len(b)) <= Cardinality(Node)
    BY <1>2, NodeAssumption, FS_Injection
  <1>4. QED
    BY <1>1, <1>3, FS_Interval

(* Where going back comes to an end, BranchTo gives the whole branch from  *)
(* a node without predecessor.                                             *)
LEMMA BranchIsChain ==
  ASSUME NEW x \in Node, NEW pv \in [Node -> Node \cup {NULL}], NEW A \in SUBSET Node, x \in A,
         \A y \in A : pv[y] \in A \cup {NULL}, Acyclic(pv, A)
  PROVE  /\ IsBranch(BranchTo(x, pv), x, pv)
         /\ ElemsOf(BranchTo(x, pv)) \subseteq A
         /\ pv[BranchTo(x, pv)[1]] = NULL
  <1> DEFINE N    == Cardinality(Node)
             P(s) == IsBranch(s, x, pv) /\ ElemsOf(s) \subseteq A
  <1>1. N \in Nat
    BY NodeAssumption, FS_CardinalityType
  <1>2. PICK f : Traces(f, x, pv)
    BY BranchTraced
  <1> DEFINE T == {k \in 0..N : P(f[k]) /\ (pv[Head(f[k])] = NULL \/ Len(f[k]) = k + 1)}
  <1>3. /\ f[0] = <<x>>
        /\ \A k \in 1..N : f[k] = Back(f[k - 1], pv)
        /\ BranchTo(x, pv) = f[N]
    BY <1>2 DEF Traces
  <1>4. 0 \in T
    <2>1. IsBranch(<<x>>, x, pv)
      BY DEF IsBranch, NonEmpty
    <2>2. ElemsOf(<<x>>) \subseteq A
      BY DEF ElemsOf
    <2>3. Len(<<x>>) = 0 + 1
      OBVIOUS
    <2>4. QED
      BY <2>1, <2>2, <2>3, <1>1, <1>3
  <1>5. ASSUME NEW k \in 1..N, k - 1 \in T
        PROVE  k \in T
    <2> DEFINE s == f[k - 1]
    <2>1. f[k] = Back(s, pv) /\ P(s) /\ (pv[Head(s)] = NULL \/ Len(s) = k)
      BY <1>3, <1>5
    <2> HIDE DEF s, P
    <2>2. CASE pv[Head(s)] = NULL
      <3>1. f[k] = s
        BY <2>1, <2>2 DEF Back
      <3>2. QED
        BY <2>1, <2>2, <3>1
    <2>3. CASE pv[Head(s)] # NULL
      <3>1. P(Back(s, pv)) /\ Len(Back(s, pv)) = Len(s) + 1
        BY <2>1, <2>3, BackKeepsBranch DEF P
      <3>2. QED
        BY <2>1, <2>3, <3>1
    <2>4. QED
      BY <2>2, <2>3
  <1>6. N \in T
    <2> HIDE DEF T
    <2>1. 0..N \subseteq T
      BY <1>1, <1>4, <1>5, BoundedInduction
    <2>2. QED
      BY <2>1, <1>1
  <1>7. P(f[N]) /\ (pv[Head(f[N])] = NULL \/ Len(f[N]) = N + 1)
    BY <1>6
  <1>8. f[N] \in Seq(Node) /\ f[N] # <<>> /\ Len(f[N]) <= N
    BY <1>7, BranchLength DEF IsBranch, NonEmpty
  <1>9. Head(f[N]) = f[N][1] /\ Len(f[N]) # N + 1
    BY <1>1, <1>8
  <1>10. QED
    BY <1>3, <1>7, <1>9
-----------------------------------------------------------------------------
(* The positions of a list at which a node is new to it: all but those     *)
(* after a sink.                                                           *)
Fresh(p) == {i \in 1..Len(p) : i = 1 \/ ~IsSink(p[i - 1])}

(* A list that starts at s and was built branch by branch: it goes along    *)
(* switches; after a sink it goes on from a node that is on it already.     *)
IsWalk(p, s) ==
    /\ p \in NonEmpty
    /\ p[1] = s
    /\ IsSink(p[Len(p)])
    /\ \A i \in 1..(Len(p) - 1) :
         IF IsSink(p[i])
           THEN ~IsSink(p[i + 1]) /\ \E k \in 1..i : p[k] = p[i + 1]
           ELSE p[i + 1] \in rrg.switches[p[i]]

(* Such a list that takes every node up once. *)
IsRoute(p, s) ==
    /\ IsWalk(p, s)
    /\ \A i, j \in Fresh(p) : p[i] = p[j] => i = j

(* A branch that leaves list p from s, or begins it. *)
Leaves(p, b, s) ==
    /\ b \in Seq(Node)
    /\ Len(b) >= 2
    /\ IF p = <<>> THEN b[1] = s ELSE b[1] \in ElemsOf(p)
    /\ \A i \in 1..(Len(b) - 1) : b[i + 1] \in rrg.switches[b[i]] /\ ~IsSink(b[i])
    /\ IsSink(b[Len(b)])

(* A branch that can be appended to list p of the route from s: it does not *)
(* meet the list again.                                                    *)
Continues(p, b, s) ==
    /\ Leaves(p, b, s)
    /\ \A i \in 2..Len(b) : b[i] \notin ElemsOf(p)
    /\ \A i, j \in 1..Len(b) : b[i] = b[j] => i = j

(* What a list and the branch that leaves it are made of.                  *)
LEMMA AppendedAt ==
  ASSUME NEW s \in Node, NEW p, p = <<>> \/ IsWalk(p, s), NEW b, Leaves(p, b, s)
  PROVE  /\ p \in Seq(Node) /\ b \in Seq(Node) /\ p \o b \in NonEmpty
         /\ Len(p) \in Nat /\ Len(b) \in Nat /\ Len(b) >= 2 /\ Len(p \o b) = Len(p) + Len(b)
         /\ \A i \in 1..Len(p) : (p \o b)[i] = p[i]
         /\ \A i \in 1..Len(b) : (p \o b)[Len(p) + i] = b[i]
         /\ \A i \in 1..(Len(p) + Len(b)) :
              i \in 1..Len(p) \/ (i - Len(p) \in 1..Len(b) /\ (p \o b)[i] = b[i - Len(p)])
         /\ p = <<>> <=> Len(p) = 0
         /\ Len(p) > 0 => IsSink(p[Len(p)]) /\ \E k \in 1..Len(p) : p[k] = b[1]
  <1>1. p \in Seq(Node)
    <2>1. <<>> \in Seq(Node)
      OBVIOUS
    <2>2. IsWalk(p, s) => p \in Seq(Node)
      BY DEF IsWalk, NonEmpty
    <2>3. QED
      BY <2>1, <2>2
  <1>2. b \in Seq(Node) /\ Len(b) >= 2
    BY DEF Leaves
  <1>3. p = <<>> <=> Len(p) = 0
    BY <1>1
  <1>4. Len(p) > 0 => IsSink(p[Len(p)]) /\ \E k \in 1..Len(p) : p[k] = b[1]
    <2>1. Len(p) > 0 => IsSink(p[Len(p)])
      BY <1>3 DEF IsWalk
    <2>2. Len(p) > 0 => b[1] \in ElemsOf(p)
      BY <1>3 DEF Leaves
    <2>3. DOMAIN p = 1..Len(p)
      BY <1>1
    <2>4. QED
      BY <2>1, <2>2, <2>3 DEF ElemsOf
  <1>5. QED
    BY <1>1, <1>2, <1>3, <1>4 DEF NonEmpty

(* update_trace_back keeps the list such a list.                           *)
LEMMA AppendKeepsWalk ==
  ASSUME NEW s \in Node, NEW p, p = <<>> \/ IsWalk(p, s), NEW b, Leaves(p, b, s)
  PROVE  IsWalk(p \o b, s)
  <1> DEFINE q == p \o b
             P == Len(p)
             B == Len(b)
  <1>1. /\ p \in Seq(Node) /\ b \in Seq(Node) /\ P \in Nat /\ B \in Nat /\ B >= 2
        /\ q \in NonEmpty /\ Len(q) = P + B
        /\ \A i \in 1..P : q[i] = p[i]
        /\ \A i \in 1..B : q[P + i] = b[i]
        /\ \A i \in 1..(P + B) : i \in 1..P \/ (i - P \in 1..B /\ q[i] = b[i - P])
        /\ p = <<>> <=> P = 0
        /\ P > 0 => IsSink(p[P]) /\ \E k \in 1..P : p[k] = b[1]
    BY AppendedAt
  <1> HIDE DEF q
  <1>2. q[1] = s
    BY <1>1 DEF IsWalk, Leaves
  <1>3. IsSink(q[P + B])
    BY <1>1 DEF Leaves
  <1>4. ASSUME NEW i \in 1..(P + B - 1)
        PROVE  IF IsSink(q[i])
                 THEN ~IsSink(q[i + 1]) /\ \E k \in 1..i : q[k] = q[i + 1]
                 ELSE q[i + 1] \in rrg.switches[q[i]]
    <2>1. CASE i < P
      <3>1. i \in 1..(P - 1) /\ q[i] = p[i] /\ q[i + 1] = p[i + 1] /\ \A k \in 1..i : q[k] = p[k]
        BY <1>1, <2>1
      <3>2. IsWalk(p, s)
        BY <1>1, <3>1
      <3>3. IF IsSink(p[i])
              THEN ~IsSink(p[i + 1]) /\ \E k \in 1..i : p[k] = p[i + 1]
              ELSE p[i + 1] \in rrg.switches[p[i]]
        BY <3>1, <3>2 DEF IsWalk
      <3>4. QED
        BY <3>1, <3>3
    <2>2. CASE i = P
      <3>1. q[i] = p[P] /\ q[i + 1] = b[1] /\ P > 0 /\ P \in 1..P
        BY <1>1, <2>2
      <3>2. IsSink(q[i]) /\ \E k \in 1..i : q[k] = q[i + 1]
        BY <1>1, <2>2, <3>1
      <3>3. ~IsSink(b[1])
        BY <1>1 DEF Leaves
      <3>4. QED
        BY <3>1, <3>2, <3>3
    <2>3. CASE i > P
      <3>1. i - P \in 1..(B - 1) /\ (i - P) + 1 \in 1..B /\ P + (i - P) = i
            /\ P + ((i - P) + 1) = i + 1
        BY <1>1, <2>3
      <3>2. q[i] = b[i - P] /\ q[i + 1] = b[(i - P) + 1]
        BY <1>1, <3>1
      <3>3. b[(i - P) + 1] \in rrg.switches[b[i - P]] /\ ~IsSink(b[i - P])
        BY <3>1 DEF Leaves
      <3>4. QED
        BY <3>2, <3>3
    <2>4. QED
      BY <1>1, <2>1, <2>2, <2>3
  <1>5. IsWalk(q, s)
    BY <1>1, <1>2, <1>3, <1>4 DEF IsWalk
  <1>6. QED
    BY <1>5 DEF q

(* New in the longer list are the positions that were new, and those of    *)
(* the branch but for the first, where it leaves the list.                 *)
LEMMA FreshAppended ==
  ASSUME NEW s \in Node, NEW p, p = <<>> \/ IsWalk(p, s), NEW b, Leaves(p, b, s)
  PROVE  \A i : i \in Fresh(p \o b) <=>
                  \/ i \in Fresh(p)
                  \/ i \in BranchStart(Len(p))..(Len(p) + Len(b))
  <1> DEFINE q == p \o b
             P == Len(p)
             B == Len(b)
             F == BranchStart(P)
  <1>1. /\ p \in Seq(Node) /\ b \in Seq(Node) /\ P \in Nat /\ B \in Nat /\ B >= 2
        /\ q \in NonEmpty /\ Len(q) = P + B
        /\ \A i \in 1..P : q[i] = p[i]
        /\ \A i \in 1..B : q[P + i] = b[i]
        /\ \A i \in 1..(P + B) : i \in 1..P \/ (i - P \in 1..B /\ q[i] = b[i - P])
        /\ p = <<>> <=> P = 0
        /\ P > 0 => IsSink(p[P])
    BY AppendedAt
  <1>2. F = IF P = 0 THEN 1 ELSE P + 2
    BY DEF BranchStart
  <1> HIDE DEF q, F
  <1>3. ASSUME NEW i \in 1..P
        PROVE  i \in Fresh(q) <=> i \in Fresh(p)
    <2>1. i \in 1..(P + B) /\ (i = 1 \/ (i - 1 \in 1..P /\ q[i - 1] = p[i - 1]))
      <3>1. P \in Nat /\ B \in Nat /\ (\A j \in 1..P : q[j] = p[j])
        BY <1>1
      <3> HIDE DEF P, B
      <3>2. i \in 1..(P + B) /\ (i = 1 \/ i - 1 \in 1..P)
        BY <3>1
      <3>3. QED
        BY <3>1, <3>2
    <2>2. i \in 1..Len(q) /\ i \in 1..Len(p)
      BY <1>1, <2>1
    <2>3. (i = 1 \/ ~IsSink(q[i - 1])) <=> (i = 1 \/ ~IsSink(p[i - 1]))
      BY <2>1
    <2>4. QED
      BY <2>2, <2>3 DEF Fresh
  <1>4. ASSUME NEW i \in F..(P + B)
        PROVE  i \in Fresh(q)
    <2>1. i \in 1..(P + B)
      BY <1>1, <1>2
    <2>2. CASE i = 1
      BY <1>1, <2>1, <2>2 DEF Fresh
    <2>3. CASE i # 1
      <3>1. (i - 1) - P \in 1..(B - 1) /\ (i - 1) - P \in 1..B /\ P + ((i - 1) - P) = i - 1
        BY <1>1, <1>2, <2>3
      <3>2. q[i - 1] = b[(i - 1) - P]
        BY <1>1, <3>1
      <3>3. ~IsSink(q[i - 1])
        BY <3>1, <3>2 DEF Leaves
      <3>4. QED
        BY <1>1, <2>1, <3>3 DEF Fresh
    <2>4. QED
      BY <2>2, <2>3
  <1>5. ASSUME NEW i \in Fresh(q), i \notin 1..P
        PROVE  i \in F..(P + B)
    <2>1. i \in 1..(P + B) /\ (i = 1 \/ ~IsSink(q[i - 1])) /\ i > P
      BY <1>1, <1>5 DEF Fresh
    <2>2. P > 0 => i # P + 1
      <3> SUFFICES ASSUME P > 0, i = P + 1
                   PROVE  FALSE
        OBVIOUS
      <3>1. i - 1 = P /\ i # 1 /\ q[P] = p[P]
        BY <1>1, <2>1
      <3>2. QED
        BY <1>1, <2>1, <3>1
    <2>3. QED
      BY <1>1, <1>2, <2>1, <2>2
  <1>6. Fresh(p) \subseteq 1..P
    BY DEF Fresh
  <1>7. QED
    BY <1>3, <1>4, <1>5, <1>6 DEF q, F

(* A branch that does not meet the list again keeps it free of repetitions. *)
LEMMA AppendKeepsRoute ==
  ASSUME NEW s \in Node, NEW p, p = <<>> \/ IsRoute(p, s), NEW b, Continues(p, b, s)
  PROVE  IsRoute(p \o b, s)
  <1> DEFINE q == p \o b
             P == Len(p)
             B == Len(b)
  <1>1. (p = <<>> \/ IsWalk(p, s)) /\ Leaves(p, b, s)
    BY DEF IsRoute, Continues
  <1>2. /\ p \in Seq(Node) /\ b \in Seq(Node) /\ P \in Nat /\ B \in Nat /\ B >= 2
        /\ q \in NonEmpty /\ Len(q) = P + B
        /\ \A i \in 1..P : q[i] = p[i]
        /\ \A i \in 1..B : q[P + i] = b[i]
        /\ p = <<>> <=> P = 0
    BY <1>1, AppendedAt
  <1>3. /\ IsWalk(q, s)
        /\ \A i \in Fresh(q) : i \in Fresh(p) \/ i \in BranchStart(P)..(P + B)
    BY <1>1, AppendKeepsWalk, FreshAppended
  <1> HIDE DEF q
  <1>4. \A i \in 1..P : p[i] \in ElemsOf(p)
    BY <1>2 DEF ElemsOf
  <1>5. ASSUME NEW i \in Fresh(q)
        PROVE  i \in Fresh(p) \/ (i > P /\ i - P \in 1..B /\ (P = 0 \/ i - P \in 2..B))
    BY <1>2, <1>3, <1>5 DEF BranchStart
  <1>6. ASSUME NEW i \in Fresh(q), NEW j \in Fresh(q), q[i] = q[j]
        PROVE  i = j
    <2>1. i \in 1..(P + B) /\ j \in 1..(P + B)
      BY <1>2 DEF Fresh
    <2>2. CASE i \in Fresh(p) /\ j \in Fresh(p)
      <3>1. q[i] = p[i] /\ q[j] = p[j] /\ P > 0
        BY <1>2, <2>2 DEF Fresh
      <3>2. IsRoute(p, s)
        BY <1>2, <3>1
      <3>3. p[i] = p[j]
        BY <1>6, <3>1
      <3>4. QED
        BY <2>2, <3>2, <3>3 DEF IsRoute
    <2>3. CASE i > P /\ j > P
      <3>1. /\ i - P \in 1..B /\ j - P \in 1..B /\ P + (i - P) = i /\ P + (j - P) = j
        BY <1>2, <2>1, <2>3
      <3>2. q[i] = b[i - P] /\ q[j] = b[j - P]
        BY <1>2, <3>1
      <3>3. i - P = j - P
        BY <1>6, <3>1, <3>2 DEF Continues
      <3>4. QED
        BY <1>2, <2>1, <3>3
    <2>4. ASSUME NEW k \in Fresh(p), NEW l \in 1..(P + B), l > P, l - P \in 2..B \/ P = 0
          PROVE  q[k] # q[l]
      <3>1. k \in 1..P /\ q[k] = p[k]
        BY <1>2 DEF Fresh
      <3>2. l - P \in 2..B /\ l - P \in 1..B /\ P + (l - P) = l
        BY <1>2, <2>4, <3>1
      <3>3. q[l] = b[l - P]
        BY <1>2, <3>2
      <3>4. b[l - P] \notin ElemsOf(p)
        BY <3>2 DEF Continues
      <3>5. QED
        BY <1>4, <3>1, <3>3, <3>4
    <2>5. QED
      BY <1>5, <1>6, <2>1, <2>2, <2>3, <2>4
  <1>7. IsRoute(q, s)
    BY <1>3, <1>6 DEF IsRoute
  <1>8. QED
    BY <1>7 DEF q

(* Every node of the list is new at some position.                         *)
LEMMA FreshSomewhere ==
  ASSUME NEW p, NEW s, IsWalk(p, s), NEW x \in ElemsOf(p)
  PROVE  \E i \in Fresh(p) : p[i] = x
  <1> DEFINE L == Len(p)
             T == {i \in 1..L : p[i] = x}
  <1>1. p \in Seq(Node) /\ L \in Nat /\ DOMAIN p = 1..L
    BY DEF IsWalk, NonEmpty
  <1>2. T \subseteq Nat /\ T # {}
    BY <1>1 DEF ElemsOf
  <1>3. PICK i \in T : \A j \in T : i <= j
    BY <1>2, LeastNat
  <1>4. i \in Fresh(p)
    <2> SUFFICES ASSUME i # 1, IsSink(p[i - 1])
                 PROVE  FALSE
      BY <1>1 DEF Fresh
    <2>1. i - 1 \in 1..(L - 1) /\ (i - 1) + 1 = i
      BY <1>1
    <2>2. PICK k \in 1..(i - 1) : p[k] = p[i]
      BY <2>1 DEF IsWalk
    <2>3. k \in T /\ k < i
      BY <1>1, <2>1, <2>2
    <2>4. QED
      BY <1>3, <2>3
  <1>5. QED
    BY <1>3, <1>4

(* A node of a route is new at one position only.                          *)
LEMMA FreshOnce ==
  ASSUME NEW p, NEW s, IsRoute(p, s), NEW x \in ElemsOf(p)
  PROVE  \E i \in Fresh(p) : p[i] = x /\ \A j \in Fresh(p) : p[j] = x => j = i
  BY FreshSomewhere DEF IsRoute

(* The traversal that skips the element after a sink visits the positions  *)
(* at which a node is new.                                                 *)
LEMMA VisitedIsFresh ==
  ASSUME NEW p, NEW s, IsWalk(p, s)
  PROVE  Visited(p, 1) = Fresh(p)
  <1> DEFINE L      == Len(p)
             Def(h) == h = [j \in 1..L |-> IF j = 1 THEN TRUE ELSE ~h[j - 1] \/ ~IsSink(p[j - 1])]
             h      == CHOOSE g : Def(g)
             g      == [j \in 1..L |-> j \in Fresh(p)]
  <1>1. p \in Seq(Node) /\ L \in Nat /\ L >= 1
    BY DEF IsWalk, NonEmpty
  <1>2. Visited(p, 1) = {j \in 1..L : h[j]}
    BY DEF Visited
  <1>3. \A j \in 1..L : g[j] <=> j = 1 \/ ~IsSink(p[j - 1])
    BY DEF Fresh
  <1>4. \A j \in 2..L : IsSink(p[j - 1]) => g[j - 1]
    <2> SUFFICES ASSUME NEW j \in 2..L, IsSink(p[j - 1]), j - 1 # 1, IsSink(p[(j - 1) - 1])
                 PROVE  FALSE
      BY <1>1, <1>3
    <2>1. (j - 1) - 1 \in 1..(L - 1) /\ ((j - 1) - 1) + 1 = j - 1
      BY <1>1
    <2>2. QED
      BY <2>1 DEF IsWalk
  <1>5. Def(g)
    <2>1. \A j \in 1..L : g[j] = (IF j = 1 THEN TRUE ELSE ~g[j - 1] \/ ~IsSink(p[j - 1]))
      <3> TAKE j \in 1..L
      <3>1. g[j] \in BOOLEAN
        OBVIOUS
      <3> HIDE DEF g
      <3>2. j = 1 \/ j \in 2..L
        BY <1>1
      <3>3. QED
        BY <1>3, <1>4, <3>1, <3>2
    <2>2. g = [j \in 1..L |-> g[j]]
      OBVIOUS
    <2> HIDE DEF g
    <2>3. QED
      BY <2>1, <2>2
  <1>6. Def(h)
    <2> HIDE DEF Def, g
    <2>1. QED
      BY <1>5
  <1> HIDE DEF h, g
  <1>7. \A j \in 1..L : h[j] = g[j]
    <2> DEFINE M == L - 1
               T == {k \in 0..M : h[k + 1] = g[k + 1]}
    <2>1. M \in Nat /\ L = M + 1
      BY <1>1
    <2>2. 0 \in T
      <3>1. h[1] = TRUE /\ g[1] = TRUE
        BY <1>1, <1>5, <1>6
      <3>2. 0 \in 0..M /\ 0 + 1 = 1
        BY <2>1
      <3>3. h[0 + 1] = g[0 + 1]
        BY <3>1, <3>2
      <3>4. QED
        BY <3>2, <3>3
    <2>3. ASSUME NEW k \in 1..M, k - 1 \in T
          PROVE  k \in T
      <3>1. k + 1 \in 1..L /\ k + 1 # 1 /\ (k + 1) - 1 = k /\ (k - 1) + 1 = k
        BY <1>1
      <3>2. h[k] = g[k]
        BY <2>3, <3>1
      <3>3. h[k + 1] = (~h[k] \/ ~IsSink(p[k]))
        BY <1>6, <3>1
      <3>4. g[k + 1] = (~g[k] \/ ~IsSink(p[k]))
        BY <1>5, <3>1
      <3>5. QED
        BY <1>1, <3>2, <3>3, <3>4
    <2> HIDE DEF T, M
    <2>4. 0..M \subseteq T
      BY <2>1, <2>2, <2>3, BoundedInduction
    <2>5. \A j \in 1..L : j - 1 \in 0..M /\ (j - 1) + 1 = j
      BY <1>1, <2>1
    <2>6. QED
      BY <2>4, <2>5 DEF T
  <1>8. Fresh(p) = {j \in 1..L : g[j]}
    BY DEF g, Fresh
  <1>9. QED
    BY <1>2, <1>7, <1>8

(* Every node of a route is counted once.                                  *)
LEMMA RouteCounted ==
  ASSUME NEW p, NEW s, IsRoute(p, s), NEW x \in ElemsOf(p)
  PROVE  VisitCounts(p)[x] = 1
  <1>1. p \in Seq(Node)
    BY DEF IsRoute, IsWalk, NonEmpty
  <1>2. x \in Node
    BY <1>1, ElemsFit
  <1>3. PICK i \in Fresh(p) : p[i] = x /\ \A j \in Fresh(p) : p[j] = x => j = i
    BY FreshOnce
  <1>4. {j \in Fresh(p) : p[j] = x} = {i}
    BY <1>3
  <1>5. VisitCounts(p)[x] = Cardinality({i})
    BY <1>2, <1>4, VisitedIsFresh DEF VisitCounts, IsRoute
  <1>6. QED
    BY <1>5, FS_Singleton

(* A route has one pip less than it has nodes.                             *)
LEMMA RoutePips ==
  ASSUME NEW p, NEW s, IsRoute(p, s)
  PROVE  /\ Cardinality(Pips(p)) = Cardinality(ElemsOf(p)) - 1
         /\ Pips(p) \in SUBSET (ElemsOf(p) \X ElemsOf(p))
         /\ \A e \in Pips(p) : e[2] \in rrg.switches[e[1]]
  <1> DEFINE L == Len(p)
             F == Fresh(p)
             G == F \ {1}
             f == [i \in F |-> p[i]]
             g == [i \in G |-> <<p[i - 1], p[i]>>]
  <1>1. p \in Seq(Node) /\ L \in Nat /\ L >= 1 /\ DOMAIN p = 1..L
    BY DEF IsRoute, IsWalk, NonEmpty
  <1>2. F \in SUBSET (1..L) /\ 1 \in F /\ IsFiniteSet(1..L)
    BY <1>1, FS_Interval DEF Fresh
  <1>3. IsFiniteSet(F) /\ IsFiniteSet(G) /\ Cardinality(G) = Cardinality(F) - 1
    BY <1>2, FS_Subset, FS_RemoveElement
  <1>4. \A i \in 1..L : p[i] \in ElemsOf(p)
    BY <1>1 DEF ElemsOf
  <1>5. \A i, j \in F : p[i] = p[j] => i = j
    BY DEF IsRoute, IsWalk
  <1>6. \A i \in 1..(L - 1) : ~IsSink(p[i]) <=> i + 1 \in G
    BY <1>1 DEF Fresh
  <1>7. \A i \in G : i - 1 \in 1..(L - 1) /\ ~IsSink(p[i - 1]) /\ (i - 1) + 1 = i
    BY <1>1 DEF Fresh
  <1>8. Pips(p) = {<<p[i], p[i + 1]>> : i \in {j \in 1..(L - 1) : ~IsSink(p[j])}}
    BY DEF Pips
  <1> HIDE DEF F, G
  <1>9. Cardinality(ElemsOf(p)) = Cardinality(F)
    <2>1. f \in [F -> ElemsOf(p)]
      BY <1>2, <1>4
    <2>2. \A i, j \in F : f[i] = f[j] => i = j
      BY <1>5
    <2>3. \A x \in ElemsOf(p) : \E i \in F : f[i] = x
      BY FreshOnce DEF F
    <2> HIDE DEF f
    <2>4. QED
      BY <1>3, <2>1, <2>2, <2>3, CountedBy
  <1>10. Pips(p) = {g[i] : i \in G}
    <2>1. \A i \in 1..(L - 1) : ~IsSink(p[i]) => i + 1 \in G /\ g[i + 1] = <<p[i], p[i + 1]>>
      <3> TAKE i \in 1..(L - 1)
      <3>1. (i + 1) - 1 = i
        BY <1>1
      <3>2. QED
        BY <1>6, <3>1
    <2>2. \A i \in G : /\ i - 1 \in {j \in 1..(L - 1) : ~IsSink(p[j])}
                       /\ g[i] = <<p[i - 1], p[(i - 1) + 1]>>
      BY <1>7
    <2> HIDE DEF g
    <2>3. Pips(p) \subseteq {g[i] : i \in G}
      BY <1>8, <2>1
    <2>4. {g[i] : i \in G} \subseteq Pips(p)
      BY <1>8, <2>2
    <2>5. QED
      BY <2>3, <2>4
  <1>11. Cardinality(Pips(p)) = Cardinality(G)
    <2>1. \A i, j \in G : g[i] = g[j] => i = j
      BY <1>5, <1>7, <1>2 DEF G
    <2>2. g \in [G -> {g[i] : i \in G}]
      OBVIOUS
    <2>3. \A t \in {g[i] : i \in G} : \E i \in G : g[i] = t
      OBVIOUS
    <2> HIDE DEF g
    <2>4. QED
      BY <1>3, <1>10, <2>1, <2>2, <2>3, CountedBy
  <1>12. ASSUME NEW e \in Pips(p)
         PROVE  e[1] \in ElemsOf(p) /\ e[2] \in ElemsOf(p) /\ e[2] \in rrg.switches[e[1]]
                /\ e = <<e[1], e[2]>>
    <2>1. PICK i \in 1..(L - 1) : ~IsSink(p[i]) /\ e = <<p[i], p[i + 1]>>
      BY <1>8
    <2>2. p[i + 1] \in rrg.switches[p[i]]
      BY <2>1 DEF IsRoute, IsWalk
    <2>3. i \in 1..L /\ i + 1 \in 1..L
      BY <1>1
    <2>4. QED
      BY <1>4, <2>1, <2>2, <2>3
  <1>13. QED
    BY <1>3, <1>9, <1>11, <1>12

(* The pips of a route reach all its nodes from its start, and no others.  *)
LEMMA RouteReached ==
  ASSUME NEW p, NEW s, IsRoute(p, s)
  PROVE  ReachedBy(Pips(p), s) = ElemsOf(p)
  <1> DEFINE L == Len(p)
             R == ReachedBy(Pips(p), s)
  <1>1. p \in Seq(Node) /\ L \in Nat /\ L >= 1 /\ DOMAIN p = 1..L /\ p[1] = s
    BY DEF IsRoute, IsWalk, NonEmpty
  <1>2. ElemsOf(p) \subseteq Node /\ s \in ElemsOf(p)
    BY <1>1, ElemsFit DEF ElemsOf
  <1>3. /\ Pips(p) \in SUBSET (ElemsOf(p) \X ElemsOf(p))
        /\ Pips(p) \in SUBSET (Node \X Node)
    BY <1>2, RoutePips
  <1>4. /\ s \in R /\ Closed(Pips(p), R)
        /\ \A S : s \in S /\ Closed(Pips(p), S) => R \subseteq S
    BY <1>2, <1>3, ReachedLeast
  <1> HIDE DEF R
  <1>5. R \subseteq ElemsOf(p)
    <2>1. Closed(Pips(p), ElemsOf(p))
      BY <1>3 DEF Closed
    <2>2. QED
      BY <1>2, <1>4, <2>1
  <1>6. ASSUME NEW x \in ElemsOf(p), x \notin R
        PROVE  FALSE
    <2> DEFINE T == {i \in 1..L : p[i] \notin R}
    <2>1. T \subseteq Nat /\ T # {}
      BY <1>1, <1>6 DEF ElemsOf
    <2>2. PICK i \in T : \A j \in T : i <= j
      BY <2>1, LeastNat
    <2>3. i # 1
      BY <1>1, <1>4, <2>2
    <2>4. i - 1 \in 1..(L - 1) /\ (i - 1) + 1 = i /\ i \in 1..L
      BY <1>1, <2>3
    <2>5. p[i - 1] \in R
      BY <1>1, <2>2, <2>4
    <2>6. CASE IsSink(p[i - 1])
      <3>1. PICK k \in 1..(i - 1) : p[k] = p[i]
        BY <2>4, <2>6 DEF IsRoute, IsWalk
      <3>2. k \in T
        BY <1>1, <2>4, <3>1
      <3>3. QED
        BY <2>2, <2>4, <3>2
    <2>7. CASE ~IsSink(p[i - 1])
      <3>1. <<p[i - 1], p[i]>> \in Pips(p)
        BY <2>4, <2>7 DEF Pips
      <3>2. p[i] \in R
        BY <1>4, <2>5, <3>1 DEF Closed
      <3>3. QED
        BY <2>4, <3>2
    <2>8. QED
      BY <2>6, <2>7
  <1>7. QED
    BY <1>5, <1>6 DEF R
-----------------------------------------------------------------------------
(* Products of naturals, which the arithmetic backend needs to be told.    *)
LEMMA ProductNat == \A i, j \in Nat : i * j \in Nat
  OBVIOUS

(* A set of naturals has its least element as Least.                       *)
LEMMA LeastFits ==
  ASSUME NEW S, S \subseteq Nat, S # {}
  PROVE  Least(S) \in S /\ \A v \in S : Least(S) <= v
  <1>1. \E m \in S : \A v \in S : m <= v
    BY LeastNat
  <1>2. QED
    BY <1>1 DEF Least

(* Every node lies somewhere. *)
Located ==
    /\ rrg.fromPos \in [Node -> [x : Int, y : Int]]
    /\ rrg.toPos \in [Node -> [x : Int, y : Int]]

(* Distances are naturals.                                                 *)
LEMMA DistanceNat ==
  ASSUME Located, NEW u \in Node, NEW v \in Node
  PROVE  Distance(u, v) \in Nat
  <1> DEFINE P == {rrg.fromPos[u], rrg.toPos[u]}
             Q == {rrg.fromPos[v], rrg.toPos[v]}
             S == {Abs(p.x - q.x) + Abs(p.y - q.y) : p \in P, q \in Q}
  <1>1. \A p \in P \cup Q : p.x \in Int /\ p.y \in Int
    BY DEF Located
  <1>2. \A i, j \in Int : Abs(i - j) \in Nat
    BY DEF Abs
  <1>3. P # {} /\ Q # {}
    OBVIOUS
  <1>4. Distance(u, v) = Least(S)
    BY DEF Distance
  <1> HIDE DEF P, Q
  <1>5. \A p \in P, q \in Q : Abs(p.x - q.x) + Abs(p.y - q.y) \in Nat
    BY <1>1, <1>2
  <1>6. S \subseteq Nat /\ S # {}
    BY <1>3, <1>5
  <1> HIDE DEF S
  <1>7. QED
    BY <1>4, <1>6, LeastFits

EntrySet == [owner : Node, prev : Node \cup {NULL}, cost : Int]

(* The device, the net, the options and the costs, none of which a search  *)
(* changes.                                                                *)
InputsFit(n) ==
    /\ n \in Net
    /\ rrg.switches \in [Node -> SUBSET Node]
    /\ nets[n].src \in Node
    /\ nets[n].sinks \in Seq(Node)
    /\ nets[n].fixed \in Seq(Node)
    /\ params.astar \in Nat
    /\ \A x \in Node : CongCost(x) \in Nat
    /\ \A x, y \in Node : Distance(x, y) \in Nat

Marks ==
    /\ tarflg \in [Node -> Int]
    /\ pathCost \in [Node -> Int]
    /\ prev \in [Node -> Node \cup {NULL}]
    /\ isPath \in [Node -> BOOLEAN]
    /\ mdf \in SUBSET Node
    /\ heap \in SUBSET EntrySet
    /\ path \in [Net -> Seq(Node)]
    /\ segEnd \in Nat
    /\ newiter \in Nat \ {0}

Types(n) ==
    /\ Marks
    /\ sinkIdx \in 1..(Len(nets[n].sinks) + 1)
    /\ spc \in {"idle", "sink", "pop", "routed", "unroutable"}
    /\ spc = "pop" => sinkIdx <= Len(nets[n].sinks)

(* What the marks of earlier searches and nets have been reset to.         *)
Slate(n) ==
    /\ \A x \in Node : pathCost[x] <= Huge
    /\ \A x \in Node : x \in mdf <=> pathCost[x] < Huge
    /\ spc # "pop" => mdf = {} /\ heap = {}
    /\ spc \in {"idle", "routed"} => \A x \in Node : ~isPath[x]
    /\ spc \in {"sink", "pop"} => \A x \in Node : isPath[x] <=> x \in ElemsOf(path[n])

(* The positions in J at which the list s has x. *)
Positions(s, J, x) == {i \in J : s[i] = x}

(* J holds the positions of the sinks that are still flagged. *)
FlagsOf(n, J) ==
    \A x \in Node : tarflg[x] = Cardinality(Positions(nets[n].sinks, J, x))

Flagged(n, J) ==
    /\ J \in SUBSET (1..Len(nets[n].sinks))
    /\ FlagsOf(n, J)
    /\ Cardinality(J) >= Len(nets[n].sinks) - sinkIdx + 1
    /\ nets[n].fixed = <<>> => Cardinality(J) = Len(nets[n].sinks) - sinkIdx + 1
    /\ params.algo # "BREADTH_FIRST" => sinkIdx..Len(nets[n].sinks) \subseteq J

Flags(n) ==
    /\ spc \in {"sink", "pop"} =>
         \E J \in SUBSET (1..Len(nets[n].sinks)) : Flagged(n, J)
    /\ spc = "idle" => \A x \in Node : tarflg[x] = 0
    /\ spc = "routed" /\ nets[n].fixed = <<>> => \A x \in Node : tarflg[x] = 0

(* No search is under way: every mark has been taken back. *)
Resting ==
    /\ Marks
    /\ mdf = {}
    /\ heap = {}
    /\ \A x \in Node : pathCost[x] = Huge /\ ~isPath[x] /\ tarflg[x] = 0

(* The invariant of a search, whoever calls it. *)
SearchInv(n) == Types(n) /\ Slate(n) /\ Flags(n)

(* What the searches of a caller leave alone. *)
Kept == UNCHANGED <<inputs, pres, hist>>
-----------------------------------------------------------------------------
(* The inputs of a search stay what they are.                              *)
LEMMA InputsKept ==
  ASSUME NEW n, InputsFit(n), Kept
  PROVE  InputsFit(n)'
  BY DEF InputsFit, Kept, inputs, CongCost, Distance

(* An entry is an entry, and what it was made of.                          *)
LEMMA EntryFits ==
  ASSUME NEW x, NEW p, NEW c
  PROVE  Entry(x, p, c).owner = x /\ Entry(x, p, c).prev = p /\ Entry(x, p, c).cost = c
  BY DEF Entry

(* What expand_neighbours offers: neighbours of the owner, at no less than *)
(* its cost, with the owner as predecessor unless they are on the route.   *)
LEMMA OfferFits ==
  ASSUME NEW n, InputsFit(n), Types(n), NEW e \in EntrySet, NEW snk \in Node,
         NEW f \in Offers(n, e, snk)
  PROVE  /\ f \in EntrySet
         /\ f.owner \in rrg.switches[e.owner]
         /\ f.prev = IF isPath[f.owner] THEN NULL ELSE e.owner
         /\ f.cost >= e.cost
  <1>1. PICK x \in InBox(n, rrg.switches[e.owner]) :
          f = Entry(x, IF isPath[x] THEN NULL ELSE e.owner,
                    e.cost + CongCost(x)
                      + (IF params.astar = 0 THEN 0 ELSE params.astar * Distance(x, snk)))
    BY DEF Offers
  <1>2. x \in rrg.switches[e.owner] /\ x \in Node /\ e.owner \in Node /\ e.cost \in Int
    BY DEF InBox, InputsFit, EntrySet
  <1>3. (IF params.astar = 0 THEN 0 ELSE params.astar * Distance(x, snk)) \in Nat
    BY <1>2, ProductNat DEF InputsFit
  <1>4. CongCost(x) \in Nat
    BY <1>2 DEF InputsFit
  <1>5. f.owner = x /\ f.prev = (IF isPath[x] THEN NULL ELSE e.owner) /\ f.cost \in Int
        /\ f.cost >= e.cost
    <2> DEFINE d == IF params.astar = 0 THEN 0 ELSE params.astar * Distance(x, snk)
    <2> HIDE DEF d
    <2>1. d \in Nat /\ f.cost = e.cost + CongCost(x) + d
      BY <1>1, <1>3, EntryFits DEF d
    <2>2. f.owner = x /\ f.prev = (IF isPath[x] THEN NULL ELSE e.owner)
      BY <1>1, EntryFits
    <2>3. QED
      BY <2>1, <2>2, <1>2, <1>4
  <1>6. f \in EntrySet
    BY <1>1, <1>2, <1>5 DEF Entry, EntrySet
  <1>7. QED
    BY <1>2, <1>5, <1>6

(* expand_trace_back handles nodes of the list only.                       *)
LEMMA TraceBackFits ==
  ASSUME NEW p \in Seq(Node), NEW i \in Nat \ {0}
  PROVE  TraceBack(p, i) \subseteq ElemsOf(p)
  <1>1. Visited(p, i + 1) \subseteq (i + 1)..Len(p)
    BY DEF Visited
  <1> HIDE DEF Visited
  <1>2. QED
    BY <1>1 DEF TraceBack, ElemsOf

(* Sets of positions are finite.                                           *)
LEMMA PositionsFinite ==
  ASSUME NEW L \in Nat, NEW J \in SUBSET (1..L)
  PROVE  /\ IsFiniteSet(J) /\ Cardinality(J) \in Nat
         /\ \A s, x : /\ IsFiniteSet(Positions(s, J, x))
                      /\ Cardinality(Positions(s, J, x)) \in Nat
  <1>1. IsFiniteSet(1..L)
    BY FS_Interval
  <1>2. \A s, x : Positions(s, J, x) \in SUBSET (1..L)
    BY DEF Positions
  <1>3. QED
    BY <1>1, <1>2, FS_Subset, FS_CardinalityType

(* Between two searches everything has been taken back.                    *)
LEMMA IdleRests ==
  ASSUME NEW n, SearchInv(n),
         \/ spc = "idle"
         \/ spc = "routed" /\ nets[n].fixed = <<>>
  PROVE  Resting
  <1>1. mdf = {} /\ heap = {} /\ \A x \in Node : ~isPath[x] /\ tarflg[x] = 0
    BY DEF SearchInv, Slate, Flags
  <1>2. Marks /\ \A x \in Node : pathCost[x] <= Huge /\ (x \in mdf <=> pathCost[x] < Huge)
    BY DEF SearchInv, Slate, Types
  <1>3. \A x \in Node : pathCost[x] \in Int
    BY <1>2 DEF Marks
  <1>4. \A x \in Node : pathCost[x] = Huge
    BY <1>1, <1>2, <1>3, HugeAssumption
  <1>5. QED
    BY <1>1, <1>2, <1>4 DEF Resting

(* The sinks that are flagged once a net has begun: all.                   *)
LEMMA BeginNetKeeps ==
  ASSUME NEW n, NEW o, InputsFit(n), UNCHANGED inputs, Resting, BeginNet(n, o)
  PROVE  SearchInv(n)'
  <1> DEFINE L == Len(nets[n].sinks)
  <1>1. /\ spc = "idle" /\ spc' = "sink" /\ nets' = nets /\ params' = params
        /\ newiter' = 1 /\ sinkIdx' = 1 /\ L \in Nat
        /\ pathCost' = pathCost /\ prev' = prev /\ mdf' = mdf /\ heap' = heap
    BY DEF BeginNet, InputsFit, inputs
  <1>2. /\ path'[n] \in Seq(Node) /\ path' \in [Net -> Seq(Node)]
        /\ ElemsOf(path'[n]) = LoadedFixed(n)
    BY DEF BeginNet, Resting, Marks, InputsFit, LoadedFixed, ElemsOf
  <1>3. \A x \in Node : LET k == Cardinality(Positions(nets[n].sinks, 1..L, x))
                       IN  k \in Nat /\ tarflg'[x] = k
    <2>1. DOMAIN nets[n].sinks = 1..L
      BY DEF InputsFit
    <2>2. \A x : MarkedSinks(n, x) = tarflg[x] + Cardinality(Positions(nets[n].sinks, 1..L, x))
      BY <2>1 DEF MarkedSinks, Positions
    <2>3. \A x \in Node : tarflg[x] = 0 /\ tarflg'[x] = MarkedSinks(n, x)
      BY DEF Resting, BeginNet
    <2>4. \A x : Cardinality(Positions(nets[n].sinks, 1..L, x)) \in Nat
      BY <1>1, PositionsFinite
    <2> DEFINE count(x) == Cardinality(Positions(nets[n].sinks, 1..L, x))
    <2> HIDE DEF count
    <2>5. \A x \in Node : count(x) \in Nat /\ tarflg'[x] = 0 + count(x)
      BY <2>2, <2>3, <2>4 DEF count
    <2>6. QED
      BY <2>5 DEF count
  <1>4. Types(n)'
    <2>1. tarflg' = [x \in Node |-> tarflg'[x]]
      BY DEF BeginNet
    <2>2. tarflg' \in [Node -> Int]
      BY <1>3, <2>1
    <2>3. isPath' \in [Node -> BOOLEAN]
      BY DEF BeginNet
    <2>4. segEnd' \in Nat
      BY <1>2 DEF BeginNet
    <2>5. QED
      BY <1>1, <1>2, <2>2, <2>3, <2>4 DEF Resting, Types, Marks
  <1>5. Slate(n)'
    <2>1. \A x \in Node : isPath'[x] <=> x \in ElemsOf(path'[n])
      BY <1>1, <1>2 DEF BeginNet, Resting
    <2>2. QED
      BY <1>1, <2>1, HugeAssumption DEF Resting, Slate
  <1>6. Flagged(n, 1..L)'
    <2>1. Cardinality(1..L) = L
      BY <1>1, FS_Interval
    <2>2. FlagsOf(n, 1..L)'
      BY <1>1, <1>3 DEF FlagsOf
    <2>3. QED
      BY <1>1, <2>1, <2>2 DEF Flagged
  <1>7. Flags(n)'
    BY <1>1, <1>6 DEF Flags
  <1>8. QED
    BY <1>4, <1>5, <1>7 DEF SearchInv

(* A search works on the list of its own net.                              *)
LEMMA OthersKept ==
  ASSUME NEW n, Types(n), NEW m \in Net, m # n, (\E o : BeginNet(n, o)) \/ SearchStep(n)
  PROVE  path'[m] = path[m]
  BY DEF Types, Marks, BeginNet, SearchStep, SkipSink, BeginSink, PopStale, PopExpand,
         ReachSink, FailSearch, FinishNet

(* A sink on the fixed path keeps its flag; the net goes on to the next.   *)
LEMMA SkipSinkKeeps ==
  ASSUME NEW n, InputsFit(n), Kept, SearchInv(n), SkipSink(n)
  PROVE  SearchInv(n)'
  <1> DEFINE L == Len(nets[n].sinks)
  <1>1. /\ spc = "sink" /\ spc' = "sink" /\ nets' = nets /\ params' = params
        /\ sinkIdx \in 1..L /\ sinkIdx' = sinkIdx + 1 /\ L \in Nat
        /\ UNCHANGED <<tarflg, pathCost, prev, isPath, mdf, heap, path, segEnd, newiter>>
        /\ nets[n].fixed # <<>>
    <2>1. nets[n].fixed # <<>>
      <3>1. CurSink(n) \in ElemsOf(nets[n].fixed)
        BY DEF SkipSink, HasFound
      <3>2. ElemsOf(<<>>) = {}
        BY DEF ElemsOf
      <3>3. QED
        BY <3>1, <3>2
    <2>2. QED
      BY <2>1 DEF SkipSink, InputsFit, Kept, inputs, nodeMarks, SearchInv, Types, Marks
  <1>2. Types(n)'
    BY <1>1 DEF SearchInv, Types, Marks
  <1>3. Slate(n)'
    BY <1>1 DEF SearchInv, Slate
  <1>4. Flags(n)'
    <2>1. PICK J : Flagged(n, J)
      BY <1>1 DEF SearchInv, Flags
    <2>2. Cardinality(J) \in Nat
      BY <1>1, <2>1, PositionsFinite DEF Flagged
    <2>3. FlagsOf(n, J)'
      BY <1>1, <2>1 DEF Flagged, FlagsOf
    <2>4. Flagged(n, J)'
      BY <1>1, <2>1, <2>2, <2>3 DEF Flagged
    <2>5. J \in SUBSET (1..Len(nets'[n].sinks))
      BY <2>4 DEF Flagged
    <2>6. QED
      BY <1>1, <2>4, <2>5 DEF Flags
  <1>5. QED
    BY <1>2, <1>3, <1>4 DEF SearchInv

(* The flags do not change while a sink is searched for.                   *)
LEMMA FlagsKept ==
  ASSUME NEW n, Kept, Flags(n), spc \in {"sink", "pop"}, spc' \in {"pop", "unroutable"},
         UNCHANGED <<tarflg, sinkIdx>>
  PROVE  Flags(n)'
  <1>1. PICK J : Flagged(n, J)
    BY DEF Flags
  <1>2. FlagsOf(n, J)'
    BY <1>1 DEF Flagged, FlagsOf, Kept, inputs
  <1>3. Flagged(n, J)'
    BY <1>1, <1>2 DEF Flagged, Kept, inputs
  <1>4. J \in SUBSET (1..Len(nets'[n].sinks))
    BY <1>3 DEF Flagged
  <1>5. QED
    BY <1>3, <1>4 DEF Flags

(* The search for a sink begins with marks on nothing but the heap's       *)
(* entries.                                                                *)
LEMMA BeginSinkKeeps ==
  ASSUME NEW n, InputsFit(n), Kept, SearchInv(n), BeginSink(n)
  PROVE  SearchInv(n)'
  <1>1. /\ spc = "sink" /\ spc' = "pop" /\ nets' = nets /\ params' = params
        /\ sinkIdx <= Len(nets[n].sinks)
        /\ UNCHANGED <<tarflg, isPath, mdf, path, segEnd, newiter, sinkIdx>>
    BY DEF BeginSink, Kept, inputs
  <1>2. mdf = {} /\ \A x \in Node : pathCost[x] = Huge
    <2>1. mdf = {} /\ \A x \in Node : pathCost[x] <= Huge /\ ~(pathCost[x] < Huge)
      BY <1>1 DEF SearchInv, Slate
    <2>2. \A x \in Node : pathCost[x] \in Int
      BY DEF SearchInv, Types, Marks
    <2>3. QED
      BY <2>1, <2>2, HugeAssumption
  <1>3. pathCost' = pathCost
    <2>1. pathCost \in [Node -> Int]
      BY DEF SearchInv, Types, Marks
    <2>2. QED
      BY <1>2, <2>1 DEF BeginSink
  <1>4. prev' \in [Node -> Node \cup {NULL}]
    BY DEF BeginSink, SearchInv, Types, Marks
  <1>5. heap' \in SUBSET EntrySet
    <2>1. TraceBack(path[n], newiter) \subseteq Node
      <3>1. path[n] \in Seq(Node) /\ newiter \in Nat \ {0}
        BY DEF SearchInv, Types, Marks, InputsFit
      <3>2. QED
        BY <3>1, TraceBackFits, ElemsFit
    <2>2. \A x \in Node : \A c \in Int : Entry(x, NULL, c) \in EntrySet
      BY DEF Entry, EntrySet
    <2>3. NO_PREVIOUS \in Int
      BY DEF NO_PREVIOUS
    <2>4. nets[n].src \in Node /\ CongCost(nets[n].src) \in Int
      BY DEF InputsFit
    <2>5. \A es, pc : Added(es, pc) \subseteq es
      BY DEF Added
    <2> HIDE DEF EntrySet
    <2>6. QED
      BY <2>1, <2>2, <2>3, <2>4, <2>5 DEF BeginSink
  <1>6. Types(n)'
    BY <1>1, <1>3, <1>4, <1>5 DEF SearchInv, Types, Marks
  <1>7. Slate(n)'
    BY <1>1, <1>3 DEF SearchInv, Slate
  <1>8. Flags(n)'
    BY <1>1, FlagsKept DEF SearchInv
  <1>9. QED
    BY <1>6, <1>7, <1>8 DEF SearchInv

(* An entry that came too late changes nothing but the heap.               *)
LEMMA PopStaleKeeps ==
  ASSUME NEW n, InputsFit(n), Kept, SearchInv(n), PopStale(n)
  PROVE  SearchInv(n)'
  <1>1. /\ spc = "pop" /\ spc' = "pop" /\ nets' = nets /\ params' = params
        /\ heap' \subseteq heap
        /\ UNCHANGED <<tarflg, pathCost, prev, isPath, mdf, path, segEnd, newiter, sinkIdx>>
    BY DEF PopStale, Popped, Kept, inputs, nodeMarks
  <1>2. Types(n)'
    BY <1>1 DEF SearchInv, Types, Marks
  <1>3. Slate(n)'
    BY <1>1 DEF SearchInv, Slate
  <1>4. Flags(n)'
    BY <1>1, FlagsKept DEF SearchInv
  <1>5. QED
    BY <1>2, <1>3, <1>4 DEF SearchInv

(* Expanding a node marks it as modified and fills the heap with entries   *)
(* of its neighbours.                                                      *)
LEMMA PopExpandKeeps ==
  ASSUME NEW n, InputsFit(n), Kept, SearchInv(n), PopExpand(n)
  PROVE  SearchInv(n)'
  <1>1. PICK e \in heap :
          /\ pathCost[e.owner] > e.cost
          /\ prev' = [prev EXCEPT ![e.owner] = e.prev]
          /\ pathCost' = [pathCost EXCEPT ![e.owner] = e.cost]
          /\ mdf' = Modified(e.owner)
          /\ heap' = Popped(e) \cup Added(Offers(n, e, CurSink(n)), pathCost')
    BY DEF PopExpand
  <1>2. e \in EntrySet /\ e.owner \in Node /\ e.prev \in Node \cup {NULL} /\ e.cost \in Int
    BY DEF SearchInv, Types, Marks, EntrySet
  <1>3. /\ spc = "pop" /\ spc' = "pop" /\ nets' = nets /\ params' = params
        /\ UNCHANGED <<tarflg, isPath, path, segEnd, newiter, sinkIdx>>
    BY DEF PopExpand, Kept, inputs
  <1>4. CurSink(n) \in Node
    BY <1>3 DEF SearchInv, Types, Marks, InputsFit, CurSink
  <1>5. heap' \in SUBSET EntrySet
    <2>1. Offers(n, e, CurSink(n)) \subseteq EntrySet
      BY <1>2, <1>4, OfferFits DEF SearchInv
    <2>2. QED
      BY <1>1, <2>1 DEF Popped, Added, SearchInv, Types, Marks
  <1>6. pathCost \in [Node -> Int] /\ pathCost' \in [Node -> Int]
    BY <1>1, <1>2 DEF SearchInv, Types, Marks
  <1>7. Types(n)'
    BY <1>1, <1>2, <1>3, <1>5, <1>6 DEF SearchInv, Types, Marks, Modified
  <1>8. Slate(n)'
    <2>1. \A x \in Node : pathCost'[x] = IF x = e.owner THEN e.cost ELSE pathCost[x]
      BY <1>1, <1>2, <1>6
    <2>2. \A x \in Node : pathCost[x] \in Int /\ pathCost[x] <= Huge
                            /\ (x \in mdf <=> pathCost[x] < Huge)
      BY <1>6 DEF SearchInv, Slate
    <2>3. \A x \in Node : x \in mdf' <=> x \in mdf \/ x = e.owner
      BY <1>1, <1>2, <2>2, HugeAssumption DEF Modified
    <2>4. \A x \in Node : pathCost'[x] <= Huge /\ (x \in mdf' <=> pathCost'[x] < Huge)
      BY <1>1, <1>2, <2>1, <2>2, <2>3, HugeAssumption
    <2>5. QED
      BY <1>3, <2>4 DEF SearchInv, Slate
  <1>9. Flags(n)'
    BY <1>3, FlagsKept DEF SearchInv
  <1>10. QED
    BY <1>7, <1>8, <1>9 DEF SearchInv

(* A search that fails takes its marks back, the sinks' flags excepted.    *)
LEMMA FailSearchKeeps ==
  ASSUME NEW n, InputsFit(n), Kept, SearchInv(n), FailSearch(n)
  PROVE  SearchInv(n)'
  <1>1. /\ spc = "pop" /\ spc' = "unroutable" /\ nets' = nets /\ params' = params
        /\ mdf' = {} /\ heap' = {}
        /\ pathCost' = [x \in Node |-> IF x \in mdf THEN Huge ELSE pathCost[x]]
        /\ UNCHANGED <<tarflg, prev, isPath, path, segEnd, newiter, sinkIdx>>
    BY DEF FailSearch, Kept, inputs, Cleared
  <1>2. \A x \in Node : pathCost'[x] = Huge
    BY <1>1, HugeAssumption DEF SearchInv, Slate, Types, Marks
  <1>3. pathCost' \in [Node -> Int]
    BY <1>1, <1>2, HugeAssumption
  <1>4. Types(n)'
    BY <1>1, <1>3 DEF SearchInv, Types, Marks
  <1>5. Slate(n)'
    BY <1>1, <1>2, HugeAssumption DEF SearchInv, Slate
  <1>6. Flags(n)'
    BY <1>1, FlagsKept DEF SearchInv
  <1>7. QED
    BY <1>4, <1>5, <1>6 DEF SearchInv

(* A net that has all its sinks leaves no mark, and no flag if it came     *)
(* without pips.                                                           *)
LEMMA FinishNetKeeps ==
  ASSUME NEW n, InputsFit(n), Kept, SearchInv(n), FinishNet(n)
  PROVE  SearchInv(n)'
  <1> DEFINE L == Len(nets[n].sinks)
  <1>1. /\ spc = "sink" /\ spc' = "routed" /\ nets' = nets /\ params' = params
        /\ mdf' = {} /\ heap' = {} /\ mdf = {} /\ sinkIdx > L /\ L \in Nat
        /\ pathCost' = [x \in Node |-> pathCost[x]]
        /\ UNCHANGED <<tarflg, prev, path, segEnd, newiter, sinkIdx>>
    BY DEF FinishNet, Kept, inputs, Cleared, SearchInv, Slate, InputsFit
  <1>2. pathCost' = pathCost
    BY <1>1 DEF SearchInv, Types, Marks
  <1>3. isPath' \in [Node -> BOOLEAN] /\ \A x \in Node : ~isPath'[x]
    BY <1>1 DEF FinishNet, Unmarked, SearchInv, Slate, Types, Marks
  <1>4. Types(n)'
    BY <1>1, <1>2, <1>3 DEF SearchInv, Types, Marks
  <1>5. Slate(n)'
    BY <1>1, <1>2, <1>3 DEF SearchInv, Slate
  <1>6. nets[n].fixed = <<>> => \A x \in Node : tarflg[x] = 0
    <2>1. PICK J : Flagged(n, J)
      BY <1>1 DEF SearchInv, Flags
    <2>2. IsFiniteSet(J) /\ Cardinality(J) \in Nat
      BY <1>1, <2>1, PositionsFinite DEF Flagged
    <2>3. nets[n].fixed = <<>> => J = {}
      <3>1. sinkIdx \in 1..(L + 1)
        BY DEF SearchInv, Types, Marks
      <3>2. nets[n].fixed = <<>> => Cardinality(J) = 0
        BY <1>1, <2>1, <3>1 DEF Flagged
      <3>3. QED
        BY <3>2, <2>2, FS_EmptySet
    <2>4. \A s, x : Positions(s, {}, x) = {}
      BY DEF Positions
    <2>5. QED
      BY <2>1, <2>3, <2>4, FS_EmptySet DEF Flagged, FlagsOf
  <1>7. Flags(n)'
    BY <1>1, <1>6 DEF Flags
  <1>8. QED
    BY <1>4, <1>5, <1>7 DEF SearchInv
-----------------------------------------------------------------------------
(* One flagged position less: its node has one flag less, no other has.    *)
LEMMA FlagDown ==
  ASSUME NEW L \in Nat, NEW J \in SUBSET (1..L), NEW i \in J, NEW s
  PROVE  /\ Cardinality(J \ {i}) = Cardinality(J) - 1
         /\ Cardinality(Positions(s, J \ {i}, s[i])) = Cardinality(Positions(s, J, s[i])) - 1
         /\ \A x : s[i] # x => Positions(s, J \ {i}, x) = Positions(s, J, x)
  <1>1. IsFiniteSet(J) /\ \A x : IsFiniteSet(Positions(s, J, x))
    BY PositionsFinite
  <1>2. Cardinality(Positions(s, J \ {i}, s[i])) = Cardinality(Positions(s, J, s[i])) - 1
    <2>1. i \in Positions(s, J, s[i])
          /\ Positions(s, J \ {i}, s[i]) = Positions(s, J, s[i]) \ {i}
      BY DEF Positions
    <2> DEFINE P == Positions(s, J, s[i])
    <2>2. IsFiniteSet(P) /\ i \in P
      BY <1>1, <2>1
    <2> HIDE DEF P
    <2>3. Cardinality(P \ {i}) = Cardinality(P) - 1
      BY <2>2, FS_RemoveElement
    <2>4. QED
      BY <2>1, <2>3 DEF P
  <1>3. ASSUME NEW x, s[i] # x
        PROVE  Positions(s, J \ {i}, x) = Positions(s, J, x)
    BY <1>3 DEF Positions
  <1>4. Cardinality(J \ {i}) = Cardinality(J) - 1
    BY <1>1, FS_RemoveElement
  <1>5. QED
    BY <1>2, <1>3, <1>4

(* The node that ends a search is a flagged sink.                          *)
LEMMA EndIsFlagged ==
  ASSUME NEW n, InputsFit(n), SearchInv(n), spc = "pop", NEW J, Flagged(n, J),
         NEW x \in Node, Ends(x, CurSink(n))
  PROVE  /\ \E i \in J : /\ nets[n].sinks[i] = x
                         /\ params.algo # "BREADTH_FIRST" => i = sinkIdx
         /\ tarflg[x] \in Nat \ {0}
  <1> DEFINE L == Len(nets[n].sinks)
  <1>1. L \in Nat /\ sinkIdx \in 1..L /\ J \in SUBSET (1..L)
    <2>1. L \in Nat
      BY DEF InputsFit
    <2>2. sinkIdx \in 1..(L + 1) /\ sinkIdx <= L
      BY DEF SearchInv, Types, Marks
    <2>3. J \in SUBSET (1..L)
      BY DEF Flagged
    <2>4. QED
      BY <2>1, <2>2, <2>3
  <1>2. tarflg[x] = Cardinality(Positions(nets[n].sinks, J, x))
    BY DEF Flagged, FlagsOf
  <1>3. IsFiniteSet(Positions(nets[n].sinks, J, x)) /\ tarflg[x] \in Nat
    BY <1>1, <1>2, PositionsFinite
  <1>4. \A i \in Positions(nets[n].sinks, J, x) : i \in J /\ nets[n].sinks[i] = x
    BY DEF Positions
  <1>5. CASE params.algo = "BREADTH_FIRST"
    <2>1. tarflg[x] # 0
      BY <1>5 DEF Ends
    <2>2. Positions(nets[n].sinks, J, x) # {}
      BY <1>2, <2>1, FS_EmptySet
    <2>3. QED
      BY <1>3, <1>4, <1>5, <2>1, <2>2
  <1>6. CASE params.algo # "BREADTH_FIRST"
    <2>1. x = nets[n].sinks[sinkIdx] /\ sinkIdx \in J
      BY <1>1, <1>6 DEF Ends, CurSink, Flagged
    <2>2. sinkIdx \in Positions(nets[n].sinks, J, x)
      BY <2>1 DEF Positions
    <2>3. tarflg[x] # 0
      BY <1>2, <1>3, <2>2, FS_EmptySet
    <2>4. QED
      BY <1>3, <1>6, <2>1, <2>3
  <1>7. QED
    BY <1>5, <1>6

(* What the end of a search does, in terms of the entry it ended with.     *)
Reached(n, e) ==
    /\ e \in heap
    /\ Ends(e.owner, CurSink(n))
    /\ prev' = [prev EXCEPT ![e.owner] = e.prev]
    /\ tarflg' = [x \in Node |-> IF x = e.owner THEN tarflg[x] - 1 ELSE tarflg[x]]
    /\ path' = [path EXCEPT ![n] = @ \o BranchTo(e.owner, prev')]
    /\ isPath' = [x \in Node |-> isPath[x] \/ x \in ElemsOf(BranchTo(e.owner, prev'))]
    /\ newiter' = BranchStart(segEnd)
    /\ segEnd' = Len(path'[n])
    /\ pathCost' = [x \in Node |-> IF x \in Modified(e.owner) THEN Huge ELSE pathCost[x]]

(* Reaching a sink resets the marks of its search, puts the branch on the  *)
(* route and takes one flag down.                                          *)
LEMMA ReachSinkKeeps ==
  ASSUME NEW n, InputsFit(n), Kept, SearchInv(n), ReachSink(n)
  PROVE  SearchInv(n)'
  <1> DEFINE L == Len(nets[n].sinks)
  <1>1. PICK e : Reached(n, e)
    BY DEF ReachSink, Reached, Unflagged, PathMarks, Cleared
  <1>2. e \in EntrySet /\ e.owner \in Node /\ e.prev \in Node \cup {NULL} /\ e.cost \in Int
    BY <1>1 DEF SearchInv, Types, Marks, EntrySet, Reached
  <1>3. /\ spc = "pop" /\ spc' = "sink" /\ nets' = nets /\ params' = params
        /\ heap' = {} /\ mdf' = {} /\ sinkIdx' = sinkIdx + 1
        /\ L \in Nat /\ sinkIdx \in 1..L
    BY DEF ReachSink, Kept, inputs, InputsFit, SearchInv, Types, Marks
  <1>4. prev' \in [Node -> Node \cup {NULL}]
    BY <1>1, <1>2 DEF Reached, SearchInv, Types, Marks
  <1> DEFINE b == BranchTo(e.owner, prev')
  <1>5. b \in Seq(Node)
    BY <1>2, <1>4, BranchFits DEF NonEmpty
  <1> HIDE DEF b
  <1>6. /\ path' \in [Net -> Seq(Node)] /\ path[n] \in Seq(Node)
        /\ path'[n] = path[n] \o b /\ path'[n] \in Seq(Node)
    <2>1. path \in [Net -> Seq(Node)] /\ n \in Net
      BY DEF SearchInv, Types, Marks, InputsFit
    <2>2. path' = [path EXCEPT ![n] = path[n] \o b]
      BY <1>1 DEF Reached, b
    <2>3. path[n] \in Seq(Node) /\ path[n] \o b \in Seq(Node)
      BY <2>1, <1>5
    <2>4. QED
      BY <2>1, <2>2, <2>3
  <1>7. ElemsOf(path'[n]) = ElemsOf(path[n]) \cup ElemsOf(b)
    BY <1>5, <1>6, ElemsAppended
  <1>8. isPath' \in [Node -> BOOLEAN] /\ \A x \in Node : isPath'[x] <=> x \in ElemsOf(path'[n])
    <2>1. isPath' = [x \in Node |-> isPath[x] \/ x \in ElemsOf(b)]
      BY <1>1 DEF Reached, b
    <2>2. \A x \in Node : isPath[x] <=> x \in ElemsOf(path[n])
      BY <1>3 DEF SearchInv, Slate
    <2>3. QED
      BY <2>1, <2>2, <1>7
  <1>9. \A x \in Node : pathCost'[x] = Huge
    BY <1>1, HugeAssumption DEF Reached, Modified, SearchInv, Slate, Types, Marks
  <1>10. pathCost' \in [Node -> Int]
    BY <1>1, <1>9, HugeAssumption DEF Reached
  <1>11. tarflg' \in [Node -> Int]
    BY <1>1 DEF Reached, SearchInv, Types, Marks
  <1>12. segEnd' \in Nat /\ newiter' \in Nat \ {0}
    <2>1. segEnd \in Nat
      BY DEF SearchInv, Types, Marks
    <2>2. QED
      BY <1>1, <1>6, <2>1 DEF Reached, BranchStart
  <1>13. Types(n)'
    BY <1>3, <1>4, <1>6, <1>8, <1>10, <1>11, <1>12 DEF Types, Marks
  <1>14. Slate(n)'
    BY <1>3, <1>8, <1>9, HugeAssumption DEF Slate
  <1>15. Flags(n)'
    <2>1. PICK J : Flagged(n, J)
      BY <1>3 DEF SearchInv, Flags
    <2>2. PICK i \in J : /\ nets[n].sinks[i] = e.owner
                         /\ params.algo # "BREADTH_FIRST" => i = sinkIdx
      BY <1>1, <1>2, <1>3, <2>1, EndIsFlagged DEF Reached
    <2>3. J \in SUBSET (1..L) /\ Cardinality(J) \in Nat
      BY <1>3, <2>1, PositionsFinite DEF Flagged
    <2>4. Cardinality(J \ {i}) = Cardinality(J) - 1
      BY <1>3, <2>3, FlagDown
    <2>5. FlagsOf(n, J \ {i})'
      <3>1. \A x \in Node : tarflg'[x] = IF x = e.owner THEN tarflg[x] - 1 ELSE tarflg[x]
        BY <1>1 DEF Reached
      <3>2. \A x \in Node : tarflg[x] = Cardinality(Positions(nets[n].sinks, J, x))
        BY <2>1 DEF Flagged, FlagsOf
      <3>3. /\ Cardinality(Positions(nets[n].sinks, J \ {i}, e.owner))
                 = Cardinality(Positions(nets[n].sinks, J, e.owner)) - 1
            /\ \A x : e.owner # x =>
                  Positions(nets[n].sinks, J \ {i}, x) = Positions(nets[n].sinks, J, x)
        <4> DEFINE s == nets[n].sinks
        <4>1. L \in Nat /\ J \in SUBSET (1..L) /\ i \in J
          BY <1>3, <2>3
        <4> HIDE DEF L, s
        <4>2. /\ Cardinality(J \ {i}) = Cardinality(J) - 1
              /\ Cardinality(Positions(s, J \ {i}, s[i])) = Cardinality(Positions(s, J, s[i])) - 1
              /\ \A x : s[i] # x => Positions(s, J \ {i}, x) = Positions(s, J, x)
          BY <4>1, FlagDown, Zenon
        <4>3. QED
          BY <2>2, <4>2 DEF s
      <3>4. \A x \in Node : tarflg'[x] = Cardinality(Positions(nets[n].sinks, J \ {i}, x))
        BY <2>2, <3>1, <3>2, <3>3
      <3>5. QED
        BY <1>3, <3>4 DEF FlagsOf
    <2>6. params.algo # "BREADTH_FIRST" => (sinkIdx + 1)..L \subseteq J \ {i}
      <3>1. params.algo # "BREADTH_FIRST" => sinkIdx..L \subseteq J
        BY <2>1 DEF Flagged
      <3>2. QED
        BY <1>3, <2>2, <3>1
    <2>7. Flagged(n, J \ {i})'
      BY <1>3, <2>1, <2>3, <2>4, <2>5, <2>6 DEF Flagged
    <2>8. J \ {i} \in SUBSET (1..Len(nets'[n].sinks))
      BY <2>7 DEF Flagged
    <2>9. QED
      BY <1>3, <2>7, <2>8 DEF Flags
  <1>16. QED
    BY <1>13, <1>14, <1>15 DEF SearchInv

(* Every step of a search keeps the invariant.                             *)
LEMMA SearchStepKeeps ==
  ASSUME NEW n, InputsFit(n), Kept, SearchInv(n), SearchStep(n)
  PROVE  SearchInv(n)'
  BY SkipSinkKeeps, BeginSinkKeeps, PopStaleKeeps, PopExpandKeeps, ReachSinkKeeps,
     FailSearchKeeps, FinishNetKeeps DEF SearchStep
-----------------------------------------------------------------------------
(* What a net, its device and the options must be for its route to be a    *)
(* tree: it is one that the router routes; nothing leaves a sink, whoever  *)
(* it belongs to, the net's sinks differ from each other and its source is *)
(* none; and the pips it came with, if any, form such a list as the router *)
(* makes of them (the search is then directed: the flags of the sinks that *)
(* the pips reach are not taken back).                                     *)
WellPosed(n) ==
    /\ ~IsIgnored(n)
    /\ \A i, j \in DOMAIN nets[n].sinks : nets[n].sinks[i] = nets[n].sinks[j] => i = j
    /\ \A x \in Node : IsSink(x) => rrg.switches[x] = {}
    /\ ~IsSink(nets[n].src)
    /\ nets[n].fixed # <<>> =>
         params.algo # "BREADTH_FIRST" /\ IsRoute(nets[n].fixed, nets[n].src)

(* Predecessor p, or none, for a node y that is reached at cost c.         *)
Linked(n, y, p, c) ==
    IF p = NULL
      THEN y = nets[n].src \/ y \in ElemsOf(path[n])
      ELSE /\ p \in mdf /\ pathCost[p] <= c
           /\ y \in rrg.switches[p] /\ y \notin ElemsOf(path[n])

(* The nodes reached by the search for one sink form a forest that grows   *)
(* from the source and the route so far.                                   *)
Forest(n) ==
    spc = "pop" =>
        /\ ~HasFound(n, CurSink(n))
        /\ \A e \in heap : Linked(n, e.owner, e.prev, e.cost)
        /\ \A y \in mdf : Linked(n, y, prev[y], pathCost[y]) /\ ~Ends(y, CurSink(n))
        /\ Acyclic(prev, mdf)

(* The route so far, and the sinks that are on it: those without a flag    *)
(* and those of the fixed path.                                            *)
RouteSoFar(n) ==
    spc \in {"sink", "pop"} =>
        /\ path[n] = <<>> \/ IsRoute(path[n], nets[n].src)
        /\ \A i \in DOMAIN nets[n].sinks :
             LET x == nets[n].sinks[i]
             IN  x \in ElemsOf(path[n]) <=> tarflg[x] = 0 \/ HasFound(n, x)
        /\ params.algo # "BREADTH_FIRST" =>
             \A i \in 1..(sinkIdx - 1) : nets[n].sinks[i] \in ElemsOf(path[n])

RouteDone(n) ==
    spc = "routed" =>
        /\ IsRoute(path[n], nets[n].src)
        /\ ElemsOf(nets[n].sinks) \subseteq ElemsOf(path[n])

TreeInv(n) == Forest(n) /\ RouteSoFar(n) /\ RouteDone(n)

(* Lists and sinks are judged by the inputs alone.                         *)
LEMMA RouteKept ==
  ASSUME UNCHANGED inputs
  PROVE  /\ nets' = nets /\ rrg' = rrg /\ params' = params
         /\ \A x : IsSink(x)' <=> IsSink(x)
         /\ \A p, s : IsRoute(p, s)' <=> IsRoute(p, s)
  <1>1. nets' = nets /\ rrg' = rrg /\ params' = params
    BY DEF inputs
  <1>2. \A x : IsSink(x)' <=> IsSink(x)
    BY <1>1 DEF IsSink, IsIgnored
  <1>3. \A p, s : IsRoute(p, s)' <=> IsRoute(p, s)
    BY <1>1, <1>2 DEF IsRoute, IsWalk, Fresh
  <1>4. QED
    BY <1>1, <1>2, <1>3

(* A list that stays is the route it was.                                  *)
LEMMA SameRoute ==
  ASSUME NEW n, UNCHANGED inputs, path'[n] = path[n], IsRoute(path[n], nets[n].src)
  PROVE  IsRoute(path[n], nets[n].src)'
  <1>1. (\A y : IsSink(y)' <=> IsSink(y)) /\ rrg' = rrg /\ nets' = nets
    BY RouteKept
  <1>2. IsRoute(path'[n], nets[n].src)
    OBVIOUS
  <1>3. QED
    BY <1>1, <1>2 DEF IsRoute, IsWalk, Fresh

(* So is whether a net fits its device.                                    *)
LEMMA WellPosedKept ==
  ASSUME NEW n, UNCHANGED inputs, WellPosed(n)
  PROVE  WellPosed(n)'
  BY RouteKept DEF WellPosed, IsIgnored

(* A net begins with its fixed path, or nothing, as its route.             *)
LEMMA BeginNetGrows ==
  ASSUME NEW n, NEW o, InputsFit(n), UNCHANGED inputs, Resting, WellPosed(n), BeginNet(n, o)
  PROVE  TreeInv(n)'
  <1> DEFINE sinks == nets[n].sinks
  <1>1. spc' = "sink" /\ sinkIdx' = 1 /\ nets' = nets /\ params' = params /\ rrg' = rrg
    BY RouteKept DEF BeginNet
  <1>2. IsPartial(n) <=> nets[n].fixed # <<>>
    BY DEF WellPosed, IsIgnored, Ignorable, IsPartial, PartlyRouted
  <1>3. path'[n] = nets[n].fixed
    BY <1>2 DEF BeginNet, Resting, Marks, InputsFit
  <1>4. (path[n] = <<>> \/ IsRoute(path[n], nets[n].src))'
    <2>1. path'[n] = <<>> \/ IsRoute(path'[n], nets[n].src)
      BY <1>3 DEF WellPosed
    <2>2. \A x : IsSink(x)' <=> IsSink(x)
      BY RouteKept
    <2>3. QED
      BY <2>1, <2>2, <1>1 DEF IsRoute, IsWalk, Fresh
  <1>5. ASSUME NEW i \in DOMAIN sinks
        PROVE  tarflg'[sinks[i]] # 0
    <2> DEFINE L == Len(sinks)
               S == {k \in DOMAIN sinks : sinks[k] = sinks[i]}
    <2>1. sinks[i] \in Node /\ L \in Nat /\ DOMAIN sinks = 1..L
      <3>1. sinks \in Seq(Node)
        BY DEF InputsFit
      <3> HIDE DEF sinks
      <3>2. QED
        BY <3>1
    <2>2. IsFiniteSet(S) /\ S # {}
      <3>1. S \in SUBSET (1..L) /\ i \in S
        BY <2>1
      <3>2. QED
        BY <2>1, <3>1, PositionsFinite
    <2>3. Cardinality(S) # 0
      BY <2>2, FS_EmptySet
    <2>4. tarflg[sinks[i]] = 0
      BY <2>1 DEF Resting
    <2>5. tarflg'[sinks[i]] = tarflg[sinks[i]] + Cardinality(S)
      BY <2>1 DEF BeginNet, MarkedSinks
    <2>6. Cardinality(S) \in Nat
      BY <2>2, FS_CardinalityType
    <2> HIDE DEF S
    <2>7. QED
      BY <2>3, <2>4, <2>5, <2>6
  <1>6. (\A i \in DOMAIN nets[n].sinks :
           LET x == nets[n].sinks[i]
           IN  x \in ElemsOf(path[n]) <=> tarflg[x] = 0 \/ HasFound(n, x))'
    BY <1>1, <1>3, <1>5 DEF HasFound
  <1>7. (\A i \in 1..(sinkIdx - 1) : nets[n].sinks[i] \in ElemsOf(path[n]))'
    BY <1>1
  <1>8. RouteSoFar(n)'
    BY <1>1, <1>4, <1>6, <1>7 DEF RouteSoFar
  <1>9. QED
    BY <1>1, <1>8 DEF TreeInv, Forest, RouteDone

(* A sink that is passed over is on the fixed path, hence on the route.    *)
LEMMA SkipSinkGrows ==
  ASSUME NEW n, InputsFit(n), Kept, SearchInv(n), WellPosed(n), TreeInv(n), SkipSink(n)
  PROVE  TreeInv(n)'
  <1>1. /\ spc = "sink" /\ spc' = "sink" /\ sinkIdx' = sinkIdx + 1
        /\ sinkIdx \in 1..Len(nets[n].sinks)
        /\ path' = path /\ tarflg' = tarflg
        /\ HasFound(n, CurSink(n))
    BY DEF SkipSink, nodeMarks, SearchInv, Types, Marks, InputsFit
  <1>2. CurSink(n) \in ElemsOf(path[n])
    <2>1. DOMAIN nets[n].sinks = 1..Len(nets[n].sinks)
      BY DEF InputsFit
    <2>2. QED
      BY <1>1, <2>1 DEF TreeInv, RouteSoFar, CurSink
  <1>3. \A x : HasFound(n, x)' <=> HasFound(n, x)
    BY RouteKept DEF HasFound, Kept
  <1>4. \A i \in 1..(sinkIdx' - 1) : i \in 1..(sinkIdx - 1) \/ i = sinkIdx
    BY <1>1
  <1>5. RouteSoFar(n)'
    BY <1>1, <1>2, <1>3, <1>4, RouteKept DEF TreeInv, RouteSoFar, CurSink, Kept
  <1>6. QED
    BY <1>1, <1>5 DEF TreeInv, Forest, RouteDone

(* The search for a sink begins with entries that have no predecessor.     *)
LEMMA BeginSinkGrows ==
  ASSUME NEW n, InputsFit(n), Kept, SearchInv(n), WellPosed(n), TreeInv(n), BeginSink(n)
  PROVE  TreeInv(n)'
  <1>1. /\ spc = "sink" /\ spc' = "pop" /\ sinkIdx' = sinkIdx
        /\ path' = path /\ tarflg' = tarflg /\ mdf' = mdf /\ mdf = {}
        /\ ~HasFound(n, CurSink(n))
    BY DEF BeginSink, SearchInv, Slate
  <1>2. \A x : HasFound(n, x)' <=> HasFound(n, x)
    BY RouteKept DEF HasFound, Kept
  <1>3. RouteSoFar(n)'
    BY <1>1, <1>2, RouteKept DEF TreeInv, RouteSoFar, Kept
  <1>4. ASSUME NEW e \in heap'
        PROVE  Linked(n, e.owner, e.prev, e.cost)'
    <2>1. TraceBack(path[n], newiter) \subseteq ElemsOf(path[n])
      BY TraceBackFits DEF SearchInv, Types, Marks, InputsFit
    <2>2. e.prev = NULL /\ (e.owner = nets[n].src \/ e.owner \in TraceBack(path[n], newiter))
      <3>1. \A x, c : Entry(x, NULL, c).owner = x /\ Entry(x, NULL, c).prev = NULL
        BY EntryFits
      <3>2. \/ e = Entry(nets[n].src, NULL, CongCost(nets[n].src))
            \/ \E x \in TraceBack(path[n], newiter) : e = Entry(x, NULL, NO_PREVIOUS)
        BY DEF BeginSink, Added
      <3>3. QED
        BY <3>1, <3>2
    <2>3. QED
      BY <1>1, <2>1, <2>2, RouteKept DEF Linked, Kept
  <1>5. Forest(n)'
    <2>1. ~HasFound(n, CurSink(n))'
      BY <1>1, <1>2, RouteKept DEF CurSink, HasFound, Kept
    <2>2. Acyclic(prev, mdf)'
      BY <1>1 DEF Acyclic
    <2>3. QED
      BY <1>1, <1>4, <2>1, <2>2 DEF Forest
  <1>6. QED
    BY <1>1, <1>3, <1>5 DEF TreeInv, RouteDone

(* Dropping an entry leaves the forest as it is.                           *)
LEMMA PopStaleGrows ==
  ASSUME NEW n, InputsFit(n), Kept, SearchInv(n), WellPosed(n), TreeInv(n), PopStale(n)
  PROVE  TreeInv(n)'
  <1>1. /\ spc = "pop" /\ spc' = "pop" /\ heap' \subseteq heap
        /\ UNCHANGED <<tarflg, pathCost, prev, isPath, mdf, path, sinkIdx>>
    BY DEF PopStale, Popped, nodeMarks
  <1>2. /\ \A x : HasFound(n, x)' <=> HasFound(n, x)
        /\ \A x : Ends(x, CurSink(n))' <=> Ends(x, CurSink(n))
        /\ CurSink(n)' = CurSink(n)
    BY <1>1, RouteKept DEF HasFound, Ends, CurSink, Kept
  <1>3. \A y, p, c : Linked(n, y, p, c)' <=> Linked(n, y, p, c)
    BY <1>1, RouteKept DEF Linked, Kept
  <1>4. RouteSoFar(n)'
    BY <1>1, <1>2, RouteKept DEF TreeInv, RouteSoFar, Kept
  <1>5. Forest(n)'
    <2>1. ~HasFound(n, CurSink(n))'
      BY <1>1, RouteKept DEF TreeInv, Forest, HasFound, CurSink, Kept
    <2>2. Acyclic(prev, mdf)'
      BY <1>1 DEF TreeInv, Forest, Acyclic
    <2>3. \A y \in mdf' : Linked(n, y, prev[y], pathCost[y])' /\ ~Ends(y, CurSink(n))'
      BY <1>1, <1>2, <1>3 DEF TreeInv, Forest
    <2>4. QED
      BY <1>1, <1>3, <2>1, <2>2, <2>3 DEF TreeInv, Forest
  <1>6. QED
    BY <1>1, <1>4, <1>5 DEF TreeInv, RouteDone

(* A node that is reached more cheaply takes its new predecessor: going    *)
(* back still comes to an end, costs not rising on the way.                *)
LEMMA CheaperKeepsAcyclic ==
  ASSUME NEW A \in SUBSET Node, NEW pv \in [Node -> Node \cup {NULL}], NEW pc \in [Node -> Int],
         Acyclic(pv, A),
         \A y \in A : pv[y] # NULL => pv[y] \in A /\ pc[pv[y]] <= pc[y],
         NEW x \in Node, NEW p \in A \cup {NULL}, NEW c \in Int,
         pc[x] > c, p # NULL => pc[p] <= c
  PROVE  Acyclic([pv EXCEPT ![x] = p], A \cup {x})
  <1> SUFFICES ASSUME NEW S \in SUBSET (A \cup {x}), S # {},
                      \A y \in S : [pv EXCEPT ![x] = p][y] \in S
               PROVE  FALSE
    BY DEF Acyclic
  <1>1. \A y \in S : y \in Node /\ y # NULL
    BY NullAssumption
  <1>2. \A y \in S : y # x => pv[y] \in S
    BY <1>1
  <1>3. CASE x \notin S
    BY <1>2, <1>3 DEF Acyclic
  <1>4. CASE x \in S
    <2> DEFINE T == {y \in S \ {x} : pc[y] <= c}
    <2>1. p \in S
      BY <1>4
    <2>2. p \in A /\ p # NULL /\ p # x
      BY <1>1, <2>1
    <2>3. p \in T
      BY <2>1, <2>2
    <2>4. ASSUME NEW y \in T
          PROVE  pv[y] \in T
      <3>1. pv[y] \in S /\ pv[y] # NULL /\ y \in A
        BY <1>1, <1>2
      <3>2. pc[pv[y]] <= pc[y] /\ pc[y] <= c /\ pc[pv[y]] \in Int /\ pc[y] \in Int
        BY <3>1
      <3>3. pc[pv[y]] <= c
        BY <3>2
      <3>4. QED
        BY <3>1, <3>3
    <2>5. T \in SUBSET A
      OBVIOUS
    <2>6. QED
      BY <2>3, <2>4, <2>5 DEF Acyclic
  <1>5. QED
    BY <1>3, <1>4

(* So it is when a node is reached for the first time.                     *)
LEMMA FirstKeepsAcyclic ==
  ASSUME NEW A \in SUBSET Node, NEW pv \in [Node -> Node \cup {NULL}],
         Acyclic(pv, A), \A y \in A : pv[y] \in A \cup {NULL},
         NEW x \in Node, x \notin A, NEW p \in A \cup {NULL}
  PROVE  Acyclic([pv EXCEPT ![x] = p], A \cup {x})
  <1> SUFFICES ASSUME NEW S \in SUBSET (A \cup {x}), S # {},
                      \A y \in S : [pv EXCEPT ![x] = p][y] \in S
               PROVE  FALSE
    BY DEF Acyclic
  <1> DEFINE T == S \ {x}
  <1>1. \A y \in S : y # NULL
    BY NullAssumption
  <1>2. \A y \in T : pv[y] \in S /\ y \in A
    OBVIOUS
  <1>3. \A y \in T : pv[y] \in T
    BY <1>1, <1>2
  <1>4. T # {}
    <2>1. x \in S => p \in S
      OBVIOUS
    <2>2. QED
      BY <1>1, <2>1
  <1>5. QED
    BY <1>2, <1>3, <1>4 DEF Acyclic

(* The owner of the entry takes its place in the forest, and what it       *)
(* offers is linked to it.                                                 *)
LEMMA PopExpandGrows ==
  ASSUME NEW n, InputsFit(n), Kept, SearchInv(n), WellPosed(n), TreeInv(n), PopExpand(n)
  PROVE  TreeInv(n)'
  <1>1. PICK e \in heap :
          /\ ~Ends(e.owner, CurSink(n))
          /\ pathCost[e.owner] > e.cost
          /\ prev' = [prev EXCEPT ![e.owner] = e.prev]
          /\ pathCost' = [pathCost EXCEPT ![e.owner] = e.cost]
          /\ mdf' = Modified(e.owner)
          /\ heap' = Popped(e) \cup Added(Offers(n, e, CurSink(n)), pathCost')
    BY DEF PopExpand
  <1>2. e \in EntrySet /\ e.owner \in Node /\ e.prev \in Node \cup {NULL} /\ e.cost \in Int
    BY DEF SearchInv, Types, Marks, EntrySet
  <1>3. /\ spc = "pop" /\ spc' = "pop" /\ nets' = nets /\ params' = params /\ rrg' = rrg
        /\ UNCHANGED <<tarflg, isPath, path, sinkIdx>>
    BY DEF PopExpand, Kept, inputs
  <1>4. /\ pathCost \in [Node -> Int] /\ pathCost' \in [Node -> Int]
        /\ prev \in [Node -> Node \cup {NULL}] /\ mdf \in SUBSET Node
        /\ \A x \in Node : pathCost[x] <= Huge /\ (x \in mdf <=> pathCost[x] < Huge)
        /\ \A f \in heap : f.cost \in Int
    BY <1>1, <1>2 DEF SearchInv, Types, Marks, Slate, EntrySet
  <1>5. mdf' = mdf \cup {e.owner}
    BY <1>1, <1>2, <1>4, HugeAssumption DEF Modified
  <1>6. /\ \A x \in Node : pathCost'[x] = IF x = e.owner THEN e.cost ELSE pathCost[x]
        /\ \A x \in Node : prev'[x] = IF x = e.owner THEN e.prev ELSE prev[x]
        /\ \A x \in Node : pathCost'[x] <= pathCost[x]
    BY <1>1, <1>2, <1>4
  <1>7. /\ CurSink(n)' = CurSink(n) /\ CurSink(n) \in Node
        /\ \A x : HasFound(n, x)' <=> HasFound(n, x)
        /\ \A x : Ends(x, CurSink(n))' <=> Ends(x, CurSink(n))
    BY <1>3 DEF HasFound, Ends, CurSink, SearchInv, Types, Marks, InputsFit
  <1>8. ASSUME NEW y, NEW p \in Node \cup {NULL}, NEW c \in Int, Linked(n, y, p, c)
        PROVE  Linked(n, y, p, c)'
    <2>1. CASE p = NULL
      BY <1>8, <2>1, <1>3 DEF Linked
    <2>2. CASE p # NULL
      <3>1. p \in mdf /\ pathCost[p] <= c
        BY <1>8, <2>2 DEF Linked
      <3>2. p \in mdf' /\ pathCost'[p] <= c
        BY <3>1, <1>4, <1>5, <1>6
      <3>3. QED
        BY <1>8, <2>2, <3>2, <1>3 DEF Linked
    <2>3. QED
      BY <2>1, <2>2
  <1>9. Linked(n, e.owner, e.prev, e.cost)
    BY <1>3 DEF TreeInv, Forest
  <1>10. ASSUME NEW f \in heap'
         PROVE  Linked(n, f.owner, f.prev, f.cost)'
    <2>1. CASE f \in heap
      <3>1. f.prev \in Node \cup {NULL} /\ f.cost \in Int /\ Linked(n, f.owner, f.prev, f.cost)
        BY <2>1, <1>3 DEF SearchInv, Types, Marks, EntrySet, TreeInv, Forest
      <3>2. QED
        BY <3>1, <1>8
    <2>2. CASE f \notin heap
      <3>1. f \in Offers(n, e, CurSink(n))
        BY <2>2, <1>1 DEF Popped, Added
      <3>2. /\ f \in EntrySet /\ f.owner \in rrg.switches[e.owner] /\ f.cost >= e.cost
            /\ f.prev = IF isPath[f.owner] THEN NULL ELSE e.owner
        BY <3>1, <1>2, <1>7, OfferFits DEF SearchInv
      <3>3. f.owner \in Node /\ f.cost \in Int
        BY <3>2 DEF EntrySet
      <3>4. isPath[f.owner] <=> f.owner \in ElemsOf(path[n])
        BY <3>3, <1>3 DEF SearchInv, Slate
      <3>5. e.owner \in mdf' /\ pathCost'[e.owner] <= f.cost
        BY <1>2, <1>5, <1>6, <3>2, <3>3
      <3>6. e.owner # NULL
        BY <1>2, NullAssumption
      <3>7. CASE isPath[f.owner]
        BY <3>2, <3>4, <3>7, <1>3 DEF Linked
      <3>8. CASE ~isPath[f.owner]
        BY <3>2, <3>4, <3>5, <3>6, <3>8, <1>3 DEF Linked
      <3>9. QED
        BY <3>7, <3>8
    <2>3. QED
      BY <2>1, <2>2
  <1>11. ASSUME NEW y \in mdf'
         PROVE  Linked(n, y, prev[y], pathCost[y])' /\ ~Ends(y, CurSink(n))'
    <2>1. CASE y = e.owner
      <3>1. Linked(n, y, e.prev, e.cost)'
        BY <2>1, <1>2, <1>8, <1>9
      <3>2. prev'[y] = e.prev /\ pathCost'[y] = e.cost
        BY <2>1, <1>2, <1>6
      <3>3. QED
        BY <2>1, <3>1, <3>2, <1>1, <1>7
    <2>2. CASE y # e.owner
      <3>1. y \in mdf /\ y \in Node
        BY <2>2, <1>4, <1>5
      <3>2. Linked(n, y, prev[y], pathCost[y]) /\ ~Ends(y, CurSink(n))
        BY <3>1, <1>3 DEF TreeInv, Forest
      <3>3. prev[y] \in Node \cup {NULL} /\ pathCost[y] \in Int
        BY <3>1, <1>4
      <3>4. prev'[y] = prev[y] /\ pathCost'[y] = pathCost[y]
        BY <2>2, <3>1, <1>6
      <3> DEFINE p == prev[y]
                 c == pathCost[y]
      <3>5. Linked(n, y, p, c)'
        BY <3>2, <3>3, <3>4, <1>8
      <3>6. QED
        BY <3>2, <3>4, <3>5, <1>7
    <2>3. QED
      BY <2>1, <2>2
  <1>12. Acyclic(prev, mdf)'
    <2>1. Acyclic(prev, mdf)
      BY <1>3 DEF TreeInv, Forest
    <2>2. \A y \in mdf : prev[y] # NULL => prev[y] \in mdf /\ pathCost[prev[y]] <= pathCost[y]
      BY <1>3 DEF TreeInv, Forest, Linked
    <2>3. e.prev \in mdf \cup {NULL} /\ (e.prev # NULL => pathCost[e.prev] <= e.cost)
      BY <1>9 DEF Linked
    <2> DEFINE q == e.prev
               x == e.owner
               c == e.cost
    <2>4. /\ q \in mdf \cup {NULL} /\ x \in Node /\ c \in Int
          /\ pathCost[x] > c /\ (q # NULL => pathCost[q] <= c)
      BY <2>3, <1>1, <1>2
    <2> HIDE DEF q, x, c
    <2>5. Acyclic([prev EXCEPT ![x] = q], mdf \cup {x})
      BY <2>1, <2>2, <2>4, <1>4, CheaperKeepsAcyclic
    <2>6. prev' = [prev EXCEPT ![x] = q] /\ mdf' = mdf \cup {x}
      BY <1>1, <1>5 DEF q, x
    <2>7. QED
      BY <2>5, <2>6 DEF Acyclic
  <1>13. RouteSoFar(n)'
    BY <1>3, <1>7, RouteKept DEF TreeInv, RouteSoFar, Kept
  <1>14. Forest(n)'
    <2>1. ~HasFound(n, CurSink(n))'
      BY <1>3 DEF TreeInv, Forest, HasFound, CurSink
    <2>2. QED
      BY <1>3, <1>10, <1>11, <1>12, <2>1 DEF Forest
  <1>15. QED
    BY <1>3, <1>13, <1>14 DEF TreeInv, RouteDone

(* The node that ends a search is a sink that is flagged once and that the *)
(* route has not reached yet.                                              *)
LEMMA EndIsNew ==
  ASSUME NEW n, InputsFit(n), SearchInv(n), WellPosed(n), TreeInv(n), spc = "pop",
         NEW x \in Node, Ends(x, CurSink(n))
  PROVE  IsSink(x) /\ x \notin ElemsOf(path[n]) /\ tarflg[x] = 1
  <1> DEFINE L == Len(nets[n].sinks)
  <1>1. L \in Nat /\ DOMAIN nets[n].sinks = 1..L
    BY DEF InputsFit
  <1>2. PICK J : Flagged(n, J)
    BY DEF SearchInv, Flags
  <1>3. /\ \E i \in J : nets[n].sinks[i] = x
        /\ tarflg[x] \in Nat \ {0}
    BY <1>2, EndIsFlagged
  <1>4. PICK i \in J : nets[n].sinks[i] = x
    BY <1>3
  <1>5. J \in SUBSET (1..L) /\ tarflg[x] = Cardinality(Positions(nets[n].sinks, J, x))
    BY <1>2 DEF Flagged, FlagsOf
  <1>6. x \in ElemsOf(nets[n].sinks)
    BY <1>1, <1>4, <1>5 DEF ElemsOf
  <1>7. IsSink(x)
    BY <1>6 DEF IsSink, InputsFit, WellPosed
  <1>8. tarflg[x] = 1
    <2>1. \A j \in J : nets[n].sinks[j] = x => j = i
      BY <1>1, <1>4, <1>5 DEF WellPosed
    <2>2. Positions(nets[n].sinks, J, x) = {i}
      BY <1>4, <2>1 DEF Positions
    <2>3. QED
      BY <1>5, <2>2, FS_Singleton
  <1>9. ~HasFound(n, x)
    <2>1. CASE params.algo = "BREADTH_FIRST"
      <3>1. nets[n].fixed = <<>>
        BY <2>1 DEF WellPosed
      <3>2. QED
        BY <3>1 DEF HasFound, ElemsOf
    <2>2. CASE params.algo # "BREADTH_FIRST"
      BY <2>2 DEF TreeInv, Forest, Ends
    <2>3. QED
      BY <2>1, <2>2
  <1>10. x \notin ElemsOf(path[n])
    BY <1>1, <1>3, <1>4, <1>5, <1>9 DEF TreeInv, RouteSoFar
  <1>11. QED
    BY <1>7, <1>8, <1>10

(* The branch that is traced back from there continues the route.          *)
LEMMA BranchContinues ==
  ASSUME NEW n, InputsFit(n), SearchInv(n), WellPosed(n), TreeInv(n), spc = "pop",
         NEW e \in heap, Ends(e.owner, CurSink(n)),
         NEW pv, pv = [prev EXCEPT ![e.owner] = e.prev]
  PROVE  /\ Continues(path[n], BranchTo(e.owner, pv), nets[n].src)
         /\ e.owner \in ElemsOf(BranchTo(e.owner, pv))
         /\ \A y \in ElemsOf(BranchTo(e.owner, pv)) : IsSink(y) => y = e.owner
  <1> DEFINE x == e.owner
             A == mdf \cup {x}
             b == BranchTo(x, pv)
             B == Len(b)
  <1>1. e \in EntrySet /\ x \in Node /\ e.prev \in Node \cup {NULL} /\ e.cost \in Int
    BY DEF SearchInv, Types, Marks, EntrySet
  <1>2. /\ prev \in [Node -> Node \cup {NULL}] /\ mdf \in SUBSET Node
        /\ pv \in [Node -> Node \cup {NULL}]
        /\ \A y \in Node : pv[y] = IF y = x THEN e.prev ELSE prev[y]
    BY <1>1 DEF SearchInv, Types, Marks
  <1>3. x \notin mdf
    BY DEF TreeInv, Forest
  <1>4. /\ \A y \in mdf : Linked(n, y, prev[y], pathCost[y])
        /\ Linked(n, x, e.prev, e.cost)
        /\ Acyclic(prev, mdf)
    BY DEF TreeInv, Forest
  <1>5. \A y \in A : IF pv[y] = NULL
                       THEN y = nets[n].src \/ y \in ElemsOf(path[n])
                       ELSE pv[y] \in mdf /\ y \in rrg.switches[pv[y]] /\ y \notin ElemsOf(path[n])
    BY <1>1, <1>2, <1>3, <1>4 DEF Linked
  <1>6. Acyclic(pv, A)
    <2> DEFINE p == e.prev
    <2>1. p \in mdf \cup {NULL} /\ \A y \in mdf : prev[y] \in mdf \cup {NULL}
      BY <1>4 DEF Linked
    <2> HIDE DEF p, x
    <2>2. Acyclic([prev EXCEPT ![x] = p], mdf \cup {x})
      BY <1>1, <1>2, <1>3, <1>4, <2>1, FirstKeepsAcyclic
    <2>3. pv = [prev EXCEPT ![x] = p]
      BY DEF p, x
    <2> HIDE DEF A
    <2>4. A = mdf \cup {x}
      BY DEF A
    <2>5. QED
      BY <2>2, <2>3, <2>4, Zenon
  <1>7. /\ x \in A /\ A \in SUBSET Node /\ \A y \in A : pv[y] \in A \cup {NULL}
    BY <1>1, <1>2, <1>5
  <1> HIDE DEF A, x
  <1>8. IsBranch(b, x, pv) /\ ElemsOf(b) \subseteq A /\ pv[b[1]] = NULL
    <2>1. x \in Node /\ pv \in [Node -> Node \cup {NULL}]
      BY <1>1, <1>2
    <2> HIDE DEF b
    <2>2. b = BranchTo(x, pv)
      BY DEF b
    <2>3. /\ IsBranch(BranchTo(x, pv), x, pv)
          /\ ElemsOf(BranchTo(x, pv)) \subseteq A
          /\ pv[BranchTo(x, pv)[1]] = NULL
      BY <2>1, <1>6, <1>7, BranchIsChain, ZenonT(40)
    <2>4. QED
      BY <2>2, <2>3, Zenon
  <1> HIDE DEF b
  <1>9. b \in Seq(Node) /\ B \in Nat /\ B >= 1 /\ DOMAIN b = 1..B /\ b[B] = x
    BY <1>8 DEF IsBranch, NonEmpty
  <1>10. \A i \in 1..B : b[i] \in A /\ b[i] \in ElemsOf(b)
    BY <1>8, <1>9 DEF ElemsOf
  <1>11. ASSUME NEW i \in 1..(B - 1)
         PROVE  /\ b[i + 1] \in rrg.switches[b[i]] /\ ~IsSink(b[i])
                /\ b[i + 1] \notin ElemsOf(path[n])
    <2>1. i \in 1..B /\ i + 1 \in 1..B
      BY <1>9
    <2>2. b[i] \in A /\ b[i + 1] \in A /\ b[i] \in Node /\ b[i] # NULL
      BY <1>7, <1>10, <2>1, NullAssumption
    <2>3. pv[b[i + 1]] = b[i]
      BY <1>8 DEF IsBranch
    <2>4. b[i + 1] \in rrg.switches[b[i]] /\ b[i + 1] \notin ElemsOf(path[n])
      BY <1>5, <2>2, <2>3
    <2>5. QED
      BY <2>2, <2>4 DEF WellPosed
  <1>12. IF path[n] = <<>> THEN b[1] = nets[n].src ELSE b[1] \in ElemsOf(path[n])
    <2>1. b[1] = nets[n].src \/ b[1] \in ElemsOf(path[n])
      BY <1>5, <1>8, <1>9, <1>10
    <2>2. CASE path[n] = <<>>
      BY <2>1, <2>2 DEF ElemsOf
    <2>3. CASE path[n] # <<>>
      <3>1. IsRoute(path[n], nets[n].src)
        BY <2>3 DEF TreeInv, RouteSoFar
      <3>2. nets[n].src \in ElemsOf(path[n])
        BY <3>1 DEF IsRoute, IsWalk, NonEmpty, ElemsOf
      <3>3. QED
        BY <2>1, <2>3, <3>2
    <2>4. QED
      BY <2>2, <2>3
  <1>13. IsSink(x) /\ x \notin ElemsOf(path[n])
    BY <1>1, EndIsNew DEF x
  <1>14. B >= 2
    <2>1. b[1] # x
      BY <1>12, <1>13 DEF WellPosed
    <2>2. QED
      BY <1>9, <2>1
  <1>15. \A i \in 2..B : b[i] \notin ElemsOf(path[n])
    <2> TAKE i \in 2..B
    <2>1. i - 1 \in 1..(B - 1) /\ (i - 1) + 1 = i
      BY <1>9
    <2>2. QED
      BY <1>11, <2>1
  <1>16. \A i, j \in 1..B : b[i] = b[j] => i = j
    BY <1>8 DEF IsBranch
  <1>17. IsSink(b[B])
    BY <1>9, <1>13
  <1>18. Continues(path[n], b, nets[n].src)
    BY <1>9, <1>11, <1>12, <1>14, <1>15, <1>16, <1>17 DEF Continues, Leaves
  <1>19. x \in ElemsOf(b)
    BY <1>9, <1>10
  <1>20. \A y \in ElemsOf(b) : IsSink(y) => y = x
    <2> SUFFICES ASSUME NEW y \in ElemsOf(b), IsSink(y)
                 PROVE  y = x
      OBVIOUS
    <2>1. PICK i \in 1..B : b[i] = y
      BY <1>9 DEF ElemsOf
    <2>2. ~(i \in 1..(B - 1))
      BY <1>11, <2>1
    <2> HIDE DEF B
    <2>3. i = B
      BY <1>9, <2>2
    <2>4. QED
      BY <1>9, <2>1, <2>3
  <1>21. QED
    BY <1>18, <1>19, <1>20 DEF b, x

(* The route grows by the branch, and the sink that it reaches is no       *)
(* longer flagged.                                                         *)
LEMMA ReachSinkGrows ==
  ASSUME NEW n, InputsFit(n), Kept, SearchInv(n), WellPosed(n), TreeInv(n), ReachSink(n)
  PROVE  TreeInv(n)'
  <1>1. PICK e : Reached(n, e)
    BY DEF ReachSink, Reached, Unflagged, PathMarks, Cleared
  <1> DEFINE x == e.owner
             b == BranchTo(x, prev')
  <1>2. e \in heap /\ x \in Node /\ Ends(x, CurSink(n))
    BY <1>1 DEF SearchInv, Types, Marks, EntrySet, Reached
  <1>3. /\ spc = "pop" /\ spc' = "sink" /\ nets' = nets /\ params' = params /\ rrg' = rrg
        /\ sinkIdx' = sinkIdx + 1 /\ sinkIdx \in 1..Len(nets[n].sinks)
    BY DEF ReachSink, Kept, inputs, SearchInv, Types, Marks, InputsFit
  <1>4. IsSink(x) /\ x \notin ElemsOf(path[n]) /\ tarflg[x] = 1
    BY <1>2, <1>3, EndIsNew
  <1>5. /\ Continues(path[n], b, nets[n].src)
        /\ x \in ElemsOf(b)
        /\ \A y \in ElemsOf(b) : IsSink(y) => y = x
    <2>1. prev' = [prev EXCEPT ![x] = e.prev]
      BY <1>1 DEF Reached
    <2>2. QED
      BY <1>2, <1>3, <2>1, BranchContinues
  <1>6. path'[n] = path[n] \o b /\ path[n] \in Seq(Node) /\ b \in Seq(Node)
    BY <1>1, <1>5 DEF Reached, SearchInv, Types, Marks, InputsFit, Continues, Leaves
  <1>7. \A y \in Node : tarflg'[y] = IF y = x THEN tarflg[y] - 1 ELSE tarflg[y]
    BY <1>1 DEF Reached
  <1> HIDE DEF b, x
  <1>8. IsRoute(path'[n], nets[n].src)
    <2>1. nets[n].src \in Node
      BY DEF InputsFit
    <2>2. path[n] = <<>> \/ IsRoute(path[n], nets[n].src)
      BY <1>3 DEF TreeInv, RouteSoFar
    <2> DEFINE p == path[n]
               s == nets[n].src
    <2> HIDE DEF p, s
    <2>3. s \in Node /\ (p = <<>> \/ IsRoute(p, s)) /\ Continues(p, b, s)
      BY <1>5, <2>1, <2>2 DEF p, s
    <2>4. IsRoute(p \o b, s)
      BY <2>3, AppendKeepsRoute
    <2>5. QED
      BY <1>6, <2>4 DEF p, s
  <1>9. IsRoute(path[n], nets[n].src)'
    <2>1. \A y : IsSink(y)' <=> IsSink(y)
      BY RouteKept DEF Kept
    <2>2. QED
      BY <1>3, <1>8, <2>1 DEF IsRoute, IsWalk, Fresh
  <1>10. ElemsOf(path'[n]) = ElemsOf(path[n]) \cup ElemsOf(b)
    BY <1>6, ElemsAppended
  <1>11. DOMAIN nets[n].sinks = 1..Len(nets[n].sinks) /\ Len(nets[n].sinks) \in Nat
    BY DEF InputsFit
  <1>12. ASSUME NEW i \in DOMAIN nets[n].sinks, NEW y, y = nets[n].sinks[i]
         PROVE  y \in ElemsOf(path'[n]) <=> tarflg'[y] = 0 \/ HasFound(n, y)
    <2>1. y \in Node /\ IsSink(y)
      <3>1. y \in ElemsOf(nets[n].sinks)
        BY <1>12 DEF ElemsOf
      <3>2. y \in Node
        BY <1>12, <1>11 DEF InputsFit
      <3>3. QED
        BY <3>1, <3>2 DEF IsSink, InputsFit, WellPosed
    <2>2. CASE y = x
      BY <2>1, <2>2, <1>4, <1>5, <1>7, <1>10
    <2>3. CASE y # x
      <3>1. y \in ElemsOf(path'[n]) <=> y \in ElemsOf(path[n])
        BY <2>1, <2>3, <1>5, <1>10
      <3>2. y \in ElemsOf(path[n]) <=> tarflg[y] = 0 \/ HasFound(n, y)
        BY <1>3, <1>12 DEF TreeInv, RouteSoFar
      <3>3. QED
        BY <2>1, <2>3, <3>1, <3>2, <1>7
    <2>4. QED
      BY <2>2, <2>3
  <1>13. ASSUME params.algo # "BREADTH_FIRST", NEW i \in 1..sinkIdx
         PROVE  nets[n].sinks[i] \in ElemsOf(path'[n])
    <2>1. CASE i = sinkIdx
      <3>1. x = nets[n].sinks[i]
        BY <1>2, <1>13, <2>1 DEF Ends, CurSink
      <3>2. QED
        BY <3>1, <1>5, <1>10
    <2>2. CASE i # sinkIdx
      <3>1. i \in 1..(sinkIdx - 1)
        BY <1>3, <2>2
      <3>2. QED
        BY <3>1, <1>3, <1>10, <1>13 DEF TreeInv, RouteSoFar
    <2>3. QED
      BY <2>1, <2>2
  <1>14. RouteSoFar(n)'
    <2>1. (\A i \in DOMAIN nets[n].sinks :
             LET y == nets[n].sinks[i]
             IN  y \in ElemsOf(path[n]) <=> tarflg[y] = 0 \/ HasFound(n, y))'
      BY <1>3, <1>12 DEF HasFound
    <2>2. (params.algo # "BREADTH_FIRST" =>
             \A i \in 1..(sinkIdx - 1) : nets[n].sinks[i] \in ElemsOf(path[n]))'
      <3>1. 1..(sinkIdx' - 1) = 1..sinkIdx
        BY <1>3
      <3>2. QED
        BY <1>3, <1>13, <3>1
    <2>3. QED
      BY <1>9, <2>1, <2>2 DEF RouteSoFar
  <1>15. QED
    BY <1>3, <1>14 DEF TreeInv, Forest, RouteDone

(* A net is finished when all its sinks are on the route.                  *)
LEMMA FinishNetGrows ==
  ASSUME NEW n, InputsFit(n), Kept, SearchInv(n), WellPosed(n), TreeInv(n), FinishNet(n)
  PROVE  TreeInv(n)'
  <1> DEFINE L == Len(nets[n].sinks)
  <1>1. /\ spc = "sink" /\ spc' = "routed" /\ nets' = nets /\ path' = path /\ tarflg' = tarflg
        /\ sinkIdx > L /\ L \in Nat /\ DOMAIN nets[n].sinks = 1..L /\ sinkIdx \in 1..(L + 1)
    BY DEF FinishNet, Kept, inputs, InputsFit, SearchInv, Types, Marks
  <1>2. ASSUME NEW i \in 1..L
        PROVE  nets[n].sinks[i] \in ElemsOf(path[n])
    <2>1. CASE params.algo = "BREADTH_FIRST"
      <3>1. nets[n].fixed = <<>>
        BY <2>1 DEF WellPosed
      <3>2. SearchInv(n)'
        BY FinishNetKeeps
      <3>3. \A y \in Node : tarflg[y] = 0
        BY <1>1, <3>1, <3>2 DEF SearchInv, Flags
      <3>4. nets[n].sinks[i] \in Node
        BY <1>1 DEF InputsFit
      <3>5. QED
        BY <1>1, <3>3, <3>4 DEF TreeInv, RouteSoFar
    <2>2. CASE params.algo # "BREADTH_FIRST"
      <3>1. i \in 1..(sinkIdx - 1)
        BY <1>1
      <3>2. QED
        BY <1>1, <2>2, <3>1 DEF TreeInv, RouteSoFar
    <2>3. QED
      BY <2>1, <2>2
  <1>3. ElemsOf(nets[n].sinks) \subseteq ElemsOf(path[n])
    BY <1>1, <1>2 DEF ElemsOf
  <1>4. path[n] # <<>>
    <2>1. L # 0
      BY DEF WellPosed, IsIgnored, Ignorable
    <2>2. 1 \in 1..L
      BY <1>1, <2>1
    <2>3. nets[n].sinks[1] \in ElemsOf(path[n])
      BY <1>2, <2>2
    <2>4. ElemsOf(<<>>) = {}
      BY DEF ElemsOf
    <2>5. QED
      BY <2>3, <2>4
  <1>5. IsRoute(path[n], nets[n].src)
    BY <1>1, <1>4 DEF TreeInv, RouteSoFar
  <1>6. IsRoute(path[n], nets[n].src)'
    BY <1>1, <1>5, SameRoute DEF Kept
  <1>7. QED
    BY <1>1, <1>3, <1>6 DEF TreeInv, Forest, RouteSoFar, RouteDone

(* Every step of a search keeps the route such a route.                    *)
LEMMA SearchStepGrows ==
  ASSUME NEW n, InputsFit(n), Kept, SearchInv(n), WellPosed(n), TreeInv(n), SearchStep(n)
  PROVE  TreeInv(n)'
  <1>1. CASE FailSearch(n)
    BY <1>1 DEF FailSearch, TreeInv, Forest, RouteSoFar, RouteDone
  <1>2. QED
    BY <1>1, SkipSinkGrows, BeginSinkGrows, PopStaleGrows, PopExpandGrows, ReachSinkGrows,
       FinishNetGrows DEF SearchStep

(* A step that changes nothing keeps everything.                           *)
LEMMA StutterKeeps ==
  ASSUME NEW n, UNCHANGED svars
  PROVE  (SearchInv(n) => SearchInv(n)') /\ (TreeInv(n) => TreeInv(n)')
  <1>1. /\ path' = path /\ mdf' = mdf /\ spc' = spc /\ heap' = heap /\ prev' = prev
        /\ pathCost' = pathCost /\ tarflg' = tarflg /\ sinkIdx' = sinkIdx
        /\ isPath' = isPath /\ segEnd' = segEnd /\ newiter' = newiter /\ UNCHANGED inputs
    BY DEF svars, nodeMarks, searchVars
  <1>2. nets' = nets /\ rrg' = rrg /\ params' = params /\ \A x : IsSink(x)' <=> IsSink(x)
    BY <1>1, RouteKept
  <1>3. SearchInv(n) => SearchInv(n)'
    BY <1>1, <1>2 DEF SearchInv, Types, Marks, Slate, Flags, Flagged, FlagsOf
  <1>4. IsRoute(path[n], nets[n].src)' <=> IsRoute(path[n], nets[n].src)
    <2>1. path'[n] = path[n] /\ nets' = nets /\ rrg' = rrg /\ \A x : IsSink(x)' <=> IsSink(x)
      BY <1>1, <1>2
    <2>2. QED
      BY <2>1 DEF IsRoute, IsWalk, Fresh
  <1>5. RouteSoFar(n) /\ RouteDone(n) => RouteSoFar(n)' /\ RouteDone(n)'
    BY <1>1, <1>2, <1>4 DEF RouteSoFar, RouteDone, HasFound
  <1>6. Forest(n) => Forest(n)'
    BY <1>1, <1>2 DEF Forest, HasFound, CurSink, Ends, Linked, Acyclic
  <1>7. QED
    BY <1>3, <1>5, <1>6 DEF TreeInv
=============================================================================
