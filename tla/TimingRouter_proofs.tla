-------------------------- MODULE TimingRouter_proofs --------------------------
(***************************************************************************)
(* The timing driven router: that occupancies, which it counts branch by   *)
(* branch and takes back net by net, are what the nets use, that a design  *)
(* that it reports as routed is routed, that the slacks it chooses by are  *)
(* those of the delays it has found, and that these are Elmore delays.     *)
(*                                                                         *)
(* First what the operators of RouteTree do to a tree; then how uses are   *)
(* counted; then the invariant TDInv, the facts that its actions share and *)
(* one lemma per action.  The engine follows: its depth-first sort, the    *)
(* arrivals that it pushes and the required times that it pulls, longest   *)
(* paths and what they say of the slacks, the invariant EngInv and again   *)
(* one lemma per action, and the theorems about both.  Last the delays of  *)
(* the tree: sums, what ElmoreDelay computes for a tree whose loads and    *)
(* delays agree node by node, that UpdateRouteTree keeps them so, and the  *)
(* invariant DelayInv.                                                     *)
(***************************************************************************)
EXTENDS TimingRouter, Router_proofs

(* The device has resistances, capacitances and delays, all of them        *)
(* naturals.                                                               *)
Electric ==
    /\ \A x \in Node : rrg.res[x] \in Nat /\ rrg.cap[x] \in Nat
    /\ \A x \in Node : \A y \in rrg.switches[x] :
         /\ rrg.sw[<<x, y>>].buf \in BOOLEAN
         /\ rrg.sw[<<x, y>>].res \in Nat
         /\ rrg.sw[<<x, y>>].delay \in Nat

TreeNodes == [owner : Node, parent : Nat, cdown : Nat, rup : Nat, delay : Int, open : BOOLEAN]

(* T is a tree of the device: parents come first, and switches join them   *)
(* to their children.                                                      *)
Grows(T) ==
    /\ T \in Seq(TreeNodes)
    /\ \A i \in DOMAIN T :
         /\ T[i].parent \in 0..(i - 1)
         /\ T[i].parent # 0 => T[i].owner \in rrg.switches[T[T[i].parent].owner]

(* A list of nodes along switches. *)
Along(b) ==
    /\ b \in Seq(Node)
    /\ Len(b) >= 2
    /\ \A i \in 1..(Len(b) - 1) : b[i + 1] \in rrg.switches[b[i]]

(* What the nodes and switches of such a list weigh.                       *)
LEMMA AlongFits ==
  ASSUME Electric, NEW b, Along(b)
  PROVE  /\ Len(b) \in Nat /\ Len(b) >= 2
         /\ \A j \in 1..Len(b) : b[j] \in Node /\ rrg.cap[b[j]] \in Nat /\ rrg.res[b[j]] \in Nat
         /\ \A j \in 1..(Len(b) - 1) : /\ rrg.sw[<<b[j], b[j + 1]>>].buf \in BOOLEAN
                                       /\ rrg.sw[<<b[j], b[j + 1]>>].res \in Nat
                                       /\ rrg.sw[<<b[j], b[j + 1]>>].delay \in Nat
  <1>1. /\ Len(b) \in Nat /\ Len(b) >= 2
        /\ \A j \in 1..Len(b) : b[j] \in Node
    BY DEF Along
  <1>2. \A j \in 1..(Len(b) - 1) : j \in 1..Len(b) /\ b[j + 1] \in rrg.switches[b[j]]
    BY <1>1 DEF Along
  <1>3. QED
    BY <1>1, <1>2 DEF Electric

(* The loads of a branch, added up from its end.                           *)
AddUp(load, b) ==
    \A j \in 2..Len(b) :
       load[j] = IF j = Len(b) \/ rrg.sw[<<b[j], b[j + 1]>>].buf THEN rrg.cap[b[j]]
                                                                ELSE rrg.cap[b[j]] + load[j + 1]

(* They are numbers. *)
LEMMA LoadsNat ==
  ASSUME Electric, NEW b, Along(b)
  PROVE  /\ \A j \in 2..Len(b) : NewLoads(rrg, b)[j] \in Nat
         /\ AddUp(NewLoads(rrg, b), b)
  <1> DEFINE B       == Len(b)
             M       == B - 1
             V       == Nat
             cap(j)  == rrg.cap[b[j]]
             Def(h)  == h = [j \in 2..B |->
                               IF j = B \/ rrg.sw[<<b[j], b[j + 1]>>].buf THEN rrg.cap[b[j]]
                               ELSE rrg.cap[b[j]] + h[j + 1]]
             h       == CHOOSE g : Def(g)
             stop(j) == j = B \/ rrg.sw[<<b[j], b[j + 1]>>].buf
             up(i)   == B + 1 - i
             G       == [i \in 1..M |-> [f \in [1..M -> V] |->
                           IF stop(up(i)) THEN cap(up(i)) ELSE cap(up(i)) + f[i - 1]]]
  <1>1. NewLoads(rrg, b) = h
    BY DEF NewLoads
  <1>2. B \in Nat /\ B >= 2 /\ M \in Nat
    BY AlongFits
  <1>3. \A j \in 2..B : cap(j) \in Nat
    BY <1>2, AlongFits
  <1>4. \A i \in 1..M : up(i) \in 2..B /\ (i = 1 => up(i) = B) /\ (i # 1 => i - 1 \in 1..M)
    BY <1>2
  <1>5. stop(B)
    OBVIOUS
  <1> HIDE DEF stop, cap
  <1>6. G \in [1..M -> [[1..M -> V] -> V]]
    <2> SUFFICES ASSUME NEW i \in 1..M, NEW f \in [1..M -> Nat]
                 PROVE  (IF stop(up(i)) THEN cap(up(i)) ELSE cap(up(i)) + f[i - 1]) \in Nat
      OBVIOUS
    <2>1. cap(up(i)) \in Nat /\ (~stop(up(i)) => i - 1 \in 1..M)
      BY <1>3, <1>4, <1>5
    <2> HIDE DEF up
    <2>2. QED
      BY <2>1
  <1>7. ASSUME NEW i \in 1..M, NEW f \in [1..M -> Nat], NEW g \in [1..M -> Nat],
               \A j \in 1..(i - 1) : f[j] = g[j]
        PROVE  G[i][f] = G[i][g]
    <2>1. CASE stop(up(i))
      BY <2>1
    <2>2. CASE ~stop(up(i))
      <3>1. i - 1 \in 1..(i - 1)
        BY <1>4, <1>5, <2>2
      <3>2. QED
        BY <1>7, <3>1
    <2>3. QED
      BY <2>1, <2>2
  <1>8. PICK f : CourseOf(f, G, M, V)
    <2>1. LooksBack(G, M, V)
      BY <1>7 DEF LooksBack
    <2>2. 0 \in V
      OBVIOUS
    <2> HIDE DEF G, M, V, B
    <2>3. QED
      BY <1>2, <1>6, <2>1, <2>2, CourseOfValues
  <1> DEFINE g == [j \in 2..B |-> f[B + 1 - j]]
  <1>9. Def(g)
    <2>1. \A j \in 2..B : g[j] = IF stop(j) THEN cap(j) ELSE cap(j) + g[j + 1]
      <3> TAKE j \in 2..B
      <3>1. B + 1 - j \in 1..M /\ up(B + 1 - j) = j
        BY <1>2
      <3>2. f[B + 1 - j] = IF stop(j) THEN cap(j) ELSE cap(j) + f[(B + 1 - j) - 1]
        BY <1>8, <3>1 DEF CourseOf
      <3>3. ~stop(j) => j + 1 \in 2..B /\ g[j + 1] = f[(B + 1 - j) - 1]
        <4> SUFFICES ASSUME j # B
                     PROVE  j + 1 \in 2..B /\ g[j + 1] = f[(B + 1 - j) - 1]
          BY <1>5
        <4>1. j + 1 \in 2..B /\ B + 1 - (j + 1) = (B + 1 - j) - 1
          BY <1>2
        <4>2. QED
          BY <4>1
      <3>4. QED
        BY <3>2, <3>3
    <2>2. g = [j \in 2..B |-> g[j]]
      OBVIOUS
    <2> HIDE DEF g
    <2>3. g = [j \in 2..B |-> IF stop(j) THEN cap(j) ELSE cap(j) + g[j + 1]]
      BY <2>1, <2>2
    <2>4. QED
      BY <2>3 DEF stop, cap
  <1>10. Def(h)
    <2> HIDE DEF Def, g
    <2> QED
      BY <1>9
  <1>11. \A j \in 2..B : h[j] = IF stop(j) THEN cap(j) ELSE cap(j) + h[j + 1]
    <2> HIDE DEF h
    <2> QED
      BY <1>10 DEF stop, cap
  <1> HIDE DEF h
  <1> DEFINE T == {k \in 0..M : \A i \in 1..k : h[up(i)] \in Nat}
  <1>12. 0 \in T
    BY <1>2
  <1>13. ASSUME NEW k \in 1..M, k - 1 \in T
         PROVE  k \in T
    <2>1. h[up(k)] \in Nat
      <3>1. up(k) \in 2..B /\ cap(up(k)) \in Nat
        BY <1>3, <1>4
      <3>2. CASE stop(up(k))
        BY <1>11, <3>1, <3>2
      <3>3. CASE ~stop(up(k))
        <4>1. k # 1
          BY <1>4, <1>5, <3>3
        <4>2. k - 1 \in 1..(k - 1) /\ up(k - 1) = up(k) + 1
          BY <1>2, <4>1
        <4>3. h[up(k) + 1] \in Nat
          BY <1>13, <4>2
        <4> HIDE DEF up
        <4>4. QED
          BY <1>11, <3>1, <3>3, <4>3
      <3>4. QED
        BY <3>2, <3>3
    <2>2. \A i \in 1..k : i = k \/ i \in 1..(k - 1)
      OBVIOUS
    <2> HIDE DEF up
    <2>3. QED
      BY <1>13, <2>1, <2>2
  <1>14. M \in T
    <2> HIDE DEF T, M
    <2>1. 0..M \subseteq T
      BY <1>2, <1>12, <1>13, BoundedInduction
    <2>2. QED
      BY <1>2, <2>1
  <1>15. ASSUME NEW j \in 2..B
         PROVE  h[j] \in Nat
    <2>1. B + 1 - j \in 1..M /\ up(B + 1 - j) = j
      BY <1>2
    <2>2. QED
      BY <1>14, <2>1
  <1>16. AddUp(h, b)
    BY <1>11 DEF AddUp, stop, cap
  <1>17. QED
    BY <1>1, <1>15, <1>16

(* The resistances from a buffer or the source to the nodes of a branch.   *)
LEMMA UpstreamNat ==
  ASSUME Electric, NEW b, Along(b), NEW above \in Nat
  PROVE  \A j \in 2..Len(b) : NewUpstream(rrg, b, above)[j] \in Nat
  <1> DEFINE B       == Len(b)
             M       == B - 1
             V       == Nat
             s       == rrg.sw[<<b[1], b[2]>>]
             first   == s.res + rrg.res[b[2]] + (IF s.buf THEN 0 ELSE above)
             t(j)    == rrg.sw[<<b[j], b[j + 1]>>]
             run     == CHOOSE g : g = [j \in 1..(Len(b) - 1) |->
                                          IF j = 1 THEN first
                                          ELSE t(j).res + rrg.res[b[j]]
                                                 + (IF t(j).buf THEN 0 ELSE g[j - 1])]
             own(j)  == t(j).res + rrg.res[b[j]]
             buf(j)  == t(j).buf
             Def(h)  == h = [j \in 1..M |->
                               IF j = 1 THEN first
                               ELSE own(j) + (IF buf(j) THEN 0 ELSE h[j - 1])]
             G       == [i \in 1..M |-> [f \in [1..M -> V] |->
                           IF i = 1 THEN first
                           ELSE own(i) + (IF buf(i) THEN 0 ELSE f[i - 1])]]
  <1>1. NewUpstream(rrg, b, above) =
          [j \in 2..B |-> IF j < B THEN run[j] ELSE IF j = 2 THEN first ELSE 0]
    BY DEF NewUpstream
  <1>2. B \in Nat /\ B >= 2 /\ M \in Nat /\ 1 \in 1..M
    BY AlongFits
  <1>3. \A j \in 1..M : own(j) \in Nat /\ buf(j) \in BOOLEAN
    <2> TAKE j \in 1..M
    <2>1. j \in 1..B /\ j \in 1..(Len(b) - 1)
      BY <1>2
    <2>2. rrg.sw[<<b[j], b[j + 1]>>].res \in Nat /\ rrg.sw[<<b[j], b[j + 1]>>].buf \in BOOLEAN
          /\ rrg.res[b[j]] \in Nat
      BY <2>1, AlongFits
    <2>3. QED
      BY <2>2
  <1>4. first \in Nat
    <2>1. 1 \in 1..(Len(b) - 1) /\ 2 \in 1..Len(b)
      BY <1>2
    <2>2. rrg.sw[<<b[1], b[1 + 1]>>].res \in Nat /\ rrg.sw[<<b[1], b[1 + 1]>>].buf \in BOOLEAN
          /\ rrg.res[b[2]] \in Nat
      BY <2>1, AlongFits
    <2>3. s.res \in Nat /\ rrg.res[b[2]] \in Nat /\ s.buf \in BOOLEAN
      BY <2>2
    <2> HIDE DEF s
    <2>4. QED
      BY <2>3
  <1>5. run = CHOOSE g : Def(g)
    OBVIOUS
  <1> HIDE DEF run, first, own, buf
  <1>6. G \in [1..M -> [[1..M -> V] -> V]]
    <2> SUFFICES ASSUME NEW i \in 1..M, NEW f \in [1..M -> V]
                 PROVE  (IF i = 1 THEN first
                         ELSE own(i) + (IF buf(i) THEN 0 ELSE f[i - 1])) \in V
      OBVIOUS
    <2>1. i # 1 => i - 1 \in 1..M
      BY <1>2
    <2>2. QED
      BY <1>3, <1>4, <2>1
  <1>7. LooksBack(G, M, V)
    <2> SUFFICES ASSUME NEW i \in 1..M, NEW f \in [1..M -> V], NEW g \in [1..M -> V],
                        \A j \in 1..(i - 1) : f[j] = g[j]
                 PROVE  G[i][f] = G[i][g]
      BY DEF LooksBack
    <2>1. i # 1 => i - 1 \in 1..(i - 1)
      BY <1>2
    <2>2. QED
      BY <2>1
  <1>8. PICK f : CourseOf(f, G, M, V)
    <2>1. 0 \in V
      OBVIOUS
    <2> HIDE DEF G, M, V
    <2>2. QED
      BY <1>2, <1>6, <1>7, <2>1, CourseOfValues
  <1>9. Def(f)
    <2>1. f = [j \in 1..M |-> f[j]]
      BY <1>8 DEF CourseOf
    <2>2. \A j \in 1..M : f[j] = (IF j = 1 THEN first
                                  ELSE own(j) + (IF buf(j) THEN 0 ELSE f[j - 1]))
      BY <1>8 DEF CourseOf
    <2>3. QED
      BY <2>1, <2>2
  <1>10. Def(run)
    <2> HIDE DEF Def
    <2> QED
      BY <1>5, <1>9
  <1>11. \A j \in 1..M : run[j] = IF j = 1 THEN first
                                  ELSE own(j) + (IF buf(j) THEN 0 ELSE run[j - 1])
    BY <1>10
  <1> DEFINE T == {k \in 0..M : \A i \in 1..k : run[i] \in Nat}
  <1>12. 0 \in T
    BY <1>2
  <1>13. ASSUME NEW k \in 1..M, k - 1 \in T
         PROVE  k \in T
    <2>1. run[k] \in Nat
      <3>1. k # 1 => k - 1 \in 1..(k - 1)
        OBVIOUS
      <3>2. k # 1 => run[k - 1] \in Nat
        BY <1>13, <3>1
      <3>3. QED
        BY <1>3, <1>4, <1>11, <3>2
    <2>2. \A i \in 1..k : i = k \/ i \in 1..(k - 1)
      OBVIOUS
    <2>3. QED
      BY <1>13, <2>1, <2>2
  <1>14. M \in T
    <2> HIDE DEF T, M
    <2>1. 0..M \subseteq T
      BY <1>2, <1>12, <1>13, BoundedInduction
    <2>2. QED
      BY <1>2, <2>1
  <1>15. ASSUME NEW j \in 2..B
         PROVE  NewUpstream(rrg, b, above)[j] \in Nat
    <2>1. NewUpstream(rrg, b, above)[j] = IF j < B THEN run[j] ELSE IF j = 2 THEN first ELSE 0
      BY <1>1
    <2>2. j < B => j \in 1..M
      BY <1>2
    <2>3. QED
      BY <1>4, <1>14, <2>1, <2>2
  <1>16. QED
    BY <1>15

(* A node of the tree has one that was created last.                       *)
LEMMA LatestNode ==
  ASSUME NEW T \in Seq(TreeNodes), NEW x, \E i \in DOMAIN T : T[i].owner = x
  PROVE  TreeNodeOf(T, x) \in DOMAIN T /\ T[TreeNodeOf(T, x)].owner = x
  <1> DEFINE L == Len(T)
             I == {i \in 1..L : T[i].owner = x}
             J == {L - i : i \in I}
  <1>1. L \in Nat /\ DOMAIN T = 1..L
    OBVIOUS
  <1>2. J \subseteq Nat /\ J # {}
    BY <1>1
  <1>3. PICK j \in J : \A k \in J : j <= k
    BY <1>2, LeastNat
  <1>4. PICK i \in I : j = L - i
    OBVIOUS
  <1>5. \A k \in I : k <= i
    <2> TAKE k \in I
    <2>1. L - k \in J
      OBVIOUS
    <2>2. k \in 1..L /\ i \in 1..L
      BY <1>4
    <2> HIDE DEF J, I
    <2>3. L - i <= L - k
      BY <1>3, <1>4, <2>1
    <2> HIDE DEF L
    <2>4. QED
      BY <1>1, <2>2, <2>3
  <1>6. \E k \in DOMAIN T : T[k].owner = x /\ \A m \in DOMAIN T : T[m].owner = x => m <= k
    BY <1>1, <1>5
  <1>7. QED
    BY <1>6 DEF TreeNodeOf

(* A tree that has the nodes, the parents and the openings of T.           *)
SameShape(T, U) ==
    /\ U \in Seq(TreeNodes)
    /\ Len(U) = Len(T)
    /\ \A i \in 1..Len(T) :
         U[i].owner = T[i].owner /\ U[i].parent = T[i].parent /\ U[i].open = T[i].open

(* It has the nodes of the list p, and is left from these and from the     *)
(* start s, never from a sink.                                             *)
OpensOn(T, p, s) ==
    /\ \A i \in DOMAIN T :
         T[i].open => ~IsSink(T[i].owner) /\ T[i].owner \in {s} \cup ElemsOf(p)
    /\ \A x \in ElemsOf(p) : \E i \in DOMAIN T : T[i].owner = x

(* Its weights do not matter to a tree.                                    *)
LEMMA ShapeKept ==
  ASSUME NEW T, Grows(T), NEW U, SameShape(T, U)
  PROVE  Grows(U) /\ \A p, s : OpensOn(T, p, s) => OpensOn(U, p, s)
  <1>1. /\ T \in Seq(TreeNodes) /\ U \in Seq(TreeNodes) /\ Len(T) \in Nat
        /\ DOMAIN T = 1..Len(T) /\ DOMAIN U = 1..Len(T)
    BY DEF Grows, SameShape
  <1>2. \A i \in 1..Len(T) :
          U[i].owner = T[i].owner /\ U[i].parent = T[i].parent /\ U[i].open = T[i].open
    BY DEF SameShape
  <1>3. ASSUME NEW i \in 1..Len(T)
        PROVE  /\ U[i].parent \in 0..(i - 1)
               /\ U[i].parent # 0 => U[i].owner \in rrg.switches[U[U[i].parent].owner]
    <2>1. T[i].parent \in 0..(i - 1)
          /\ (T[i].parent # 0 => T[i].owner \in rrg.switches[T[T[i].parent].owner])
      BY <1>1 DEF Grows
    <2>2. T[i].parent # 0 => T[i].parent \in 1..Len(T)
      BY <1>1, <2>1
    <2>3. T[i].parent # 0 => U[T[i].parent].owner = T[T[i].parent].owner
      BY <1>2, <2>2
    <2>4. QED
      BY <1>2, <2>1, <2>3
  <1>4. Grows(U)
    BY <1>1, <1>3 DEF Grows
  <1>5. ASSUME NEW p, NEW s, OpensOn(T, p, s)
        PROVE  OpensOn(U, p, s)
    BY <1>1, <1>2, <1>5 DEF OpensOn
  <1>6. QED
    BY <1>4, <1>5

(* The nodes that hang branch b on tree T are the last of H.               *)
HungAs(T, b, H) ==
    \A k \in 1..(Len(b) - 1) :
       /\ H[Len(T) + k].owner = b[k + 1]
       /\ H[Len(T) + k].parent = IF k = 1 THEN TreeNodeOf(T, b[1]) ELSE Len(T) + k - 1
       /\ H[Len(T) + k].cdown = NewLoads(rrg, b)[k + 1]

(* The nodes that a branch adds to the tree.                               *)
LEMMA HungGrows ==
  ASSUME Electric, NEW T, Grows(T), NEW b, Along(b), \E i \in DOMAIN T : T[i].owner = b[1],
         NEW H, H = Hung(rrg, T, b)
  PROVE  /\ Grows(H)
         /\ Len(H) = Len(T) + (Len(b) - 1)
         /\ \A i \in 1..Len(T) : H[i] = T[i]
         /\ \A i \in 1..Len(H) :
              i \in 1..Len(T) \/ (/\ i - Len(T) \in 1..(Len(b) - 1)
                                  /\ H[i].owner = b[(i - Len(T)) + 1]
                                  /\ H[i].open => (i - Len(T)) + 1 # Len(b))
         /\ HungAs(T, b, H)
  <1> DEFINE L    == Len(T)
             B    == Len(b)
             M    == B - 1
             p    == TreeNodeOf(T, b[1])
             load == NewLoads(rrg, b)
             up   == NewUpstream(rrg, b, T[p].rup)
             node(k) == [owner  |-> b[k + 1],
                         parent |-> IF k = 1 THEN p ELSE L + k - 1,
                         cdown  |-> load[k + 1], rup |-> up[k + 1], delay |-> 0,
                         open   |-> k + 1 # B]
             W    == [k \in 1..M |-> node(k)]
  <1>1. T \in Seq(TreeNodes) /\ L \in Nat /\ DOMAIN T = 1..L
    BY DEF Grows
  <1>2. p \in 1..L /\ T[p].owner = b[1]
    BY <1>1, LatestNode
  <1>3. T[p].rup \in Nat
    <2>1. p \in DOMAIN T
      BY <1>1, <1>2
    <2> HIDE DEF p
    <2>2. T[p] \in TreeNodes
      BY <1>1, <2>1
    <2>3. QED
      BY <2>2 DEF TreeNodes
  <1>4. B \in Nat /\ B >= 2 /\ M \in Nat /\ \A j \in 1..B : b[j] \in Node
    BY AlongFits
  <1>5. \A j \in 2..B : load[j] \in Nat
    BY LoadsNat
  <1>6. \A j \in 2..B : up[j] \in Nat
    BY <1>3, UpstreamNat
  <1>7. H = T \o W
    BY DEF Hung
  <1> HIDE DEF p, load, up
  <1>8. \A k \in 1..M : node(k) \in TreeNodes
    <2> TAKE k \in 1..M
    <2>1. k + 1 \in 2..B /\ k + 1 \in 1..B /\ L + k - 1 \in Nat /\ p \in Nat
      BY <1>1, <1>2, <1>4
    <2>2. b[k + 1] \in Node /\ load[k + 1] \in Nat /\ up[k + 1] \in Nat
      BY <1>4, <1>5, <1>6, <2>1
    <2>3. (IF k = 1 THEN p ELSE L + k - 1) \in Nat /\ (k + 1 # B) \in BOOLEAN
      BY <2>1
    <2>4. QED
      BY <2>2, <2>3 DEF TreeNodes
  <1>9. W \in Seq(TreeNodes) /\ Len(W) = M
    <2> HIDE DEF node, M, B
    <2>1. W \in [1..M -> TreeNodes]
      BY <1>8
    <2>2. QED
      BY <1>4, <2>1
  <1> HIDE DEF W
  <1>10. /\ H \in Seq(TreeNodes) /\ Len(H) = L + M
         /\ \A i \in 1..L : H[i] = T[i]
         /\ \A k \in 1..M : H[L + k] = W[k]
    <2> HIDE DEF M
    <2>1. Len(W) = M /\ M \in Nat /\ Len(T) = L
      BY <1>4, <1>9
    <2> HIDE DEF L, Grows
    <2>2. H \in Seq(TreeNodes) /\ Len(H) = L + M
      BY <1>1, <1>7, <1>9, <2>1, ConcatProperties
    <2>3. \A i \in 1..(L + M) : H[i] = IF i <= L THEN T[i] ELSE W[i - L]
      BY <1>1, <1>7, <1>9, <2>1, ConcatProperties
    <2>4. \A i \in 1..L : i \in 1..(L + M) /\ i <= L
      BY <1>1, <2>1
    <2>5. \A k \in 1..M : L + k \in 1..(L + M) /\ ~(L + k <= L) /\ (L + k) - L = k
      BY <1>1, <2>1
    <2>6. QED
      BY <2>2, <2>3, <2>4, <2>5
  <1>11. \A k \in 1..M : /\ H[L + k].owner = b[k + 1]
                         /\ H[L + k].parent = IF k = 1 THEN p ELSE L + k - 1
                         /\ H[L + k].cdown = load[k + 1]
                         /\ H[L + k].open => k + 1 # B
    <2> TAKE k \in 1..M
    <2> HIDE DEF node, M, L
    <2>1. H[L + k] = node(k)
      BY <1>10 DEF W
    <2>2. /\ node(k).owner = b[k + 1]
          /\ node(k).parent = IF k = 1 THEN p ELSE L + k - 1
          /\ node(k).cdown = load[k + 1]
          /\ node(k).open = (k + 1 # B)
      BY DEF node
    <2>3. QED
      BY <2>1, <2>2
  <1>12. \A i \in 1..(L + M) : i \in 1..L \/ (i - L \in 1..M /\ L + (i - L) = i)
    BY <1>1, <1>4
  <1> HIDE DEF node
  <1>13. ASSUME NEW i \in 1..(L + M)
         PROVE  /\ H[i].parent \in 0..(i - 1)
                /\ H[i].parent # 0 => H[i].owner \in rrg.switches[H[H[i].parent].owner]
    <2>1. CASE i \in 1..L
      <3>1. T[i].parent \in 0..(i - 1)
            /\ (T[i].parent # 0 => T[i].owner \in rrg.switches[T[T[i].parent].owner])
        BY <1>1, <2>1 DEF Grows
      <3>2. T[i].parent # 0 => T[i].parent \in 1..L
        BY <1>1, <2>1, <3>1
      <3>3. H[i] = T[i] /\ (T[i].parent # 0 => H[T[i].parent] = T[T[i].parent])
        BY <1>10, <2>1, <3>2
      <3>4. QED
        BY <3>1, <3>3
    <2>2. CASE i \notin 1..L
      <3> DEFINE k == i - L
      <3>1. k \in 1..M /\ L + k = i
        BY <1>12, <2>2
      <3>2. H[i].owner = b[k + 1] /\ H[i].parent = IF k = 1 THEN p ELSE L + k - 1
        BY <1>11, <3>1
      <3>3. b[k + 1] \in rrg.switches[b[k]]
        BY <3>1 DEF Along
      <3>4. CASE k = 1
        <4>1. H[i].parent = p /\ H[p].owner = b[1]
          BY <1>2, <1>10, <3>2, <3>4
        <4>2. p \in 0..(i - 1)
          BY <1>1, <1>2, <3>1
        <4>3. QED
          BY <3>2, <3>3, <3>4, <4>1, <4>2
      <3>5. CASE k # 1
        <4>1. k - 1 \in 1..M /\ (k - 1) + 1 = k /\ L + (k - 1) = L + k - 1 /\ L + k - 1 \in 0..(i - 1)
          BY <1>1, <1>4, <3>1, <3>5
        <4>2. H[L + (k - 1)].owner = b[(k - 1) + 1]
          BY <1>11, <4>1
        <4> HIDE DEF k
        <4>3. H[i].parent = L + k - 1 /\ H[L + k - 1].owner = b[k]
          BY <3>2, <3>5, <4>1, <4>2
        <4>4. QED
          BY <3>2, <3>3, <4>1, <4>3
      <3>6. QED
        BY <3>4, <3>5
    <2>3. QED
      BY <2>1, <2>2
  <1>14. Grows(H)
    <2>1. DOMAIN H = 1..(L + M)
      BY <1>10
    <2>2. QED
      BY <1>10, <1>13, <2>1 DEF Grows
  <1>15. ASSUME NEW i \in 1..(L + M), i \notin 1..L
         PROVE  /\ i - L \in 1..M /\ H[i].owner = b[(i - L) + 1]
                /\ H[i].open => (i - L) + 1 # B
    BY <1>11, <1>12, <1>15
  <1>16. HungAs(T, b, H)
    BY <1>11 DEF HungAs, load, p
  <1>17. QED
    BY <1>10, <1>14, <1>15, <1>16

(* Node k is node n, but for what hangs below it. *)
Reweighed(k, n) ==
    k \in TreeNodes /\ k.owner = n.owner /\ k.parent = n.parent /\ k.open = n.open

(* So is a node with the load of another one added to its own.             *)
LEMMA LoadReweighs ==
  ASSUME NEW n \in TreeNodes, NEW m \in TreeNodes, NEW k,
         k = [n EXCEPT !.cdown = @ + m.cdown] \/ k = n
  PROVE  Reweighed(k, n)
  <1>1. m.cdown \in Nat /\ n.cdown + m.cdown \in Nat
    BY DEF TreeNodes
  <1>2. QED
    BY <1>1 DEF Reweighed, TreeNodes

(* A branch loads the chain above it.                                      *)
LEMMA LoadsKeepShape ==
  ASSUME NEW H, Grows(H), NEW start \in 1..Len(H), NEW chain, NEW L,
         L = [i \in DOMAIN H |->
                IF i \in chain \ {start} THEN [H[i] EXCEPT !.cdown = @ + H[start].cdown] ELSE H[i]]
  PROVE  SameShape(H, L)
  <1>1. H \in Seq(TreeNodes) /\ DOMAIN H = 1..Len(H) /\ Len(H) \in Nat
    BY DEF Grows
  <1>2. \A i \in 1..Len(H) : H[i] \in TreeNodes
    BY <1>1
  <1>3. \A i \in 1..Len(H) :
          L[i] = IF i \in chain \ {start} THEN [H[i] EXCEPT !.cdown = @ + H[start].cdown] ELSE H[i]
    BY <1>1
  <1>4. \A i \in 1..Len(H) : Reweighed(L[i], H[i])
    BY <1>2, <1>3, LoadReweighs
  <1>5. L \in [1..Len(H) -> TreeNodes]
    BY <1>1, <1>4 DEF Reweighed
  <1>6. L \in Seq(TreeNodes) /\ Len(L) = Len(H)
    BY <1>1, <1>5
  <1>7. QED
    BY <1>4, <1>6 DEF SameShape, Reweighed

(* The nodes below node u. *)
Below(T, u) == CHOOSE g : g = [i \in DOMAIN T |-> i = u \/ (i > u /\ g[T[i].parent])]

(* U has the loads of T, and new delays for the nodes in bl.               *)
Redelayed(T, U, bl) ==
    \A i \in 1..Len(T) :
       /\ U[i].cdown = T[i].cdown
       /\ U[i].delay = IF ~bl[i] THEN T[i].delay
                       ELSE IF T[i].parent = 0 THEN HalfRC(rrg, T[i])
                       ELSE U[T[i].parent].delay
                              + (SwitchTo(rrg, T, i).res * T[i].cdown + SwitchTo(rrg, T, i).delay)
                              + HalfRC(rrg, T[i])

(* The delays of a subtree are numbers, and all that changes.              *)
LEMMA DelaysKeepShape ==
  ASSUME Electric, NEW T, Grows(T), NEW u
  PROVE  /\ SameShape(T, WithDelays(rrg, T, u))
         /\ Redelayed(T, WithDelays(rrg, T, u), Below(T, u))
  <1> DEFINE L        == Len(T)
             V        == Int
             up(i)    == T[i].parent
             above(i) == SwitchTo(rrg, T, i).res * T[i].cdown + SwitchTo(rrg, T, i).delay
             half(i)  == HalfRC(rrg, T[i])
             old(i)   == T[i].delay
             below    == Below(T, u)
             out(i)   == ~below[i]
             Def(h)   == h = [i \in DOMAIN T |->
                                IF out(i) THEN old(i)
                                ELSE IF up(i) = 0 THEN half(i)
                                ELSE h[up(i)] + above(i) + half(i)]
             h        == CHOOSE g : Def(g)
             G        == [i \in 1..L |-> [f \in [1..L -> V] |->
                            IF out(i) THEN old(i)
                            ELSE IF up(i) = 0 THEN half(i)
                            ELSE f[up(i)] + above(i) + half(i)]]
             U        == WithDelays(rrg, T, u)
  <1>1. T \in Seq(TreeNodes) /\ DOMAIN T = 1..L /\ L \in Nat
    BY DEF Grows
  <1>2. U = [i \in DOMAIN T |-> [T[i] EXCEPT !.delay = h[i]]]
    BY DEF WithDelays, Below
  <1>3. ASSUME NEW i \in 1..L
        PROVE  /\ T[i] \in TreeNodes
               /\ old(i) \in Int /\ half(i) \in Int
               /\ up(i) \in Nat
               /\ up(i) # 0 => up(i) \in 1..L /\ up(i) \in 1..(i - 1) /\ above(i) \in Int
    <2>1. T[i] \in TreeNodes
      BY <1>1
    <2>2. /\ T[i].owner \in Node /\ T[i].cdown \in Nat /\ T[i].delay \in Int
      BY <2>1 DEF TreeNodes
    <2>3. rrg.res[T[i].owner] \in Nat
      BY <2>2 DEF Electric
    <2>4. T[i].cdown * rrg.res[T[i].owner] \in Nat
      BY <2>2, <2>3, ProductNat
    <2>5. half(i) \in Int
      <3> DEFINE q == T[i].cdown * rrg.res[T[i].owner]
      <3> HIDE DEF q
      <3>1. q \in Nat => q \div 2 \in Int
        OBVIOUS
      <3>2. QED
        BY <2>4, <3>1 DEF HalfRC, q
    <2>6. /\ T[i].parent \in 0..(i - 1)
          /\ T[i].parent # 0 => T[i].owner \in rrg.switches[T[T[i].parent].owner]
      BY <1>1 DEF Grows
    <2>7. up(i) # 0 => up(i) \in 1..L /\ up(i) \in 1..(i - 1)
      BY <1>1, <2>6
    <2>8. ASSUME up(i) # 0
          PROVE  above(i) \in Int
      <3> DEFINE x == T[T[i].parent].owner
                 y == T[i].owner
                 s == rrg.sw[<<x, y>>]
      <3>1. T[T[i].parent] \in TreeNodes
        BY <1>1, <2>7, <2>8
      <3>2. x \in Node /\ y \in rrg.switches[x]
        BY <2>6, <2>8, <3>1 DEF TreeNodes
      <3> HIDE DEF x, y
      <3>3. s.res \in Nat /\ s.delay \in Nat
        BY <3>2 DEF Electric
      <3>4. SwitchTo(rrg, T, i) = s
        BY DEF SwitchTo, x, y
      <3> HIDE DEF s
      <3>5. s.res * T[i].cdown \in Nat
        BY <2>2, <3>3, ProductNat
      <3>6. QED
        BY <3>3, <3>4, <3>5
    <2>9. QED
      BY <2>1, <2>2, <2>5, <2>6, <2>7, <2>8
  <1> HIDE DEF up, above, half, old, out, below
  <1>4. G \in [1..L -> [[1..L -> V] -> V]]
    <2> SUFFICES ASSUME NEW i \in 1..L, NEW f \in [1..L -> Int]
                 PROVE  (IF out(i) THEN old(i)
                         ELSE IF up(i) = 0 THEN half(i)
                         ELSE f[up(i)] + above(i) + half(i)) \in Int
      OBVIOUS
    <2>1. up(i) # 0 => f[up(i)] \in Int
      BY <1>3
    <2>2. QED
      BY <1>3, <2>1
  <1>5. LooksBack(G, L, V)
    <2> SUFFICES ASSUME NEW i \in 1..L, NEW f \in [1..L -> V], NEW g \in [1..L -> V],
                        \A j \in 1..(i - 1) : f[j] = g[j]
                 PROVE  G[i][f] = G[i][g]
      BY DEF LooksBack
    <2>1. up(i) # 0 => f[up(i)] = g[up(i)]
      BY <1>3
    <2>2. QED
      BY <2>1
  <1>6. PICK f : CourseOf(f, G, L, V)
    <2>1. 0 \in V
      OBVIOUS
    <2> HIDE DEF G, L, V
    <2>2. QED
      BY <1>1, <1>4, <1>5, <2>1, CourseOfValues
  <1>7. Def(f)
    <2>1. f = [i \in 1..L |-> f[i]]
      BY <1>6 DEF CourseOf
    <2>2. \A i \in 1..L : f[i] = (IF out(i) THEN old(i)
                                  ELSE IF up(i) = 0 THEN half(i)
                                  ELSE f[up(i)] + above(i) + half(i))
      BY <1>6 DEF CourseOf
    <2>3. QED
      BY <1>1, <2>1, <2>2
  <1>8. Def(h)
    <2> HIDE DEF Def
    <2> QED
      BY <1>7
  <1> HIDE DEF h
  <1>9. \A i \in 1..L : h[i] = IF out(i) THEN old(i)
                               ELSE IF up(i) = 0 THEN half(i)
                               ELSE h[up(i)] + above(i) + half(i)
    BY <1>1, <1>8
  <1> DEFINE S == {k \in 0..L : \A i \in 1..k : h[i] \in Int}
  <1>10. 0 \in S
    BY <1>1
  <1>11. ASSUME NEW k \in 1..L, k - 1 \in S
         PROVE  k \in S
    <2>1. up(k) # 0 => h[up(k)] \in Int
      BY <1>3, <1>11
    <2>2. h[k] \in Int
      BY <1>3, <1>9, <2>1
    <2>3. \A i \in 1..k : i = k \/ i \in 1..(k - 1)
      OBVIOUS
    <2>4. QED
      BY <1>11, <2>2, <2>3
  <1>12. L \in S
    <2> HIDE DEF S, L
    <2>1. 0..L \subseteq S
      BY <1>1, <1>10, <1>11, BoundedInduction
    <2>2. QED
      BY <1>1, <2>1
  <1>13. ASSUME NEW i \in 1..L
         PROVE  /\ U[i] \in TreeNodes
                /\ U[i].owner = T[i].owner /\ U[i].parent = T[i].parent /\ U[i].open = T[i].open
                /\ U[i].cdown = T[i].cdown /\ U[i].delay = h[i]
    <2> DEFINE n == T[i]
               d == h[i]
    <2>1. n \in TreeNodes /\ d \in Int /\ U[i] = [n EXCEPT !.delay = d]
      BY <1>1, <1>2, <1>3, <1>12
    <2> HIDE DEF n, d, U
    <2>2. /\ [n EXCEPT !.delay = d] \in TreeNodes
          /\ [n EXCEPT !.delay = d].owner = n.owner
          /\ [n EXCEPT !.delay = d].parent = n.parent
          /\ [n EXCEPT !.delay = d].open = n.open
          /\ [n EXCEPT !.delay = d].cdown = n.cdown
          /\ [n EXCEPT !.delay = d].delay = d
      BY <2>1 DEF TreeNodes
    <2>3. QED
      BY <2>1, <2>2 DEF n, d
  <1>14. DOMAIN U = 1..L
    BY <1>1, <1>2
  <1>15. U = [i \in 1..L |-> U[i]]
    BY <1>1, <1>2
  <1> HIDE DEF U
  <1>16. U \in [1..L -> TreeNodes]
    BY <1>13, <1>15
  <1>17. U \in Seq(TreeNodes) /\ Len(U) = L
    BY <1>1, <1>16
  <1>18. Redelayed(T, U, below)
    <2>1. \A i \in 1..L : up(i) # 0 => U[up(i)].delay = h[up(i)]
      BY <1>3, <1>13
    <2>2. \A i \in 1..L : U[i].cdown = T[i].cdown /\ U[i].delay = h[i]
      BY <1>13
    <2>3. QED
      BY <1>9, <2>1, <2>2 DEF Redelayed, up, above, half, old, out
  <1>19. SameShape(T, U)
    BY <1>13, <1>17 DEF SameShape
  <1>20. QED
    BY <1>18, <1>19 DEF U, below

(* A branch that the tree is given keeps it a tree, and is left from its   *)
(* nodes but the last.                                                     *)
LEMMA UpdateGrows ==
  ASSUME Electric, NEW T, Grows(T), NEW b, Along(b), \E i \in DOMAIN T : T[i].owner = b[1],
         NEW p \in Seq(Node), NEW s, OpensOn(T, p, s),
         \A i \in 1..(Len(b) - 1) : ~IsSink(b[i])
  PROVE  /\ Grows(UpdateRouteTree(rrg, T, b))
         /\ OpensOn(UpdateRouteTree(rrg, T, b), p \o b, s)
  <1> DEFINE H     == Hung(rrg, T, b)
             start == Len(T) + 1
             chain == UnbufferedChain(rrg, H, start)
             L     == [i \in DOMAIN H |->
                         IF i \in chain \ {start}
                           THEN [H[i] EXCEPT !.cdown = @ + H[start].cdown] ELSE H[i]]
             u     == CHOOSE i \in chain : \A j \in chain : i <= j
  <1>1. UpdateRouteTree(rrg, T, b) = WithDelays(rrg, L, u)
    BY DEF UpdateRouteTree
  <1>2. Len(T) \in Nat /\ DOMAIN T = 1..Len(T)
    BY DEF Grows
  <1>3. Len(b) \in Nat /\ Len(b) >= 2
    BY DEF Along
  <1> HIDE DEF H, u, chain
  <1>4. /\ Grows(H)
        /\ Len(H) = Len(T) + (Len(b) - 1)
        /\ \A i \in 1..Len(T) : H[i] = T[i]
        /\ \A i \in 1..Len(H) :
             i \in 1..Len(T) \/ (/\ i - Len(T) \in 1..(Len(b) - 1)
                                 /\ H[i].owner = b[(i - Len(T)) + 1]
                                 /\ H[i].open => (i - Len(T)) + 1 # Len(b))
    <2>1. H = Hung(rrg, T, b)
      BY DEF H
    <2>2. QED
      BY <2>1, HungGrows
  <1>5. ElemsOf(p \o b) = ElemsOf(p) \cup ElemsOf(b)
    BY ElemsAppended DEF Along
  <1>6. OpensOn(H, p \o b, s)
    <2>1. DOMAIN H = 1..Len(H)
      BY <1>4 DEF Grows
    <2>0. \A x \in ElemsOf(p \o b) : \E i \in DOMAIN H : H[i].owner = x
      <3>1. \A i \in 1..Len(T) : i \in 1..Len(H)
        BY <1>2, <1>3, <1>4
      <3>2. \A x \in ElemsOf(p) : \E i \in 1..Len(H) : H[i].owner = x
        BY <1>2, <1>4, <3>1 DEF OpensOn
      <3>3. ASSUME NEW k \in 1..Len(b)
            PROVE  \E i \in 1..Len(H) : H[i].owner = b[k]
        <4>1. CASE k = 1
          BY <1>2, <1>4, <3>1, <4>1
        <4>2. CASE k # 1
          <5> DEFINE i == Len(T) + (k - 1)
          <5>1. i \in 1..Len(H) /\ i \notin 1..Len(T) /\ (i - Len(T)) + 1 = k
            BY <1>2, <1>3, <1>4, <4>2
          <5> HIDE DEF i
          <5>2. QED
            BY <1>4, <5>1
        <4>3. QED
          BY <4>1, <4>2
      <3>4. \A x \in ElemsOf(b) : \E k \in 1..Len(b) : x = b[k]
        BY DEF ElemsOf, Along
      <3>5. \A x \in ElemsOf(b) : \E i \in 1..Len(H) : H[i].owner = x
        BY <3>3, <3>4
      <3>6. \A x \in ElemsOf(p) \cup ElemsOf(b) : \E i \in 1..Len(H) : H[i].owner = x
        BY <3>2, <3>5
      <3>7. QED
        BY <1>5, <2>1, <3>6
    <2> SUFFICES ASSUME NEW i \in 1..Len(H), H[i].open
                 PROVE  ~IsSink(H[i].owner) /\ H[i].owner \in {s} \cup ElemsOf(p \o b)
      BY <2>0, <2>1 DEF OpensOn
    <2>2. CASE i \in 1..Len(T)
      BY <1>2, <1>4, <1>5, <2>2 DEF OpensOn
    <2>3. CASE i \notin 1..Len(T)
      <3> DEFINE k == (i - Len(T)) + 1
      <3>1. i - Len(T) \in 1..(Len(b) - 1) /\ H[i].owner = b[k] /\ k # Len(b)
        BY <1>4, <2>3
      <3>2. k \in 1..(Len(b) - 1) /\ k \in 1..Len(b)
        BY <1>3, <3>1
      <3>3. b[k] \in ElemsOf(b)
        BY <3>2 DEF ElemsOf, Along
      <3> HIDE DEF k
      <3>4. QED
        BY <1>5, <3>1, <3>2, <3>3
    <2>4. QED
      BY <2>2, <2>3
  <1>7. SameShape(H, L)
    <2>1. start \in 1..Len(H)
      BY <1>2, <1>3, <1>4
    <2> HIDE DEF start
    <2>2. QED
      BY <1>4, <2>1, LoadsKeepShape
  <1> HIDE DEF L
  <1>8. Grows(L) /\ OpensOn(L, p \o b, s)
    BY <1>4, <1>6, <1>7, ShapeKept
  <1>9. SameShape(L, WithDelays(rrg, L, u))
    BY <1>8, DelaysKeepShape, Zenon
  <1>10. Grows(WithDelays(rrg, L, u)) /\ OpensOn(WithDelays(rrg, L, u), p \o b, s)
    BY <1>8, <1>9, ShapeKept
  <1>11. QED
    BY <1>1, <1>10
-----------------------------------------------------------------------------
(* The places of list p at which node x is new.                            *)
PlacesIn(p, x) == {j \in Fresh(p) : p[j] = x}

(* The places at which the nets take up node x, given all their lists.     *)
UsesOf(P, x) == {u \in Net \X Nat : u[2] \in PlacesIn(P[u[1]], x)}

(* There are finitely many places in a list.                               *)
LEMMA PlacesFinite ==
  ASSUME NEW p \in Seq(Node), NEW x
  PROVE  IsFiniteSet(PlacesIn(p, x)) /\ Cardinality(PlacesIn(p, x)) \in Nat
  <1>1. Len(p) \in Nat
    OBVIOUS
  <1>2. PlacesIn(p, x) \in SUBSET (1..Len(p)) /\ IsFiniteSet(1..Len(p))
    BY <1>1, FS_Interval DEF PlacesIn, Fresh
  <1>3. QED
    BY <1>2, FS_Subset, FS_CardinalityType

(* The union of the sets f[i]. *)
UnionOf(f, S) == UNION {f[i] : i \in S}

(* A finite union of finite sets is finite.                                *)
LEMMA FamilyFinite ==
  ASSUME NEW S, IsFiniteSet(S), NEW f, \A i \in S : IsFiniteSet(f[i])
  PROVE  IsFiniteSet(UnionOf(f, S))
  <1> DEFINE T == {f[i] : i \in S}
             g == [i \in S |-> f[i]]
  <1>1. g \in [S -> T] /\ \A t \in T : \E i \in S : g[i] = t
    OBVIOUS
  <1>2. \A t \in T : IsFiniteSet(t)
    OBVIOUS
  <1> HIDE DEF T, g
  <1>3. IsFiniteSet(T)
    BY <1>1, ValuesFinite
  <1>4. IsFiniteSet(UNION T)
    BY <1>2, <1>3, FS_UNION
  <1>5. QED
    BY <1>4 DEF T, UnionOf

(* The uses of a node are those by one net and those by the others.        *)
LEMMA UsesSplit ==
  ASSUME NEW P \in [Net -> Seq(Node)], NEW n \in Net, NEW x, NEW O,
         O = {u \in UsesOf(P, x) : u[1] # n}
  PROVE  /\ IsFiniteSet(O) /\ Cardinality(O) \in Nat
         /\ IsFiniteSet(UsesOf(P, x))
         /\ Cardinality(UsesOf(P, x)) = Cardinality(O) + Cardinality(PlacesIn(P[n], x))
  <1> DEFINE F(m) == {u \in UsesOf(P, x) : u[1] = m}
             I(m) == PlacesIn(P[m], x)
             f    == [m \in Net |-> F(m)]
             V    == UsesOf(P, x)
  <1>1. ASSUME NEW m \in Net
        PROVE  /\ IsFiniteSet(I(m)) /\ Cardinality(I(m)) \in Nat
               /\ IsFiniteSet(F(m)) /\ Cardinality(F(m)) = Cardinality(I(m))
    <2>1. IsFiniteSet(I(m)) /\ Cardinality(I(m)) \in Nat
      BY PlacesFinite
    <2> DEFINE g == [j \in I(m) |-> <<m, j>>]
    <2>2. I(m) \subseteq Nat
      <3>1. P[m] \in Seq(Node) /\ Len(P[m]) \in Nat
        OBVIOUS
      <3>2. QED
        BY <3>1 DEF PlacesIn, Fresh
    <2>3. /\ g \in [I(m) -> F(m)]
          /\ \A i, j \in I(m) : g[i] = g[j] => i = j
          /\ \A t \in F(m) : \E i \in I(m) : g[i] = t
      <3>1. F(m) = {<<m, j>> : j \in I(m)}
        BY <2>2 DEF UsesOf
      <3> HIDE DEF I, F
      <3>2. \A t \in F(m) : \E i \in I(m) : g[i] = t
        BY <3>1
      <3>3. \A i \in I(m) : g[i] = <<m, i>> /\ g[i] \in F(m)
        BY <3>1
      <3>4. g \in [I(m) -> F(m)]
        BY <3>3
      <3>5. \A i, j \in I(m) : g[i] = g[j] => i = j
        <4>1. \A i, j : <<m, i>> = <<m, j>> => i = j
          OBVIOUS
        <4> HIDE DEF g
        <4>2. QED
          BY <3>3, <4>1
      <3> HIDE DEF g
      <3>6. QED
        BY <3>2, <3>4, <3>5
    <2> HIDE DEF I, F, g
    <2>4. ASSUME NEW S, S = I(m), NEW T, T = F(m), NEW h, h = g
          PROVE  IsFiniteSet(T) /\ Cardinality(T) = Cardinality(S)
      <3>1. IsFiniteSet(S) /\ h \in [S -> T]
        BY <2>1, <2>3, <2>4
      <3>2. (\A i, j \in S : h[i] = h[j] => i = j) /\ (\A t \in T : \E i \in S : h[i] = t)
        BY <2>3, <2>4
      <3>3. QED
        BY <3>1, <3>2, CountedBy
    <2>5. QED
      BY <2>1, <2>4
  <1>2. V = UnionOf(f, Net)
    BY DEF UsesOf, UnionOf
  <1>3. IsFiniteSet(V)
    <2>1. \A m \in Net : IsFiniteSet(f[m])
      <3> HIDE DEF F, V, I
      <3> QED
        BY <1>1
    <2> HIDE DEF f, V
    <2>2. IsFiniteSet(Net)
      BY NetlistAssumption
    <2>3. IsFiniteSet(UnionOf(f, Net))
      BY <2>1, <2>2, FamilyFinite
    <2>4. QED
      BY <1>2, <2>3
  <1>4. O \in SUBSET V /\ F(n) \in SUBSET V /\ V = O \cup F(n) /\ O \cap F(n) = {}
    OBVIOUS
  <1> HIDE DEF V, F
  <1>5. IsFiniteSet(O) /\ Cardinality(O) \in Nat
    BY <1>3, <1>4, FS_Subset, FS_CardinalityType
  <1>6. Cardinality(V) = Cardinality(O) + Cardinality(F(n))
    <2>1. IsFiniteSet(F(n)) /\ Cardinality(F(n)) \in Nat
      BY <1>1
    <2>2. Cardinality(O \cup F(n))
            = Cardinality(O) + Cardinality(F(n)) - Cardinality(O \cap F(n))
      BY <1>5, <2>1, FS_Union
    <2>3. Cardinality(O \cap F(n)) = 0
      BY <1>4, FS_EmptySet
    <2>4. QED
      BY <1>4, <1>5, <2>1, <2>2, <2>3
  <1>7. QED
    BY <1>1, <1>3, <1>5, <1>6 DEF V

(* When the list of one net changes, so do its uses.                       *)
LEMMA UsesMove ==
  ASSUME NEW P \in [Net -> Seq(Node)], NEW Q \in [Net -> Seq(Node)], NEW n \in Net,
         \A m \in Net : m # n => Q[m] = P[m], NEW x
  PROVE  Cardinality(UsesOf(Q, x)) =
           Cardinality(UsesOf(P, x)) - Cardinality(PlacesIn(P[n], x))
                                     + Cardinality(PlacesIn(Q[n], x))
  <1> DEFINE O == {u \in UsesOf(P, x) : u[1] # n}
  <1>1. O = {u \in UsesOf(Q, x) : u[1] # n}
    BY DEF UsesOf
  <1> HIDE DEF O
  <1>2. /\ Cardinality(O) \in Nat
        /\ Cardinality(UsesOf(P, x)) = Cardinality(O) + Cardinality(PlacesIn(P[n], x))
    BY UsesSplit DEF O
  <1>3. Cardinality(UsesOf(Q, x)) = Cardinality(O) + Cardinality(PlacesIn(Q[n], x))
    BY <1>1, UsesSplit
  <1>4. Cardinality(PlacesIn(P[n], x)) \in Nat /\ Cardinality(PlacesIn(Q[n], x)) \in Nat
    BY PlacesFinite
  <1>5. QED
    BY <1>2, <1>3, <1>4

(* Where no sink comes before the end, a traversal visits everything.      *)
LEMMA AllVisited ==
  ASSUME NEW q, Len(q) \in Nat, NEW i \in Nat, \A j \in i..(Len(q) - 1) : ~IsSink(q[j])
  PROVE  Visited(q, i) = i..Len(q)
  <1> DEFINE L      == Len(q)
             Def(h) == h = [j \in i..L |-> IF j = i THEN TRUE ELSE ~h[j - 1] \/ ~IsSink(q[j - 1])]
             h      == CHOOSE g : Def(g)
             g      == [j \in i..L |-> TRUE]
  <1>1. Visited(q, i) = {j \in i..L : h[j]}
    BY DEF Visited
  <1>2. \A j \in i..L : j # i => ~IsSink(q[j - 1])
    <2> SUFFICES ASSUME NEW j \in i..L, j # i
                 PROVE  ~IsSink(q[j - 1])
      OBVIOUS
    <2>1. j - 1 \in i..(L - 1)
      OBVIOUS
    <2>2. QED
      BY <2>1
  <1>3. Def(g)
    BY <1>2
  <1>4. Def(h)
    <2> HIDE DEF Def, g
    <2> QED
      BY <1>3
  <1> HIDE DEF h
  <1>5. \A j \in i..L : h[j]
    BY <1>2, <1>4
  <1>6. QED
    BY <1>1, <1>5

(* VisitCounts counts the places of a list.                                *)
LEMMA PlacesVisited ==
  ASSUME NEW p, NEW s, p = <<>> \/ IsWalk(p, s), NEW x \in Node
  PROVE  VisitCounts(p)[x] = Cardinality(PlacesIn(p, x))
  <1>1. VisitCounts(p)[x] = Cardinality({j \in Visited(p, 1) : p[j] = x})
    BY DEF VisitCounts
  <1>2. CASE IsWalk(p, s)
    BY <1>1, <1>2, VisitedIsFresh DEF PlacesIn
  <1>3. CASE p = <<>>
    <2>1. Len(p) = 0 /\ 1..0 = {}
      BY <1>3
    <2>2. Visited(p, 1) \subseteq 1..Len(p) /\ Fresh(p) \subseteq 1..Len(p)
      BY DEF Visited, Fresh
    <2>3. Visited(p, 1) = {} /\ Fresh(p) = {}
      BY <2>1, <2>2
    <2>4. {j \in Visited(p, 1) : p[j] = x} = PlacesIn(p, x)
      BY <2>3 DEF PlacesIn
    <2>5. QED
      BY <1>1, <2>4
  <1>4. QED
    BY <1>2, <1>3

(* How often a list takes up x from position f on. *)
GainOf(q, f, x) == Cardinality({j \in Visited(q, f) : q[j] = x})

(* A branch adds the places that update_trace_back counts.                 *)
LEMMA PlacesAppended ==
  ASSUME NEW s \in Node, NEW p, p = <<>> \/ IsWalk(p, s), NEW b, Leaves(p, b, s), NEW x
  PROVE  /\ GainOf(p \o b, BranchStart(Len(p)), x) \in Nat
         /\ Cardinality(PlacesIn(p \o b, x)) = Cardinality(PlacesIn(p, x))
                                                 + GainOf(p \o b, BranchStart(Len(p)), x)
  <1> DEFINE q == p \o b
             P == Len(p)
             B == Len(b)
             F == BranchStart(P)
             V == {j \in Visited(q, F) : q[j] = x}
  <1>1. /\ p \in Seq(Node) /\ q \in Seq(Node) /\ P \in Nat /\ B \in Nat /\ B >= 2
        /\ Len(q) = P + B
        /\ \A i \in 1..P : q[i] = p[i]
        /\ \A i \in 1..B : q[P + i] = b[i]
    BY AppendedAt DEF NonEmpty
  <1>2. F = IF P = 0 THEN 1 ELSE P + 2
    BY DEF BranchStart
  <1>3. F \in Nat /\ F > P /\ F >= 1
    BY <1>1, <1>2
  <1>4. \A i : i \in Fresh(q) <=> i \in Fresh(p) \/ i \in F..(P + B)
    BY FreshAppended
  <1> HIDE DEF q, F
  <1>5. Visited(q, F) = F..(P + B)
    <2>1. \A j \in F..(Len(q) - 1) : ~IsSink(q[j])
      <3> TAKE j \in F..(Len(q) - 1)
      <3>1. j - P \in 1..(B - 1) /\ j - P \in 1..B /\ P + (j - P) = j
        BY <1>1, <1>3
      <3>2. q[j] = b[j - P]
        BY <1>1, <3>1
      <3>3. QED
        BY <3>1, <3>2 DEF Leaves
    <2>2. Len(q) \in Nat /\ F \in Nat
      BY <1>1, <1>3
    <2>3. Visited(q, F) = F..Len(q)
      BY <2>1, <2>2, AllVisited, Zenon
    <2>4. QED
      BY <1>1, <2>3
  <1> DEFINE A == PlacesIn(p, x)
  <1>6. IsFiniteSet(A) /\ Cardinality(A) \in Nat
    BY <1>1, PlacesFinite
  <1>7. IsFiniteSet(V) /\ Cardinality(V) \in Nat
    <2>1. V \in SUBSET (F..(P + B)) /\ IsFiniteSet(F..(P + B))
      BY <1>1, <1>3, <1>5, FS_Interval
    <2> HIDE DEF V
    <2>2. QED
      BY <2>1, FS_Subset, FS_CardinalityType
  <1>8. Fresh(p) \subseteq 1..P
    BY DEF Fresh
  <1>9. PlacesIn(q, x) = A \cup V
    BY <1>1, <1>4, <1>5, <1>8 DEF PlacesIn
  <1>10. A \cap V = {}
    BY <1>1, <1>3, <1>5, <1>8 DEF PlacesIn
  <1> HIDE DEF A, V
  <1>11. Cardinality(A \cup V) = Cardinality(A) + Cardinality(V) - Cardinality(A \cap V)
    BY <1>6, <1>7, FS_Union
  <1>12. Cardinality(PlacesIn(q, x)) = Cardinality(A) + Cardinality(V)
    <2>1. Cardinality(A \cap V) = 0
      BY <1>10, FS_EmptySet
    <2>2. Cardinality(A \cup V) = Cardinality(A) + Cardinality(V)
      BY <1>6, <1>7, <1>11, <2>1
    <2>3. QED
      BY <1>9, <2>2
  <1>13. Cardinality(V) = GainOf(q, F, x)
    BY DEF GainOf, V
  <1>14. QED
    BY <1>7, <1>12, <1>13 DEF q, F, A
-----------------------------------------------------------------------------
(* Nets come without pips. *)
Bare == \A n \in Net : nets[n].fixed = <<>>

(* What the engine has to deliver: slacks are numbers, and the longest path *)
(* takes some time, for the router divides by it.                          *)
Timed == dmax \in Nat \ {0} /\ \A p \in RoutedPins : Lookup(slack, p) \in Int

TDEntries == [owner : Node, prev : Node \cup {NULL}, cost : Int, rup : Nat]

TDMarks ==
    /\ tarflg \in [Node -> Int]
    /\ pathCost \in [Node -> Int]
    /\ prev \in [Node -> Node \cup {NULL}]
    /\ mdf \in SUBSET Node
    /\ heap \in SUBSET TDEntries
    /\ \A x \in Node : pathCost[x] <= Huge /\ (x \in mdf <=> pathCost[x] < Huge)
    /\ spc # "pop" => mdf = {} /\ heap = {}

TDPhases ==
    /\ spc \in {"idle", "sink", "pop", "unroutable"}
    /\ pc = "net" => spc = "idle"
    /\ pc = "search" <=> spc \in {"sink", "pop"}
    /\ pc = "search" => idx <= Len(NetSeq) /\ ~IsIgnored(Cur)
    /\ spc = "idle" => \A x \in Node : tarflg[x] = 0

(* The sinks still to be reached are those with a flag, and all have a     *)
(* criticality.                                                            *)
Aims ==
    pc = "search" =>
        /\ order \in Seq(Node)
        /\ ElemsOf(order) = Sinks(Cur)
        /\ \A i, j \in 1..Len(order) : order[i] = order[j] => i = j
        /\ sinkIdx \in 1..(Len(order) + 1)
        /\ spc = "pop" => sinkIdx <= Len(order)
        /\ \A x \in Node :
             tarflg[x] = IF \E i \in sinkIdx..Len(order) : order[i] = x THEN 1 ELSE 0
        /\ \A i \in 1..(sinkIdx - 1) : order[i] \in ElemsOf(path[Cur])
        /\ \A x \in Sinks(Cur) : crit[x] \in 0..Den
        /\ segEnd = Len(path[Cur])

TDTree ==
    pc = "search" => Grows(tree) /\ OpensOn(tree, path[Cur], nets[Cur].src)

(* Predecessor p, or none, for a node y that is reached at cost c.         *)
TDLinked(y, p, c) ==
    IF p = NULL THEN \E i \in DOMAIN tree : tree[i].open /\ tree[i].owner = y
                ELSE p \in mdf /\ pathCost[p] <= c /\ y \in rrg.switches[p]

(* The nodes reached by the search for one sink form a forest that grows   *)
(* from the tree.                                                          *)
TDForest ==
    spc = "pop" =>
        /\ \A e \in heap : TDLinked(e.owner, e.prev, e.cost)
        /\ \A y \in mdf : TDLinked(y, prev[y], pathCost[y]) /\ y # Target
        /\ Acyclic(prev, mdf)

(* The lists are built branch by branch, and reach all sinks once the      *)
(* search for them is over.                                                *)
TDLists ==
    /\ path \in [Net -> Seq(Node)]
    /\ \A n \in Net : IsIgnored(n) => path[n] = <<>>
    /\ \A n \in Net : path[n] = <<>> \/ IsWalk(path[n], nets[n].src)
    /\ \A n \in Net : ~Searched(n) => path[n] = <<>> \/ Sinks(n) \subseteq ElemsOf(path[n])
    /\ pc # "done" => \A i \in 1..(idx - 1) : ~IsIgnored(NetSeq[i]) => path[NetSeq[i]] # <<>>

Counted == \A x \in Node : occ[x] = Cardinality(UsesOf(path, x))

TDSaved ==
    /\ pc # "done" => result = "none"
    /\ result # "success" => pips = [n \in Net |-> {}]
    /\ result = "success" =>
         /\ spc = "idle"
         /\ Feasible
         /\ \A n \in Net : ~IsIgnored(n) => path[n] # <<>>
         /\ pips = [n \in Net |-> Pips(path[n])]

(* The inputs, as they are from the beginning. *)
TDGiven == Posed /\ Bare /\ Electric /\ Given

TDInv ==
    /\ TDGiven /\ Counters
    /\ TDMarks /\ TDPhases /\ Aims /\ TDTree /\ TDForest
    /\ TDLists /\ Counted /\ TDSaved
-----------------------------------------------------------------------------
(* What the inputs are like is so forever.                                 *)
LEMMA TDGivenStays ==
  ASSUME UNCHANGED inputs, TDGiven
  PROVE  TDGiven'
  <1>1. nets' = nets /\ rrg' = rrg /\ params' = params
    BY DEF inputs
  <1>2. Posed' /\ Given'
    BY PosedStays DEF TDGiven
  <1>3. QED
    BY <1>1, <1>2 DEF TDGiven, Bare, Electric

(* So are walks, trees and uses.                                           *)
LEMMA ShapesStay ==
  ASSUME UNCHANGED inputs
  PROVE  /\ nets' = nets /\ rrg' = rrg /\ params' = params
         /\ \A x : IsSink(x)' <=> IsSink(x)
         /\ \A n : IsIgnored(n)' <=> IsIgnored(n)
         /\ \A n : Sinks(n)' = Sinks(n)
         /\ \A p, s : IsWalk(p, s)' <=> IsWalk(p, s)
         /\ \A P, x : UsesOf(P, x)' = UsesOf(P, x)
         /\ \A T : Grows(T)' <=> Grows(T)
         /\ \A T, p, s : OpensOn(T, p, s)' <=> OpensOn(T, p, s)
  <1>1. nets' = nets /\ rrg' = rrg /\ params' = params /\ \A x : IsSink(x)' <=> IsSink(x)
    BY RouteKept
  <1>2. \A n : (IsIgnored(n)' <=> IsIgnored(n)) /\ Sinks(n)' = Sinks(n)
    BY <1>1 DEF IsIgnored, Sinks
  <1>3. \A p, s : IsWalk(p, s)' <=> IsWalk(p, s)
    BY <1>1 DEF IsWalk
  <1>4. \A P, x : UsesOf(P, x)' = UsesOf(P, x)
    BY <1>1 DEF UsesOf, PlacesIn, Fresh
  <1>5. \A T : Grows(T)' <=> Grows(T)
    BY <1>1 DEF Grows
  <1>6. \A T, p, s : OpensOn(T, p, s)' <=> OpensOn(T, p, s)
    BY <1>1 DEF OpensOn
  <1>7. QED
    BY <1>1, <1>2, <1>3, <1>4, <1>5, <1>6

(* The tree begins with the source, from which it is left.                 *)
LEMMA RootGrows ==
  ASSUME NEW s \in Node, ~IsSink(s)
  PROVE  Grows(RootTree(s)) /\ OpensOn(RootTree(s), <<>>, s)
  <1> DEFINE r == [owner |-> s, parent |-> 0, cdown |-> 0, rup |-> 0, delay |-> 0, open |-> TRUE]
             T == <<r>>
  <1>1. T = RootTree(s)
    BY DEF RootTree
  <1>2. r \in TreeNodes /\ r.owner = s /\ r.parent = 0
    BY DEF TreeNodes
  <1> HIDE DEF r
  <1>3. T \in Seq(TreeNodes) /\ DOMAIN T = {1} /\ T[1] = r
    BY <1>2
  <1> HIDE DEF T
  <1>4. Grows(T)
    <2>1. 0 \in 0..(1 - 1)
      OBVIOUS
    <2>2. QED
      BY <1>2, <1>3, <2>1 DEF Grows
  <1>5. OpensOn(T, <<>>, s)
    <2>1. ElemsOf(<<>>) = {}
      BY DEF ElemsOf
    <2>2. QED
      BY <1>2, <1>3, <2>1 DEF OpensOn
  <1>6. QED
    BY <1>1, <1>4, <1>5

(* Lists that nobody touches are what they were.                           *)
LEMMA TDListsKept ==
  ASSUME UNCHANGED inputs, TDLists, path' = path,
         \A n \in Net : Searched(n)' \/ ~Searched(n) \/ Sinks(n) \subseteq ElemsOf(path[n]),
         pc' # "done" => \A i \in 1..(idx' - 1) :
                            \/ i \in 1..(idx - 1) /\ pc # "done"
                            \/ IsIgnored(NetSeq[i])
                            \/ path[NetSeq[i]] # <<>>
  PROVE  TDLists'
  <1>1. /\ nets' = nets
        /\ \A n : (IsIgnored(n)' <=> IsIgnored(n)) /\ Sinks(n)' = Sinks(n)
        /\ \A p, s : IsWalk(p, s)' <=> IsWalk(p, s)
    BY ShapesStay
  <1>2. \A n \in Net : IsWalk(path[n], nets[n].src)' <=> IsWalk(path[n], nets[n].src)
    <2> TAKE n \in Net
    <2> DEFINE p == path[n]
               s == nets[n].src
    <2>1. IsWalk(p, s)' <=> IsWalk(p, s)
      BY <1>1 DEF IsWalk
    <2>2. QED
      BY <2>1
  <1>3. \A n \in Net : path[n] = <<>> \/ IsWalk(path[n], nets[n].src)'
    BY <1>2 DEF TDLists
  <1>4. QED
    BY <1>1, <1>3 DEF TDLists

(* So are their counts.                                                    *)
LEMMA CountedKept ==
  ASSUME UNCHANGED inputs, Counted, path' = path, occ' = occ
  PROVE  Counted'
  <1>1. \A x : IsSink(x)' <=> IsSink(x)
    BY ShapesStay
  <1>2. \A x : UsesOf(path, x)' = UsesOf(path, x)
    BY <1>1 DEF UsesOf, PlacesIn, Fresh
  <1>3. QED
    BY <1>2 DEF Counted

(* The tree stays one while its net is searched for.                       *)
LEMMA TDTreeKept ==
  ASSUME UNCHANGED inputs, TDTree, pc' = "search" => pc = "search" /\ idx' = idx,
         tree' = tree, path' = path
  PROVE  TDTree'
  <1>1. nets' = nets /\ rrg' = rrg /\ \A x : IsSink(x)' <=> IsSink(x)
    BY ShapesStay
  <1>2. Grows(tree)' <=> Grows(tree)
    BY <1>1 DEF Grows
  <1>3. ASSUME pc' = "search"
        PROVE  OpensOn(tree, path[Cur], nets[Cur].src)' <=> OpensOn(tree, path[Cur], nets[Cur].src)
    BY <1>1, <1>3 DEF OpensOn, Cur
  <1>4. QED
    BY <1>2, <1>3 DEF TDTree

(* Before the end nothing is saved.                                        *)
LEMMA NothingSaved ==
  ASSUME TDSaved, pc # "done", result' # "success", pips' = pips,
         pc' # "done" => result' = "none"
  PROVE  TDSaved'
  BY DEF TDSaved

(* The loop begins with nothing routed and nothing marked.                 *)
LEMMA TDInvInit == TDInit /\ Posed /\ Bare /\ Electric => TDInv
  <1> SUFFICES ASSUME TDInit, Posed, Bare, Electric
               PROVE  TDInv
    OBVIOUS
  <1>1. Init /\ tree = <<>>
    BY DEF TDInit
  <1>2. Given /\ Counters
    BY <1>1, LoopInvInit DEF LoopInv
  <1>3. /\ spc = "idle" /\ pc = "net" /\ idx = 1 /\ result = "none" /\ mdf = {} /\ heap = {}
        /\ tarflg = [x \in Node |-> 0] /\ pathCost = [x \in Node |-> Huge]
        /\ prev = [x \in Node |-> NULL] /\ path = [n \in Net |-> <<>>]
        /\ occ = [x \in Node |-> InitialOcc(x)]
        /\ pips = [n \in Net |-> Pips(nets[n].fixed)]
    BY <1>1 DEF Init, SearchInit
  <1>4. TDMarks /\ TDPhases /\ Aims /\ TDTree /\ TDForest
    BY <1>3, HugeAssumption DEF TDMarks, TDPhases, Aims, TDTree, TDForest
  <1>5. TDLists
    BY <1>3 DEF TDLists
  <1>6. Counted
    <2> SUFFICES ASSUME NEW x \in Node
                 PROVE  InitialOcc(x) = Cardinality(UsesOf(path, x))
      BY <1>3 DEF Counted
    <2>1. UsesOf(path, x) = {}
      <3>1. \A n \in Net : path[n] = <<>>
        BY <1>3
      <3>2. Fresh(<<>>) = {}
        BY DEF Fresh
      <3>3. QED
        BY <3>1, <3>2 DEF UsesOf, PlacesIn
    <2>2. \A n \in Net : {j \in DOMAIN nets[n].fixed : nets[n].fixed[j] = x} = {}
      BY DEF Bare
    <2>3. InitialOcc(x) = Cardinality({})
      BY <2>2 DEF InitialOcc
    <2>4. QED
      BY <2>1, <2>3
  <1>7. TDSaved
    <2>1. Pips(<<>>) = {}
      BY DEF Pips
    <2>2. pips = [n \in Net |-> {}]
      BY <1>3, <2>1 DEF Bare
    <2>3. QED
      BY <1>3, <2>2 DEF TDSaved
  <1>8. QED
    BY <1>2, <1>4, <1>5, <1>6, <1>7 DEF TDInv, TDGiven
-----------------------------------------------------------------------------
(* Steps of the engine leave the router alone.                             *)
LEMMA EngineKeeps ==
  ASSUME TDInv, UNCHANGED <<vars, tree, order, crit>>
  PROVE  TDInv'
  <1>1. /\ UNCHANGED inputs /\ Cur' = Cur /\ idx' = idx /\ pc' = pc /\ spc' = spc
        /\ path' = path /\ occ' = occ /\ tree' = tree /\ order' = order /\ crit' = crit
        /\ sinkIdx' = sinkIdx /\ segEnd' = segEnd /\ pips' = pips /\ result' = result
        /\ tarflg' = tarflg /\ pathCost' = pathCost /\ prev' = prev /\ mdf' = mdf /\ heap' = heap
        /\ itry' = itry /\ presFac' = presFac /\ pres' = pres /\ hist' = hist
    BY DEF vars, svars, inputs, nodeMarks, searchVars, loopVars, Cur
  <1>2. TDGiven' /\ nets' = nets /\ rrg' = rrg /\ \A n : IsIgnored(n)' <=> IsIgnored(n)
    BY <1>1, TDGivenStays, ShapesStay DEF TDInv
  <1>3. Counters' /\ TDMarks' /\ TDPhases'
    BY <1>1, <1>2 DEF TDInv, Counters, TDMarks, TDPhases
  <1>4. Aims'
    BY <1>1, <1>2 DEF TDInv, Aims, Sinks
  <1>5. TDTree' /\ Counted'
    BY <1>1, TDTreeKept, CountedKept DEF TDInv
  <1>6. TDForest'
    BY <1>1, <1>2 DEF TDInv, TDForest, TDLinked, Target, Acyclic
  <1>7. TDLists'
    <2>1. \A n \in Net : Searched(n)' <=> Searched(n)
      BY <1>1 DEF Searched
    <2>2. \A n \in Net : Searched(n)' \/ ~Searched(n) \/ Sinks(n) \subseteq ElemsOf(path[n])
      BY <2>1
    <2>3. QED
      BY <1>1, <2>2, TDListsKept DEF TDInv
  <1>8. TDSaved'
    <2>1. \A x : IsSink(x)' <=> IsSink(x)
      BY <1>1, ShapesStay
    <2>2. \A p : Pips(p)' = Pips(p)
      BY <2>1 DEF Pips
    <2>3. [n \in Net |-> Pips(path[n])]' = [n \in Net |-> Pips(path[n])]
      BY <1>1, <2>1 DEF Pips
    <2>4. Feasible' <=> Feasible
      BY <1>1 DEF Feasible, Overused
    <2>5. QED
      BY <1>1, <1>2, <2>3, <2>4 DEF TDInv, TDSaved
  <1>9. QED
    BY <1>2, <1>3, <1>4, <1>5, <1>6, <1>7, <1>8 DEF TDInv

(* A net that is ignored is passed over.                                   *)
LEMMA TDSkipNetKeeps ==
  ASSUME TDInv, TDSkipNet
  PROVE  TDInv'
  <1>1. /\ UNCHANGED inputs /\ pc = "net" /\ pc' = "net" /\ spc = "idle" /\ spc' = "idle"
        /\ idx' = idx + 1 /\ idx <= Len(NetSeq) /\ IsIgnored(NetSeq[idx])
        /\ path' = path /\ occ' = occ /\ pips' = pips /\ result' = result
        /\ tarflg' = tarflg /\ pathCost' = pathCost /\ prev' = prev /\ mdf' = mdf /\ heap' = heap
        /\ itry' = itry /\ presFac' = presFac /\ pres' = pres /\ hist' = hist /\ tree' = tree
    BY DEF TDSkipNet, SkipNet, svars, inputs, nodeMarks, searchVars, Cur, TDInv, TDPhases
  <1>2. TDGiven'
    BY <1>1, TDGivenStays DEF TDInv
  <1>3. Counters'
    BY <1>1, NetlistAssumption DEF TDInv, Counters
  <1>4. TDMarks' /\ TDPhases' /\ Aims' /\ TDForest'
    BY <1>1 DEF TDInv, TDMarks, TDPhases, Aims, TDForest
  <1>5. TDTree' /\ Counted'
    BY <1>1, TDTreeKept, CountedKept DEF TDInv
  <1>6. TDLists'
    <2>1. \A n \in Net : ~Searched(n)
      BY <1>1 DEF Searched
    <2>2. \A i \in 1..(idx' - 1) : i \in 1..(idx - 1) \/ IsIgnored(NetSeq[i])
      BY <1>1 DEF TDInv, Counters
    <2>3. QED
      BY <1>1, <2>1, <2>2, TDListsKept DEF TDInv
  <1>7. TDSaved'
    BY <1>1 DEF TDInv, TDSaved
  <1>8. QED
    BY <1>2, <1>3, <1>4, <1>5, <1>6, <1>7 DEF TDInv

(* What the steps of a search leave alone. *)
TDKept ==
    UNCHANGED <<inputs, hist, pc, itry, idx, presFac, result, pips, order, crit>>

(* What the search relies on, whichever its steps.                         *)
LEMMA TDSearching ==
  ASSUME TDInv, spc \in {"sink", "pop"}
  PROVE  /\ pc = "search" /\ idx <= Len(NetSeq) /\ Cur \in Net /\ ~IsIgnored(Cur)
         /\ nets[Cur].src \in Node /\ WellPosed(Cur)
         /\ result = "none"
         /\ order \in Seq(Node) /\ Len(order) \in Nat /\ ElemsOf(order) = Sinks(Cur)
         /\ sinkIdx \in 1..(Len(order) + 1)
         /\ path \in [Net -> Seq(Node)]
         /\ path[Cur] = <<>> \/ IsWalk(path[Cur], nets[Cur].src)
         /\ segEnd = Len(path[Cur])
         /\ Grows(tree) /\ OpensOn(tree, path[Cur], nets[Cur].src)
  <1>1. pc = "search" /\ idx <= Len(NetSeq) /\ ~IsIgnored(Cur)
    BY DEF TDInv, TDPhases
  <1>2. Cur \in Net
    BY <1>1, CurIsNet DEF TDInv
  <1>3. nets[Cur].src \in Node
    BY <1>2, NetlistAssumption DEF TDInv, TDGiven, Given
  <1>4. QED
    BY <1>1, <1>2, <1>3 DEF TDInv, TDGiven, Posed, Aims, TDTree, TDLists, TDSaved

(* The sink in hand is a node of the net, and a sink.                      *)
LEMMA TargetFits ==
  ASSUME TDInv, spc = "pop"
  PROVE  Target \in Sinks(Cur) /\ Target \in Node /\ IsSink(Target) /\ sinkIdx \in 1..Len(order)
         /\ crit[Target] \in 0..Den
  <1>1. /\ pc = "search" /\ ~IsIgnored(Cur) /\ Cur \in Net
        /\ order \in Seq(Node) /\ Len(order) \in Nat /\ ElemsOf(order) = Sinks(Cur)
        /\ sinkIdx \in 1..(Len(order) + 1)
    BY TDSearching
  <1>2. sinkIdx \in 1..Len(order)
    BY <1>1 DEF TDInv, Aims
  <1>3. Target \in Node /\ Target \in ElemsOf(order)
    BY <1>1, <1>2 DEF Target, ElemsOf
  <1>4. IsSink(Target)
    BY <1>1, <1>3 DEF IsSink, Sinks
  <1>5. crit[Target] \in 0..Den
    BY <1>1, <1>3 DEF TDInv, Aims
  <1>6. QED
    BY <1>1, <1>2, <1>3, <1>4, <1>5

(* A step that stays in the search leaves these alone.                     *)
LEMMA SearchStays ==
  ASSUME TDInv, TDKept, spc \in {"sink", "pop"}, spc' \in {"sink", "pop"}
  PROVE  /\ TDGiven' /\ TDPhases' /\ TDSaved'
         /\ Cur' = Cur /\ nets' = nets /\ rrg' = rrg /\ pc = "search" /\ pc' = "search"
         /\ occ' \in [Node -> Int] /\ pres' \in [Node -> Nat] => Counters'
         /\ \A n \in Net : Searched(n)' <=> Searched(n)
  <1>1. /\ UNCHANGED inputs /\ Cur' = Cur /\ idx' = idx /\ pc' = pc /\ itry' = itry
        /\ result' = result /\ pips' = pips /\ presFac' = presFac /\ hist' = hist
    BY DEF TDKept, Cur
  <1>2. TDGiven' /\ nets' = nets /\ rrg' = rrg /\ \A n : IsIgnored(n)' <=> IsIgnored(n)
    BY <1>1, TDGivenStays, ShapesStay DEF TDInv
  <1>3. pc = "search" /\ idx <= Len(NetSeq) /\ ~IsIgnored(Cur) /\ result = "none"
    BY TDSearching
  <1>4. TDPhases'
    BY <1>1, <1>2, <1>3 DEF TDPhases
  <1>5. TDSaved'
    BY <1>1, <1>3, NothingSaved DEF TDInv
  <1>6. occ' \in [Node -> Int] /\ pres' \in [Node -> Nat] => Counters'
    BY <1>1 DEF TDInv, Counters
  <1>7. \A n \in Net : Searched(n)' <=> Searched(n)
    BY <1>1 DEF Searched
  <1>8. QED
    BY <1>1, <1>2, <1>3, <1>4, <1>5, <1>6, <1>7

(* An entry is an entry, and what it was made of.                          *)
LEMMA TDEntryFits ==
  ASSUME NEW x, NEW p, NEW c, NEW r
  PROVE  /\ TDEntry(x, p, c, r).owner = x /\ TDEntry(x, p, c, r).prev = p
         /\ TDEntry(x, p, c, r).cost = c /\ TDEntry(x, p, c, r).rup = r
         /\ x \in Node /\ p \in Node \cup {NULL} /\ c \in Int /\ r \in Nat =>
              TDEntry(x, p, c, r) \in TDEntries
  BY DEF TDEntry, TDEntries

(* The search for a sink begins at the nodes from which the tree is left.  *)
LEMMA TDBeginSinkKeeps ==
  ASSUME TDInv, TDBeginSink
  PROVE  TDInv'
  <1>1. /\ spc = "sink" /\ spc' = "pop" /\ sinkIdx <= Len(order) /\ heap' = TreeEntries
        /\ UNCHANGED <<inputs, occ, pres, hist, tarflg, pathCost, prev, mdf, segEnd, sinkIdx,
                       path, pc, idx, result, pips, tree, order, crit>>
        /\ TDKept
    BY DEF TDBeginSink, TDKept, inputs, nodeMarks, loopVars
  <1>2. /\ TDGiven' /\ TDPhases' /\ TDSaved' /\ Cur' = Cur /\ nets' = nets /\ rrg' = rrg
        /\ pc = "search" /\ pc' = "search"
        /\ (occ' \in [Node -> Int] /\ pres' \in [Node -> Nat] => Counters')
        /\ \A n \in Net : Searched(n)' <=> Searched(n)
    BY <1>1, SearchStays
  <1>3. /\ order \in Seq(Node) /\ Len(order) \in Nat /\ ElemsOf(order) = Sinks(Cur)
        /\ sinkIdx \in 1..Len(order) /\ Grows(tree)
    BY <1>1, TDSearching
  <1>4. Counters'
    BY <1>1, <1>2 DEF TDInv, Counters
  <1>5. crit[Target] \in 0..Den
    <2>1. Target \in ElemsOf(order)
      BY <1>3 DEF Target, ElemsOf
    <2>2. QED
      BY <1>2, <1>3, <2>1 DEF TDInv, Aims
  <1>6. ASSUME NEW e \in TreeEntries
        PROVE  /\ e \in TDEntries
               /\ e.prev = NULL
               /\ \E i \in DOMAIN tree : tree[i].open /\ tree[i].owner = e.owner
    <2>1. PICK i \in DOMAIN tree :
            tree[i].open /\ e = TDEntry(tree[i].owner, NULL, crit[Target] * tree[i].delay, tree[i].rup)
      BY DEF TreeEntries
    <2>2. tree[i] \in TreeNodes
      BY <1>3 DEF Grows
    <2> DEFINE x == tree[i].owner
               d == tree[i].delay
               r == tree[i].rup
               t == crit[Target]
    <2>3. x \in Node /\ d \in Int /\ r \in Nat /\ t \in Int
      BY <1>5, <2>2, CritAssumption DEF TreeNodes
    <2>4. e = TDEntry(x, NULL, t * d, r) /\ tree[i].open
      BY <2>1
    <2> HIDE DEF d, r, t
    <2>5. t * d \in Int
      BY <2>3
    <2>6. e \in TDEntries /\ e.owner = x /\ e.prev = NULL
      BY <2>3, <2>4, <2>5, TDEntryFits
    <2>7. QED
      BY <2>1, <2>6
  <1>7. TDMarks'
    BY <1>1, <1>6 DEF TDInv, TDMarks
  <1>8. Aims'
    BY <1>1, <1>2, <1>3 DEF TDInv, Aims, Sinks
  <1>9. TDTree' /\ Counted' /\ TDLists'
    <2>1. \A n \in Net : Searched(n)' \/ ~Searched(n) \/ Sinks(n) \subseteq ElemsOf(path[n])
      BY <1>2
    <2>2. QED
      BY <1>1, <2>1, TDTreeKept, CountedKept, TDListsKept DEF TDInv
  <1>10. TDForest'
    <2>1. mdf = {}
      BY <1>1 DEF TDInv, TDMarks
    <2>2. Acyclic(prev, mdf)'
      BY <1>1, <2>1 DEF Acyclic
    <2>3. ASSUME NEW e \in heap'
          PROVE  TDLinked(e.owner, e.prev, e.cost)'
      BY <1>1, <1>6 DEF TDLinked
    <2>4. QED
      BY <1>1, <2>1, <2>2, <2>3 DEF TDForest
  <1>11. QED
    BY <1>2, <1>4, <1>7, <1>8, <1>9, <1>10 DEF TDInv

(* An entry that is no improvement is dropped.                             *)
LEMMA TDPopStaleKeeps ==
  ASSUME TDInv, TDPopStale
  PROVE  TDInv'
  <1>1. /\ spc = "pop" /\ spc' = "pop" /\ heap' \subseteq heap
        /\ UNCHANGED <<inputs, occ, pres, hist, tarflg, pathCost, prev, mdf, segEnd, sinkIdx,
                       path, pc, idx, result, pips, tree, order, crit>>
        /\ TDKept
    BY DEF TDPopStale, TDKept, inputs, nodeMarks, loopVars, Popped
  <1>2. /\ TDGiven' /\ TDPhases' /\ TDSaved' /\ Cur' = Cur /\ nets' = nets /\ rrg' = rrg
        /\ pc = "search" /\ pc' = "search"
        /\ (occ' \in [Node -> Int] /\ pres' \in [Node -> Nat] => Counters')
        /\ \A n \in Net : Searched(n)' <=> Searched(n)
    BY <1>1, SearchStays
  <1>3. Counters'
    BY <1>1, <1>2 DEF TDInv, Counters
  <1>4. TDMarks'
    BY <1>1 DEF TDInv, TDMarks
  <1>5. Aims'
    BY <1>1, <1>2 DEF TDInv, Aims, Sinks
  <1>6. TDTree' /\ Counted' /\ TDLists'
    <2>1. \A n \in Net : Searched(n)' \/ ~Searched(n) \/ Sinks(n) \subseteq ElemsOf(path[n])
      BY <1>2
    <2>2. QED
      BY <1>1, <2>1, TDTreeKept, CountedKept, TDListsKept DEF TDInv
  <1>7. TDForest'
    BY <1>1, <1>2 DEF TDInv, TDForest, TDLinked, Target, Acyclic
  <1>8. QED
    BY <1>2, <1>3, <1>4, <1>5, <1>6, <1>7 DEF TDInv

(* What an expanded node offers: its neighbours, from there, at no less    *)
(* than its cost.                                                          *)
LEMMA TDOfferFits ==
  ASSUME TDGiven, Counters, Cur \in Net, NEW e \in TDEntries, NEW c \in 0..Den,
         NEW f \in TDOffers(e, c)
  PROVE  /\ f \in TDEntries
         /\ f.owner \in rrg.switches[e.owner]
         /\ f.prev = e.owner
         /\ f.cost >= e.cost
  <1> DEFINE w      == e.owner
             s(x)   == rrg.sw[<<w, x>>]
             up(x)  == s(x).res + rrg.res[x] + (IF s(x).buf THEN 0 ELSE e.rup)
             del(x) == s(x).delay + (up(x) - rrg.res[x] \div 2) * rrg.cap[x]
             new(x) == e.cost + (Den - c) * CongCost(x) + c * del(x)
  <1>1. PICK x \in InBox(Cur, rrg.switches[w]) : f = TDEntry(x, w, new(x), up(x))
    BY DEF TDOffers
  <1>2. w \in Node /\ e.cost \in Int /\ e.rup \in Nat
    BY DEF TDEntries
  <1>3. x \in rrg.switches[w] /\ x \in Node
    BY <1>1, <1>2 DEF InBox, TDGiven, Given
  <1>4. s(x).buf \in BOOLEAN /\ s(x).res \in Nat /\ s(x).delay \in Nat
        /\ rrg.res[x] \in Nat /\ rrg.cap[x] \in Nat
    BY <1>2, <1>3 DEF TDGiven, Electric
  <1>5. CongCost(x) \in Nat
    BY <1>3, LoopInputs DEF TDGiven, InputsFit
  <1> HIDE DEF s
  <1>6. up(x) \in Nat /\ up(x) - rrg.res[x] \div 2 \in Nat
    <2> DEFINE r == rrg.res[x]
               m == s(x).res
               h == r \div 2
               u == IF s(x).buf THEN 0 ELSE e.rup
    <2>1. r \in Nat /\ m \in Nat /\ u \in Nat /\ up(x) = m + r + u
      BY <1>2, <1>4
    <2> HIDE DEF r, m, u
    <2>2. h \in Int /\ h <= r
      BY <2>1
    <2> HIDE DEF up, h
    <2>3. up(x) \in Nat /\ up(x) - h \in Nat
      BY <2>1, <2>2
    <2>4. QED
      BY <2>3 DEF h, r
  <1> HIDE DEF up
  <1>7. del(x) \in Nat
    <2>1. (up(x) - rrg.res[x] \div 2) * rrg.cap[x] \in Nat
      BY <1>4, <1>6, ProductNat
    <2>2. QED
      BY <1>4, <2>1
  <1> HIDE DEF del
  <1>8. new(x) \in Int /\ new(x) >= e.cost
    <2>1. c \in Nat /\ Den - c \in Nat
      BY CritAssumption
    <2>2. (Den - c) * CongCost(x) \in Nat /\ c * del(x) \in Nat
      BY <1>5, <1>7, <2>1, ProductNat
    <2>3. QED
      BY <1>2, <2>2
  <1> HIDE DEF new, w
  <1>9. f \in TDEntries /\ f.owner = x /\ f.prev = w /\ f.cost = new(x)
    BY <1>1, <1>2, <1>3, <1>6, <1>8, TDEntryFits
  <1>10. QED
    BY <1>3, <1>8, <1>9 DEF w

(* The owner of the entry takes its place in the forest, and what it       *)
(* offers is linked to it.                                                 *)
LEMMA TDPopExpandKeeps ==
  ASSUME TDInv, TDPopExpand
  PROVE  TDInv'
  <1>1. PICK e \in heap :
          /\ e.owner # Target
          /\ pathCost[e.owner] > e.cost
          /\ prev' = [prev EXCEPT ![e.owner] = e.prev]
          /\ pathCost' = [pathCost EXCEPT ![e.owner] = e.cost]
          /\ mdf' = Modified(e.owner)
          /\ heap' = Popped(e) \cup TDAdded(TDOffers(e, crit[Target]), pathCost')
    BY DEF TDPopExpand
  <1>2. /\ spc = "pop" /\ spc' = "pop"
        /\ UNCHANGED <<inputs, occ, pres, hist, tarflg, segEnd, sinkIdx,
                       path, pc, idx, result, pips, tree, order, crit>>
        /\ TDKept
    BY DEF TDPopExpand, TDKept, inputs, nodeMarks, loopVars
  <1>3. /\ TDGiven' /\ TDPhases' /\ TDSaved' /\ Cur' = Cur /\ nets' = nets /\ rrg' = rrg
        /\ pc = "search" /\ pc' = "search"
        /\ (occ' \in [Node -> Int] /\ pres' \in [Node -> Nat] => Counters')
        /\ \A n \in Net : Searched(n)' <=> Searched(n)
    BY <1>2, SearchStays
  <1>4. /\ pathCost \in [Node -> Int] /\ prev \in [Node -> Node \cup {NULL}]
        /\ mdf \in SUBSET Node /\ heap \in SUBSET TDEntries
        /\ \A x \in Node : pathCost[x] <= Huge /\ (x \in mdf <=> pathCost[x] < Huge)
    BY DEF TDInv, TDMarks
  <1>5. e \in TDEntries /\ e.owner \in Node /\ e.prev \in Node \cup {NULL} /\ e.cost \in Int
    BY <1>1, <1>4 DEF TDEntries
  <1>6. mdf' = mdf \cup {e.owner}
    BY <1>1, <1>4, <1>5, HugeAssumption DEF Modified
  <1>7. /\ \A x \in Node : pathCost'[x] = IF x = e.owner THEN e.cost ELSE pathCost[x]
        /\ \A x \in Node : prev'[x] = IF x = e.owner THEN e.prev ELSE prev[x]
        /\ \A x \in Node : pathCost'[x] <= pathCost[x]
    BY <1>1, <1>4, <1>5
  <1>8. Target' = Target
    BY <1>2 DEF Target
  <1>9. ASSUME NEW f \in heap', f \notin heap
        PROVE  /\ f \in TDEntries /\ f.owner \in rrg.switches[e.owner]
               /\ f.prev = e.owner /\ f.cost >= e.cost
    <2>1. f \in TDOffers(e, crit[Target])
      BY <1>1, <1>9 DEF Popped, TDAdded
    <2>2. crit[Target] \in 0..Den /\ Cur \in Net /\ TDGiven /\ Counters
      BY <1>2, TargetFits, TDSearching DEF TDInv
    <2>3. QED
      BY <1>5, <2>1, <2>2, TDOfferFits
  <1>10. Counters'
    BY <1>2, <1>3 DEF TDInv, Counters
  <1>11. TDMarks'
    <2>1. heap' \in SUBSET TDEntries
      BY <1>4, <1>9
    <2>2. pathCost' \in [Node -> Int] /\ prev' \in [Node -> Node \cup {NULL}]
      BY <1>1, <1>4, <1>5
    <2>3. \A x \in Node : pathCost'[x] <= Huge /\ (x \in mdf' <=> pathCost'[x] < Huge)
      <3> TAKE x \in Node
      <3>1. CASE x = e.owner
        <4>1. pathCost'[x] = e.cost /\ e.cost < pathCost[x] /\ pathCost[x] <= Huge
              /\ pathCost[x] \in Int
          BY <1>1, <1>4, <1>7, <3>1
        <4>2. QED
          BY <1>5, <1>6, <3>1, <4>1, HugeAssumption
      <3>2. CASE x # e.owner
        BY <1>4, <1>6, <1>7, <3>2
      <3>3. QED
        BY <3>1, <3>2
    <2>4. QED
      BY <1>2, <1>4, <1>5, <1>6, <2>1, <2>2, <2>3 DEF TDInv, TDMarks
  <1>12. Aims'
    BY <1>2, <1>3 DEF TDInv, Aims, Sinks
  <1>13. TDTree' /\ Counted' /\ TDLists'
    <2>1. \A n \in Net : Searched(n)' \/ ~Searched(n) \/ Sinks(n) \subseteq ElemsOf(path[n])
      BY <1>3
    <2>2. QED
      BY <1>2, <2>1, TDTreeKept, CountedKept, TDListsKept DEF TDInv
  <1>14. ASSUME NEW y, NEW p \in Node \cup {NULL}, NEW c \in Int, TDLinked(y, p, c)
         PROVE  TDLinked(y, p, c)'
    <2>1. CASE p = NULL
      BY <1>2, <1>14, <2>1 DEF TDLinked
    <2>2. CASE p # NULL
      <3>1. p \in mdf /\ pathCost[p] <= c
        BY <1>14, <2>2 DEF TDLinked
      <3>2. p \in mdf' /\ pathCost'[p] <= c
        <4>1. pathCost'[p] <= pathCost[p] /\ pathCost[p] \in Int /\ pathCost'[p] \in Int
          BY <1>4, <1>5, <1>7, <3>1
        <4>2. QED
          BY <1>6, <3>1, <4>1
      <3>3. QED
        BY <1>3, <1>14, <2>2, <3>2 DEF TDLinked
    <2>3. QED
      BY <2>1, <2>2
  <1>15. /\ \A f \in heap : TDLinked(f.owner, f.prev, f.cost)
         /\ \A y \in mdf : TDLinked(y, prev[y], pathCost[y]) /\ y # Target
         /\ Acyclic(prev, mdf)
    BY <1>2 DEF TDInv, TDForest
  <1>16. ASSUME NEW f \in heap
         PROVE  TDLinked(f.owner, f.prev, f.cost)'
    <2> DEFINE y == f.owner
               p == f.prev
               c == f.cost
    <2>1. p \in Node \cup {NULL} /\ c \in Int /\ TDLinked(y, p, c)
      BY <1>4, <1>15 DEF TDEntries
    <2>2. TDLinked(y, p, c)'
      BY <1>14, <2>1
    <2>3. QED
      BY <2>2
  <1>17. ASSUME NEW f \in heap'
         PROVE  TDLinked(f.owner, f.prev, f.cost)'
    <2>1. CASE f \in heap
      BY <1>16, <2>1
    <2>2. CASE f \notin heap
      <3>1. /\ f \in TDEntries /\ f.owner \in rrg.switches[e.owner]
            /\ f.prev = e.owner /\ f.cost >= e.cost
        BY <1>9, <2>2
      <3>2. e.owner \in mdf' /\ pathCost'[e.owner] <= f.cost /\ e.owner # NULL
        BY <1>5, <1>6, <1>7, <3>1, NullAssumption DEF TDEntries
      <3>3. QED
        BY <1>3, <3>1, <3>2 DEF TDLinked
    <2>3. QED
      BY <2>1, <2>2
  <1>18. ASSUME NEW y \in mdf'
         PROVE  TDLinked(y, prev[y], pathCost[y])' /\ y # Target'
    <2>1. CASE y = e.owner
      <3>1. TDLinked(e.owner, e.prev, e.cost)' /\ e.owner # Target
        BY <1>1, <1>16
      <3>2. prev'[y] = e.prev /\ pathCost'[y] = e.cost
        BY <1>5, <1>7, <2>1
      <3>3. QED
        BY <1>8, <2>1, <3>1, <3>2 DEF TDLinked
    <2>2. CASE y # e.owner
      <3>1. y \in mdf /\ y \in Node
        BY <1>4, <1>6, <2>2
      <3>2. TDLinked(y, prev[y], pathCost[y]) /\ y # Target
        BY <1>15, <3>1
      <3>3. PICK p \in Node \cup {NULL}, c \in Int : p = prev[y] /\ c = pathCost[y]
        BY <1>4, <3>1
      <3>4. TDLinked(y, p, c)
        BY <3>2, <3>3 DEF TDLinked
      <3>5. TDLinked(y, p, c)'
        BY <1>14, <3>4
      <3>6. prev'[y] = p /\ pathCost'[y] = c
        BY <1>7, <2>2, <3>1, <3>3
      <3>7. QED
        BY <1>8, <3>2, <3>5, <3>6 DEF TDLinked
    <2>3. QED
      BY <2>1, <2>2
  <1>19. Acyclic(prev, mdf)'
    <2>1. \A y \in mdf : prev[y] # NULL => prev[y] \in mdf /\ pathCost[prev[y]] <= pathCost[y]
      BY <1>15 DEF TDLinked
    <2> DEFINE q == e.prev
               x == e.owner
               c == e.cost
    <2>2. /\ q \in mdf \cup {NULL} /\ x \in Node /\ c \in Int
          /\ pathCost[x] > c /\ (q # NULL => pathCost[q] <= c)
      BY <1>1, <1>5, <1>15 DEF TDLinked
    <2> HIDE DEF q, x, c
    <2>3. Acyclic([prev EXCEPT ![x] = q], mdf \cup {x})
      BY <1>4, <1>15, <2>1, <2>2, CheaperKeepsAcyclic
    <2>4. prev' = [prev EXCEPT ![x] = q] /\ mdf' = mdf \cup {x}
      BY <1>1, <1>6 DEF q, x
    <2>5. QED
      BY <2>3, <2>4 DEF Acyclic
  <1>20. TDForest'
    BY <1>17, <1>18, <1>19 DEF TDForest
  <1>21. QED
    BY <1>3, <1>10, <1>11, <1>12, <1>13, <1>20 DEF TDInv
-----------------------------------------------------------------------------
(* What is modified is reset when the search for a sink ends.              *)
LEMMA CostsReset ==
  ASSUME TDMarks, pathCost' = [x \in Node |-> IF x \in Cleared(mdf) THEN Huge ELSE pathCost[x]]
  PROVE  pathCost' \in [Node -> Int] /\ \A x \in Node : pathCost'[x] = Huge
  <1>1. /\ pathCost \in [Node -> Int]
        /\ \A x \in Node : pathCost[x] <= Huge /\ (x \in mdf <=> pathCost[x] < Huge)
    BY DEF TDMarks
  <1>2. ASSUME NEW x \in Node
        PROVE  pathCost'[x] = Huge
    <2>1. pathCost'[x] = IF x \in mdf THEN Huge ELSE pathCost[x]
      BY DEF Cleared
    <2>2. pathCost[x] \in Int /\ pathCost[x] <= Huge /\ (x \in mdf <=> pathCost[x] < Huge)
      BY <1>1
    <2>3. QED
      BY <2>1, <2>2, HugeAssumption
  <1>3. \A x \in Node : (IF x \in Cleared(mdf) THEN Huge ELSE pathCost[x]) \in Int
    BY <1>1, HugeAssumption
  <1>4. QED
    BY <1>2, <1>3

(* The router gives up with its costs reset.                               *)
LEMMA TDFailKeeps ==
  ASSUME TDInv, TDFail
  PROVE  TDInv'
  <1>1. /\ spc = "pop" /\ heap' = {} /\ mdf' = {} /\ spc' = "unroutable" /\ pc' = "done"
        /\ result' = "unroutable"
        /\ pathCost' = [x \in Node |-> IF x \in Cleared(mdf) THEN Huge ELSE pathCost[x]]
        /\ UNCHANGED <<inputs, occ, pres, hist, tarflg, prev, path, itry, idx, presFac, pips, tree>>
    BY DEF TDFail, inputs
  <1>2. TDGiven' /\ pc = "search"
    BY <1>1, TDGivenStays, TDSearching DEF TDInv
  <1>3. Counters'
    BY <1>1 DEF TDInv, Counters
  <1>4. TDMarks'
    <2>1. pathCost' \in [Node -> Int] /\ \A x \in Node : pathCost'[x] = Huge
      BY <1>1, CostsReset DEF TDInv
    <2>2. QED
      BY <1>1, <2>1, HugeAssumption DEF TDInv, TDMarks
  <1>5. TDPhases' /\ Aims' /\ TDTree' /\ TDForest'
    BY <1>1 DEF TDPhases, Aims, TDTree, TDForest
  <1>6. TDLists'
    <2>1. \A n \in Net : Searched(n)' <=> Searched(n)
      BY <1>1 DEF Searched, Cur
    <2>2. \A n \in Net : Searched(n)' \/ ~Searched(n) \/ Sinks(n) \subseteq ElemsOf(path[n])
      BY <2>1
    <2>3. QED
      BY <1>1, <2>2, TDListsKept DEF TDInv
  <1>7. Counted' /\ TDSaved'
    BY <1>1, <1>2, CountedKept, NothingSaved DEF TDInv
  <1>8. QED
    BY <1>2, <1>3, <1>4, <1>5, <1>6, <1>7 DEF TDInv

(* A net whose sinks are all reached is done with.                         *)
LEMMA TDFinishKeeps ==
  ASSUME TDInv, TDFinish
  PROVE  TDInv'
  <1>1. /\ pc = "search" /\ spc = "sink" /\ sinkIdx > Len(order)
        /\ spc' = "idle" /\ pc' = "net" /\ idx' = idx + 1
        /\ UNCHANGED <<inputs, occ, pres, hist, tarflg, pathCost, prev, mdf, heap, path,
                       itry, presFac, result, pips, tree>>
    BY DEF TDFinish, inputs, nodeMarks
  <1>2. /\ idx <= Len(NetSeq) /\ Cur \in Net /\ ~IsIgnored(Cur) /\ result = "none"
        /\ order \in Seq(Node) /\ Len(order) \in Nat /\ ElemsOf(order) = Sinks(Cur)
        /\ sinkIdx = Len(order) + 1
    BY <1>1, TDSearching
  <1>3. TDGiven'
    BY <1>1, TDGivenStays DEF TDInv
  <1>4. Counters'
    BY <1>1, <1>2, NetlistAssumption DEF TDInv, Counters
  <1>5. Sinks(Cur) \subseteq ElemsOf(path[Cur])
    <2>1. \A i \in 1..Len(order) : order[i] \in ElemsOf(path[Cur])
      BY <1>1, <1>2 DEF TDInv, Aims
    <2>2. DOMAIN order = 1..Len(order)
      BY <1>2
    <2>3. QED
      BY <1>2, <2>1, <2>2 DEF ElemsOf
  <1>6. path[Cur] # <<>>
    <2>1. nets[Cur].sinks \in Seq(Node) /\ Len(nets[Cur].sinks) # 0
      BY <1>2, NetlistAssumption DEF IsIgnored, Ignorable, TDInv, TDGiven, Given
    <2>2. nets[Cur].sinks[1] \in Sinks(Cur)
      BY <2>1 DEF Sinks, ElemsOf
    <2>3. QED
      BY <1>5, <2>2 DEF ElemsOf
  <1>7. TDMarks'
    BY <1>1 DEF TDInv, TDMarks
  <1>8. TDPhases'
    <2>1. \A x \in Node : tarflg[x] = 0
      BY <1>1, <1>2 DEF TDInv, Aims
    <2>2. QED
      BY <1>1, <2>1 DEF TDPhases
  <1>9. Aims' /\ TDForest'
    BY <1>1 DEF Aims, TDForest
  <1>10. TDTree' /\ Counted'
    BY <1>1, TDTreeKept, CountedKept DEF TDInv
  <1>11. TDLists'
    <2>1. \A n \in Net : ~Searched(n) \/ Sinks(n) \subseteq ElemsOf(path[n])
      BY <1>5 DEF Searched
    <2>2. \A i \in 1..(idx' - 1) : i \in 1..(idx - 1) \/ path[NetSeq[i]] # <<>>
      <3>1. \A i \in 1..(idx' - 1) : i \in 1..(idx - 1) \/ i = idx
        BY <1>1 DEF TDInv, Counters
      <3>2. QED
        BY <1>6, <3>1 DEF Cur
    <2>3. QED
      BY <1>1, <2>1, <2>2, TDListsKept DEF TDInv
  <1>12. TDSaved'
    BY <1>1, <1>2, NothingSaved DEF TDInv
  <1>13. QED
    BY <1>3, <1>4, <1>7, <1>8, <1>9, <1>10, <1>11, <1>12 DEF TDInv

(* Success saves the lists of all nets.                                    *)
LEMMA TDSucceedKeeps ==
  ASSUME TDInv, TDSucceed
  PROVE  TDInv'
  <1>1. /\ pc = "net" /\ spc = "idle" /\ idx > Len(NetSeq) /\ Feasible
        /\ pips' = [n \in Net |->
                     IF path[n] = <<>> THEN pips[n]
                     ELSE IF IsPartial(n) THEN Pips(path[n]) ELSE pips[n] \cup Pips(path[n])]
        /\ pc' = "done" /\ result' = "success"
        /\ UNCHANGED <<inputs, occ, pres, hist, tarflg, pathCost, prev, mdf, heap, path, spc,
                       itry, idx, presFac, tree>>
    BY DEF TDSucceed, Succeed, svars, inputs, nodeMarks, searchVars, TDInv, TDPhases
  <1>2. TDGiven' /\ \A n : IsIgnored(n)' <=> IsIgnored(n)
    BY <1>1, TDGivenStays, ShapesStay DEF TDInv
  <1>3. Counters'
    BY <1>1 DEF TDInv, Counters
  <1>4. TDMarks' /\ TDPhases' /\ Aims' /\ TDForest'
    BY <1>1 DEF TDInv, TDMarks, TDPhases, Aims, TDForest
  <1>5. TDTree' /\ Counted'
    BY <1>1, TDTreeKept, CountedKept DEF TDInv
  <1>6. TDLists'
    <2>1. \A n \in Net : ~Searched(n)
      BY <1>1 DEF Searched
    <2>2. QED
      BY <1>1, <2>1, TDListsKept DEF TDInv
  <1>7. ASSUME NEW n \in Net, ~IsIgnored(n)
        PROVE  path[n] # <<>>
    <2>1. PICK i \in DOMAIN NetSeq : NetSeq[i] = n
      BY NetlistAssumption DEF ElemsOf
    <2>2. i \in 1..(idx - 1)
      <3>1. idx > Len(NetSeq) /\ idx \in Nat /\ Len(NetSeq) \in Nat /\ i \in 1..Len(NetSeq)
        BY <1>1, <2>1, NetlistAssumption DEF TDInv, Counters
      <3>2. QED
        BY <3>1
    <2>3. QED
      BY <1>1, <1>7, <2>1, <2>2 DEF TDInv, TDLists
  <1>8. \A p : Pips(p)' = Pips(p)
    <2>1. \A x : IsSink(x)' <=> IsSink(x)
      BY <1>1, ShapesStay
    <2>2. QED
      BY <2>1 DEF Pips
  <1>9. pips' = [n \in Net |-> Pips(path[n])]
    <2> SUFFICES ASSUME NEW n \in Net
                 PROVE  (IF path[n] = <<>> THEN pips[n]
                         ELSE IF IsPartial(n) THEN Pips(path[n]) ELSE pips[n] \cup Pips(path[n]))
                          = Pips(path[n])
      BY <1>1
    <2>1. pips[n] = {}
      BY <1>1 DEF TDInv, TDSaved
    <2>2. Pips(<<>>) = {}
      BY DEF Pips
    <2>3. QED
      BY <2>1, <2>2
  <1>10. TDSaved'
    <2>1. [n \in Net |-> Pips(path[n])]' = [n \in Net |-> Pips(path[n])]
      <3>1. \A x : IsSink(x)' <=> IsSink(x)
        BY <1>1, ShapesStay
      <3>2. QED
        BY <1>1, <3>1 DEF Pips
    <2>2. Feasible'
      BY <1>1 DEF Feasible, Overused
    <2>3. QED
      BY <1>1, <1>2, <1>7, <1>9, <2>1, <2>2 DEF TDSaved
  <1>11. QED
    BY <1>2, <1>3, <1>4, <1>5, <1>6, <1>10 DEF TDInv

(* The next iteration starts at the first net with dearer nodes.           *)
LEMMA TDNextIterationKeeps ==
  ASSUME TDInv, TDNextIteration
  PROVE  TDInv'
  <1>1. /\ pc = "net" /\ spc = "idle" /\ idx' = 1 /\ itry' = itry + 1
        /\ presFac' = IF itry = 1 THEN InitPresFac ELSE presFac * PresFacMult
        /\ hist' = IF itry = 1 THEN hist ELSE [x \in Node |-> HistCost(x)]
        /\ pres' = [x \in Node |->
                      IF occ[x] >= Capacity[x] THEN 2 + (occ[x] + 1 - Capacity[x]) * presFac'
                                               ELSE pres[x]]
        /\ (pc' = "net" /\ result' = result) \/ (pc' = "done" /\ result' = "congested")
        /\ UNCHANGED <<inputs, occ, tarflg, pathCost, prev, mdf, heap, spc, path, pips, tree>>
    <2>1. pc = "net" /\ spc = "idle"
      BY DEF TDNextIteration, TDInv, TDPhases
    <2>2. (pc' = pc /\ result' = result) \/ (pc' = "done" /\ result' = "congested")
      BY DEF TDNextIteration
    <2>3. /\ UNCHANGED <<inputs, occ, tarflg, pathCost, prev, mdf, heap, spc, path, pips, tree>>
          /\ idx' = 1 /\ itry' = itry + 1
          /\ presFac' = IF itry = 1 THEN InitPresFac ELSE presFac * PresFacMult
      BY DEF TDNextIteration, inputs, nodeMarks, searchVars
    <2>4. /\ hist' = IF itry = 1 THEN hist ELSE [x \in Node |-> HistCost(x)]
          /\ pres' = [x \in Node |->
                        IF occ[x] >= Capacity[x] THEN 2 + (occ[x] + 1 - Capacity[x]) * presFac'
                                                 ELSE pres[x]]
      BY Zenon DEF TDNextIteration
    <2>5. QED
      BY <2>1, <2>2, <2>3, <2>4
  <1>2. TDGiven' /\ result = "none"
    BY <1>1, TDGivenStays DEF TDInv, TDSaved
  <1>3. presFac' \in Nat
    BY <1>1, ProductNat, ParamAssumption DEF TDInv, Counters
  <1>4. hist' \in [Node -> Nat]
    <2>1. ASSUME NEW x \in Node, Overused(x)
          PROVE  hist[x] + (occ[x] - Capacity[x]) * HistFac * 2 \in Nat
      <3>1. occ[x] - Capacity[x] \in Nat
        BY <2>1, ParamAssumption DEF Overused, TDInv, Counters
      <3>2. (occ[x] - Capacity[x]) * HistFac \in Nat
        BY <3>1, ProductNat, ParamAssumption
      <3>3. QED
        BY <3>2 DEF TDInv, Counters
    <2>2. \A x \in Node : HistCost(x) \in Nat
      BY <2>1 DEF HistCost, TDInv, Counters
    <2>3. QED
      BY <1>1, <2>2 DEF TDInv, Counters
  <1>5. pres' \in [Node -> Nat]
    <2> SUFFICES ASSUME NEW x \in Node, occ[x] >= Capacity[x]
                 PROVE  2 + (occ[x] + 1 - Capacity[x]) * presFac' \in Nat
      BY <1>1 DEF TDInv, Counters
    <2>1. occ[x] + 1 - Capacity[x] \in Nat
      BY ParamAssumption DEF TDInv, Counters
    <2>2. (occ[x] + 1 - Capacity[x]) * presFac' \in Nat
      BY <2>1, <1>3, ProductNat
    <2>3. QED
      BY <2>2
  <1>6. Counters'
    <2>1. 1 \in 1..(Len(NetSeq) + 1)
      BY NetlistAssumption
    <2>2. QED
      BY <1>1, <1>3, <1>4, <1>5, <2>1 DEF TDInv, Counters
  <1>7. TDMarks' /\ TDPhases' /\ Aims' /\ TDForest'
    BY <1>1 DEF TDInv, TDMarks, TDPhases, Aims, TDForest
  <1>8. TDTree' /\ Counted'
    BY <1>1, TDTreeKept, CountedKept DEF TDInv
  <1>9. TDLists'
    <2>1. \A n \in Net : ~Searched(n)
      BY <1>1 DEF Searched
    <2>2. 1..(idx' - 1) = {}
      BY <1>1
    <2>3. QED
      BY <1>1, <2>1, <2>2, TDListsKept DEF TDInv
  <1>10. TDSaved'
    BY <1>1, <1>2, NothingSaved DEF TDInv
  <1>11. QED
    BY <1>2, <1>6, <1>7, <1>8, <1>9, <1>10 DEF TDInv
-----------------------------------------------------------------------------
(* However the sinks are sorted, they are sorted sinks: each is there once. *)
LEMMA SinkOrderFits ==
  ASSUME NEW n, nets[n].sinks \in Seq(Node),
         \A i, j \in DOMAIN nets[n].sinks : nets[n].sinks[i] = nets[n].sinks[j] => i = j,
         NEW c, NEW s \in SinkOrders(n, c)
  PROVE  /\ s \in Seq(Node) /\ Len(s) \in Nat
         /\ ElemsOf(s) = Sinks(n)
         /\ \A i, j \in 1..Len(s) : s[i] = s[j] => i = j
  <1> DEFINE t == nets[n].sinks
             L == Len(t)
             S == Sinks(n)
             I == ElemsOf(s)
  <1>1. L \in Nat /\ DOMAIN t = 1..L /\ t \in [1..L -> Node] /\ S \subseteq Node
    BY DEF Sinks, ElemsOf
  <1>2. s \in [1..L -> S] /\ \A i, j \in 1..L : i < j => s[i] # s[j]
    <2>1. /\ s \in [DOMAIN t -> S]
          /\ \A i, j \in DOMAIN s : i < j => s[i] # s[j]
      BY Zenon DEF SinkOrders
    <2>2. QED
      BY <1>1, <2>1
  <1>3. \A i, j \in 1..L : s[i] = s[j] => i = j
    BY <1>1, <1>2
  <1>4. s \in Seq(Node) /\ Len(s) = L
    BY <1>1, <1>2
  <1>5. t \in [1..L -> S] /\ (\A x \in S : \E i \in 1..L : t[i] = x)
        /\ \A i, j \in 1..L : t[i] = t[j] => i = j
    BY <1>1 DEF Sinks, ElemsOf
  <1>6. s \in [1..L -> I] /\ (\A x \in I : \E i \in 1..L : s[i] = x) /\ I \in SUBSET S
    BY <1>2 DEF ElemsOf
  <1> HIDE DEF t, L, S, I
  <1>7. IsFiniteSet(1..L)
    BY <1>1, FS_Interval
  <1>8. IsFiniteSet(S) /\ Cardinality(S) = Cardinality(1..L)
    BY <1>5, <1>7, CountedBy
  <1>9. Cardinality(I) = Cardinality(1..L)
    BY <1>3, <1>6, <1>7, CountedBy
  <1>10. I = S
    BY <1>6, <1>8, <1>9, FS_Subset
  <1>11. QED
    BY <1>1, <1>3, <1>4, <1>10 DEF I, S

(* A sink that occurs once gets one flag.                                  *)
LEMMA FlaggedOnce ==
  ASSUME NEW n, nets[n].sinks \in Seq(Node),
         \A i, j \in DOMAIN nets[n].sinks : nets[n].sinks[i] = nets[n].sinks[j] => i = j,
         NEW x, tarflg[x] = 0
  PROVE  MarkedSinks(n, x) = IF x \in Sinks(n) THEN 1 ELSE 0
  <1> DEFINE t == nets[n].sinks
             V == {i \in DOMAIN t : t[i] = x}
  <1>1. MarkedSinks(n, x) = 0 + Cardinality(V)
    BY DEF MarkedSinks
  <1>2. CASE x \in Sinks(n)
    <2>1. PICK i \in DOMAIN t : t[i] = x
      BY <1>2 DEF Sinks, ElemsOf
    <2>2. V = {i}
      BY <2>1
    <2>3. Cardinality(V) = 1
      BY <2>2, FS_Singleton
    <2> HIDE DEF V
    <2>4. QED
      BY <1>1, <1>2, <2>3
  <1>3. CASE x \notin Sinks(n)
    <2>1. V = {}
      BY <1>3 DEF Sinks, ElemsOf
    <2>2. Cardinality(V) = 0
      BY <2>1, FS_EmptySet
    <2> HIDE DEF V
    <2>3. QED
      BY <1>1, <1>3, <2>2
  <1>4. QED
    BY <1>2, <1>3

(* A criticality is one, as long as the engine delivers.                   *)
LEMMA PinCritFits ==
  ASSUME Timed, NEW p \in RoutedPins
  PROVE  PinCrit(p) \in 0..Den
  <1> DEFINE v == Den * Lookup(slack, p)
             q == v \div dmax
             m == MaxCrit - q
  <1>1. dmax \in Nat \ {0} /\ Lookup(slack, p) \in Int
    BY DEF Timed
  <1>2. v \in Int
    BY <1>1, CritAssumption
  <1> HIDE DEF v
  <1>3. q \in Int
    BY <1>1, <1>2
  <1>4. PinCrit(p) = Lesser(Greater(m, 0), MaxCrit)
    BY DEF PinCrit, v
  <1> HIDE DEF q
  <1>5. m \in Int
    BY <1>3, CritAssumption
  <1> HIDE DEF m
  <1>6. QED
    BY <1>4, <1>5, CritAssumption DEF Lesser, Greater

(* Lists P and Q differ at net n, and the counts by what that makes out.   *)
Recounted(P, Q, n) ==
    /\ P \in [Net -> Seq(Node)] /\ Q \in [Net -> Seq(Node)] /\ n \in Net
    /\ \A m \in Net : m # n => Q[m] = P[m]
    /\ \A x \in Node : occ'[x] = occ[x] - Cardinality(PlacesIn(P[n], x))
                                        + Cardinality(PlacesIn(Q[n], x))

(* What UsesMove says of a recount. *)
LEMMA UsesRecounted ==
  ASSUME NEW P, NEW Q, NEW n, Recounted(P, Q, n), NEW x
  PROVE  Cardinality(UsesOf(Q, x)) =
           Cardinality(UsesOf(P, x)) - Cardinality(PlacesIn(P[n], x))
                                     + Cardinality(PlacesIn(Q[n], x))
  <1>1. /\ P \in [Net -> Seq(Node)] /\ Q \in [Net -> Seq(Node)] /\ n \in Net
        /\ \A m \in Net : m # n => Q[m] = P[m]
    BY DEF Recounted
  <1>2. QED
    BY <1>1, UsesMove

(* Lists and counts move together for the net in hand.                     *)
LEMMA CountedMoves ==
  ASSUME UNCHANGED inputs, Counted, NEW P, P = path, NEW Q, Q = path', NEW n, Recounted(P, Q, n)
  PROVE  Counted'
  <1>1. \A x : IsSink(x)' <=> IsSink(x)
    BY ShapesStay
  <1>2. \A x : UsesOf(path, x)' = UsesOf(Q, x)
    BY <1>1 DEF UsesOf, PlacesIn, Fresh
  <1>3. \A x \in Node : occ[x] = Cardinality(UsesOf(P, x))
    BY DEF Counted
  <1>4. \A x \in Node : occ'[x] = Cardinality(UsesOf(Q, x))
    <2> TAKE x \in Node
    <2>1. /\ P \in [Net -> Seq(Node)] /\ Q \in [Net -> Seq(Node)] /\ n \in Net
          /\ \A m \in Net : m # n => Q[m] = P[m]
          /\ occ'[x] = occ[x] - Cardinality(PlacesIn(P[n], x)) + Cardinality(PlacesIn(Q[n], x))
      BY DEF Recounted
    <2>2. Cardinality(UsesOf(Q, x)) = Cardinality(UsesOf(P, x)) - Cardinality(PlacesIn(P[n], x))
                                                           + Cardinality(PlacesIn(Q[n], x))
      BY UsesRecounted
    <2>3. QED
      BY <1>3, <2>1, <2>2
  <1>5. QED
    BY <1>2, <1>4 DEF Counted

(* The lists of the others are not touched by a search.                    *)
LEMMA TDOtherLists ==
  ASSUME UNCHANGED inputs, TDLists, Counters, Cur \in Net, ~IsIgnored(Cur), Cur' = Cur,
         idx' = idx, idx <= Len(NetSeq), pc # "done", spc' # "idle",
         path' \in [Net -> Seq(Node)], \A n \in Net : n # Cur => path'[n] = path[n],
         path'[Cur] = <<>> \/ IsWalk(path'[Cur], nets[Cur].src)
  PROVE  TDLists'
  <1>1. /\ nets' = nets /\ rrg' = rrg /\ \A x : IsSink(x)' <=> IsSink(x)
        /\ \A n : (IsIgnored(n)' <=> IsIgnored(n)) /\ Sinks(n)' = Sinks(n)
    BY ShapesStay
  <1>2. \A n \in Net : path'[n] = <<>> \/ IsWalk(path'[n], nets[n].src)
    BY DEF TDLists
  <1>3. \A n \in Net : IsWalk(path[n], nets[n].src)' <=> IsWalk(path'[n], nets[n].src)
    BY <1>1 DEF IsWalk
  <1>4. \A i \in 1..(idx - 1) : NetSeq[i] # Cur /\ NetSeq[i] \in Net
    <2>1. /\ idx \in Nat /\ idx \in DOMAIN NetSeq
          /\ \A i \in 1..(idx - 1) : i \in DOMAIN NetSeq /\ i # idx
      BY NetlistAssumption DEF Counters
    <2>2. QED
      BY <2>1, NetlistAssumption DEF Cur
  <1>5. \A n \in Net : n # Cur => ~Searched(n)
    BY DEF Searched
  <1>6. \A n \in Net : ~Searched(n)' => n # Cur
    BY DEF Searched
  <1>7. QED
    BY <1>1, <1>2, <1>3, <1>4, <1>5, <1>6 DEF TDLists

(* The tree of the net in hand is one, seen from the next state too.       *)
LEMMA TDTreeMoves ==
  ASSUME UNCHANGED inputs, Cur' = Cur, NEW T, T = tree', NEW p, p = path'[Cur],
         Grows(T), OpensOn(T, p, nets[Cur].src)
  PROVE  TDTree'
  <1>1. nets' = nets /\ rrg' = rrg /\ \A x : IsSink(x)' <=> IsSink(x)
    BY ShapesStay
  <1>2. Grows(tree)'
    BY <1>1 DEF Grows
  <1>3. OpensOn(tree, path[Cur], nets[Cur].src)'
    BY <1>1 DEF OpensOn
  <1>4. QED
    BY <1>2, <1>3 DEF TDTree

(* A net begins with nothing but its source.                               *)
LEMMA TDBeginKeeps ==
  ASSUME TDInv, Timed, TDBegin
  PROVE  TDInv'
  <1>1. /\ pc = "net" /\ idx <= Len(NetSeq) /\ ~IsIgnored(Cur)
        /\ occ' = OccAfter(-1) /\ pres' = PresAfter(occ')
        /\ path' = [path EXCEPT ![Cur] = <<>>]
        /\ segEnd' = 0 /\ sinkIdx' = 1 /\ spc' = "sink" /\ pc' = "search"
        /\ tree' = RootTree(nets[Cur].src)
    BY DEF TDBegin
  <1>2. /\ crit' = [x \in Sinks(Cur) |-> PinCrit(nets[Cur].pinOf[x])]
        /\ order' \in SinkOrders(Cur, crit')
        /\ tarflg' = [x \in Node |-> MarkedSinks(Cur, x)]
    BY Zenon DEF TDBegin
  <1>3. /\ UNCHANGED <<inputs, hist, pathCost, prev, mdf, heap, itry, idx, presFac, result, pips>>
        /\ Cur' = Cur
    BY DEF TDBegin, Cur
  <1>4. /\ spc = "idle" /\ mdf = {} /\ heap = {} /\ \A x \in Node : tarflg[x] = 0
    BY <1>1 DEF TDInv, TDPhases, TDMarks
  <1>5. TDGiven' /\ nets' = nets /\ (\A n : Sinks(n)' = Sinks(n)) /\ \A n : IsIgnored(n)' <=> IsIgnored(n)
    BY <1>3, TDGivenStays, ShapesStay DEF TDInv
  <1>6. /\ Cur \in Net /\ WellPosed(Cur)
        /\ nets[Cur].src \in Node /\ nets[Cur].sinks \in Seq(Node) /\ ~IsSink(nets[Cur].src)
        /\ \A i, j \in DOMAIN nets[Cur].sinks : nets[Cur].sinks[i] = nets[Cur].sinks[j] => i = j
    <2>1. Cur \in Net
      BY <1>1, CurIsNet DEF TDInv
    <2>2. QED
      BY <1>1, <2>1, NetlistAssumption DEF TDInv, TDGiven, Given, Posed, WellPosed
  <1>7. /\ path \in [Net -> Seq(Node)]
        /\ path[Cur] = <<>> \/ IsWalk(path[Cur], nets[Cur].src)
    BY <1>6 DEF TDInv, TDLists
  <1>8. /\ path' \in [Net -> Seq(Node)] /\ path'[Cur] = <<>>
        /\ \A n \in Net : n # Cur => path'[n] = path[n]
    BY <1>1, <1>6, <1>7
  <1>9. Counters'
    <2>1. occ' \in [Node -> Int] /\ pres' \in [Node -> Nat]
      <3>1. -1 \in Int
        OBVIOUS
      <3>2. QED
        BY <1>1, <1>6, <1>7, <3>1, CountingFits DEF TDInv
    <2>2. QED
      BY <1>1, <1>3, <2>1 DEF TDInv, Counters
  <1>10. TDMarks'
    <2>1. \A x \in Node : MarkedSinks(Cur, x) \in Int
      BY <1>4, <1>6, FlaggedOnce
    <2>2. tarflg' \in [Node -> Int]
      BY <1>2, <2>1
    <2>3. QED
      BY <1>1, <1>3, <1>4, <2>2 DEF TDInv, TDMarks
  <1>11. TDPhases' /\ TDForest'
    BY <1>1, <1>3, <1>5 DEF TDPhases, TDForest
  <1>12. Aims'
    <2>1. /\ order' \in Seq(Node) /\ Len(order') \in Nat /\ ElemsOf(order') = Sinks(Cur)
          /\ \A i, j \in 1..Len(order') : order'[i] = order'[j] => i = j
      <3>1. PICK c, s : c = crit' /\ s = order' /\ s \in SinkOrders(Cur, c)
        BY <1>2
      <3>2. /\ s \in Seq(Node) /\ Len(s) \in Nat /\ ElemsOf(s) = Sinks(Cur)
            /\ \A i, j \in 1..Len(s) : s[i] = s[j] => i = j
        BY <1>6, <3>1, SinkOrderFits
      <3>3. QED
        BY <3>1, <3>2
    <2>2. \A x \in Sinks(Cur) : crit'[x] \in 0..Den
      <3> TAKE x \in Sinks(Cur)
      <3>1. nets[Cur].pinOf[x] \in RoutedPins
        BY <1>1, <1>6 DEF RoutedPins
      <3>2. PinCrit(nets[Cur].pinOf[x]) \in 0..Den
        BY <3>1, PinCritFits
      <3>3. QED
        BY <1>2, <3>2
    <2>3. \A x \in Node :
             tarflg'[x] = IF \E i \in 1..Len(order') : order'[i] = x THEN 1 ELSE 0
      <3> TAKE x \in Node
      <3>1. tarflg'[x] = IF x \in Sinks(Cur) THEN 1 ELSE 0
        BY <1>2, <1>4, <1>6, FlaggedOnce
      <3>2. DOMAIN order' = 1..Len(order')
        BY <2>1
      <3>3. x \in Sinks(Cur) <=> \E i \in 1..Len(order') : order'[i] = x
        BY <2>1, <3>2 DEF ElemsOf
      <3>4. QED
        BY <3>1, <3>3
    <2>4. 1 \in 1..(Len(order') + 1) /\ 1..(1 - 1) = {} /\ Len(<<>>) = 0
      BY <2>1
    <2>5. QED
      BY <1>1, <1>3, <1>5, <1>8, <2>1, <2>2, <2>3, <2>4 DEF Aims
  <1>13. TDTree'
    <2>1. PICK T, p : T = tree' /\ p = path'[Cur]
      OBVIOUS
    <2>2. T = RootTree(nets[Cur].src) /\ p = <<>>
      BY <1>1, <1>8, <2>1
    <2>3. Grows(T) /\ OpensOn(T, p, nets[Cur].src)
      BY <1>6, <2>2, RootGrows
    <2>4. QED
      BY <1>3, <2>1, <2>3, TDTreeMoves
  <1>14. TDLists'
    BY <1>1, <1>3, <1>4, <1>6, <1>8, TDOtherLists DEF TDInv
  <1>15. Counted'
    <2>1. PICK P, Q : P = path /\ Q = path'
      OBVIOUS
    <2>2. \A x \in Node : occ'[x] = occ[x] - Cardinality(PlacesIn(P[Cur], x))
                                           + Cardinality(PlacesIn(Q[Cur], x))
      <3> TAKE x \in Node
      <3>1. PlacesIn(Q[Cur], x) = {}
        BY <1>8, <2>1 DEF PlacesIn, Fresh
      <3>2. Cardinality(PlacesIn(Q[Cur], x)) = 0
        BY <3>1, FS_EmptySet
      <3>3. VisitCounts(path[Cur])[x] = Cardinality(PlacesIn(path[Cur], x))
        BY <1>7, PlacesVisited
      <3>4. Cardinality(PlacesIn(path[Cur], x)) \in Nat /\ occ[x] \in Int
        BY <1>6, <1>7, PlacesFinite DEF TDInv, Counters
      <3>5. occ'[x] = occ[x] + (-1) * VisitCounts(path[Cur])[x]
        BY <1>1 DEF OccAfter
      <3>6. QED
        BY <2>1, <3>2, <3>3, <3>4, <3>5
    <2>3. P \in [Net -> Seq(Node)] /\ Q \in [Net -> Seq(Node)] /\ \A n \in Net : n # Cur => Q[n] = P[n]
      BY <1>7, <1>8, <2>1
    <2>4. Recounted(P, Q, Cur)
      BY <1>6, <2>2, <2>3 DEF Recounted
    <2>5. QED
      BY <1>3, <1>6, <2>1, <2>4, CountedMoves DEF TDInv
  <1>16. TDSaved'
    BY <1>1, <1>3, NothingSaved DEF TDInv, TDSaved
  <1>17. QED
    BY <1>5, <1>9, <1>10, <1>11, <1>12, <1>13, <1>14, <1>15, <1>16 DEF TDInv
-----------------------------------------------------------------------------
(* What reaching a sink changes: entry e has it, branch b leads there, and  *)
(* q is the list with the branch.                                          *)
TDReached(e, b, q) ==
    /\ e \in heap /\ e.owner = Target
    /\ prev' = [prev EXCEPT ![e.owner] = e.prev]
    /\ tarflg' = [tarflg EXCEPT ![e.owner] = @ - 1]
    /\ b = BranchTo(e.owner, prev')
    /\ q = path[Cur] \o b
    /\ path' = [path EXCEPT ![Cur] = q]
    /\ tree' = UpdateRouteTree(rrg, tree, b)
    /\ \A x \in Node : occ'[x] = occ[x] + GainOf(q, CountedFrom(segEnd), x)
    /\ \A x \in Node : pres'[x] \in {PresCost(occ'[x], Capacity[x]), pres[x]}
    /\ DOMAIN occ' = Node /\ occ' = [x \in Node |-> occ'[x]]
    /\ DOMAIN pres' = Node /\ pres' = [x \in Node |-> pres'[x]]
    /\ segEnd' = Len(q)

(* TDReachSink does this. *)
LEMMA TDReachSinkDoes ==
  ASSUME TDReachSink
  PROVE  \E e, b, q : TDReached(e, b, q)
  <1> DEFINE f == CountedFrom(segEnd)
  <1>1. PICK e \in heap :
          /\ e.owner = Target
          /\ prev' = [prev EXCEPT ![e.owner] = e.prev]
          /\ tarflg' = [tarflg EXCEPT ![e.owner] = @ - 1]
          /\ LET branch == BranchTo(e.owner, prev')
                 new    == path[Cur] \o branch
                 gain   == [x \in Node |-> GainOf(new, f, x)]
             IN  /\ path' = [path EXCEPT ![Cur] = new]
                 /\ tree' = UpdateRouteTree(rrg, tree, branch)
                 /\ occ' = [x \in Node |-> occ[x] + gain[x]]
                 /\ pres' = [x \in Node |-> IF gain[x] > 0 THEN PresCost(occ'[x], Capacity[x])
                                                           ELSE pres[x]]
                 /\ segEnd' = Len(new)
    BY Zenon DEF TDReachSink, GainOf
  <1> DEFINE b == BranchTo(e.owner, prev')
             q == path[Cur] \o b
             g == [x \in Node |-> GainOf(q, f, x)]
  <1>2. /\ occ' = [x \in Node |-> occ[x] + g[x]]
        /\ pres' = [x \in Node |-> IF g[x] > 0 THEN PresCost(occ'[x], Capacity[x]) ELSE pres[x]]
        /\ path' = [path EXCEPT ![Cur] = q] /\ tree' = UpdateRouteTree(rrg, tree, b)
        /\ segEnd' = Len(q)
    BY <1>1
  <1>3. \A x \in Node : g[x] = GainOf(q, f, x)
    OBVIOUS
  <1> HIDE DEF g
  <1>4. /\ \A x \in Node : occ'[x] = occ[x] + GainOf(q, f, x)
        /\ \A x \in Node : pres'[x] \in {PresCost(occ'[x], Capacity[x]), pres[x]}
        /\ DOMAIN occ' = Node /\ occ' = [x \in Node |-> occ'[x]]
        /\ DOMAIN pres' = Node /\ pres' = [x \in Node |-> pres'[x]]
    BY <1>2, <1>3
  <1>5. TDReached(e, b, q)
    BY <1>1, <1>2, <1>4 DEF TDReached
  <1>6. QED
    BY <1>5

(* The branch that is traced back to the sink leaves the list from a node  *)
(* of the tree.                                                            *)
LEMMA TDBranchLeaves ==
  ASSUME TDInv, spc = "pop", NEW e \in heap, e.owner = Target,
         NEW pv, pv = [prev EXCEPT ![e.owner] = e.prev], NEW b, b = BranchTo(e.owner, pv)
  PROVE  /\ Leaves(path[Cur], b, nets[Cur].src) /\ Along(b)
         /\ \E i \in DOMAIN tree : tree[i].owner = b[1]
         /\ \A i \in 1..(Len(b) - 1) : ~IsSink(b[i])
         /\ Target \in ElemsOf(b)
  <1> DEFINE x == e.owner
             A == mdf \cup {x}
             B == Len(b)
             p == path[Cur]
             s == nets[Cur].src
  <1>1. x \in Node /\ e.prev \in Node \cup {NULL} /\ e.cost \in Int /\ IsSink(x)
    BY TargetFits DEF TDInv, TDMarks, TDEntries
  <1>2. /\ prev \in [Node -> Node \cup {NULL}] /\ mdf \in SUBSET Node
        /\ pv \in [Node -> Node \cup {NULL}]
        /\ \A y \in Node : pv[y] = IF y = x THEN e.prev ELSE prev[y]
    BY <1>1 DEF TDInv, TDMarks
  <1>3. /\ x \notin mdf
        /\ \A y \in mdf : TDLinked(y, prev[y], pathCost[y])
        /\ TDLinked(x, e.prev, e.cost)
        /\ Acyclic(prev, mdf)
    BY DEF TDInv, TDForest
  <1>4. \A y \in A : IF pv[y] = NULL THEN \E i \in DOMAIN tree : tree[i].open /\ tree[i].owner = y
                                     ELSE pv[y] \in mdf /\ y \in rrg.switches[pv[y]]
    BY <1>1, <1>2, <1>3 DEF TDLinked
  <1>5. Acyclic(pv, A)
    <2> DEFINE r == e.prev
    <2>1. r \in mdf \cup {NULL} /\ \A y \in mdf : prev[y] \in mdf \cup {NULL}
      BY <1>3 DEF TDLinked
    <2> HIDE DEF r, x
    <2>2. Acyclic([prev EXCEPT ![x] = r], mdf \cup {x})
      BY <1>1, <1>2, <1>3, <2>1, FirstKeepsAcyclic
    <2>3. pv = [prev EXCEPT ![x] = r]
      BY DEF r, x
    <2> HIDE DEF A
    <2>4. A = mdf \cup {x}
      BY DEF A
    <2>5. QED
      BY <2>2, <2>3, <2>4, Zenon
  <1>6. /\ x \in A /\ A \in SUBSET Node /\ \A y \in A : pv[y] \in A \cup {NULL}
    BY <1>1, <1>2, <1>4
  <1> HIDE DEF A, x
  <1>7. IsBranch(b, x, pv) /\ ElemsOf(b) \subseteq A /\ pv[b[1]] = NULL
    <2>1. x \in Node /\ pv \in [Node -> Node \cup {NULL}]
      BY <1>1, <1>2
    <2>2. b = BranchTo(x, pv)
      BY DEF x
    <2>3. /\ IsBranch(BranchTo(x, pv), x, pv)
          /\ ElemsOf(BranchTo(x, pv)) \subseteq A
          /\ pv[BranchTo(x, pv)[1]] = NULL
      BY <2>1, <1>5, <1>6, BranchIsChain, ZenonT(40)
    <2>4. QED
      BY <2>2, <2>3, Zenon
  <1>8. b \in Seq(Node) /\ B \in Nat /\ B >= 1 /\ DOMAIN b = 1..B /\ b[B] = x
    BY <1>7 DEF IsBranch, NonEmpty
  <1>9. \A i \in 1..B : b[i] \in A /\ b[i] \in ElemsOf(b)
    BY <1>7, <1>8 DEF ElemsOf
  <1>10. WellPosed(Cur) /\ OpensOn(tree, p, s) /\ (p = <<>> \/ IsWalk(p, s))
    BY TDSearching
  <1>11. ASSUME NEW i \in 1..(B - 1)
         PROVE  b[i + 1] \in rrg.switches[b[i]] /\ ~IsSink(b[i])
    <2>1. i \in 1..B /\ i + 1 \in 1..B
      BY <1>8
    <2>2. b[i] \in A /\ b[i + 1] \in A /\ b[i] \in Node /\ b[i] # NULL
      BY <1>6, <1>9, <2>1, NullAssumption
    <2>3. pv[b[i + 1]] = b[i]
      BY <1>7 DEF IsBranch
    <2>4. b[i + 1] \in rrg.switches[b[i]]
      BY <1>4, <2>2, <2>3
    <2>5. QED
      BY <1>10, <2>2, <2>4 DEF WellPosed
  <1>12. PICK i \in DOMAIN tree : tree[i].open /\ tree[i].owner = b[1]
    <2>1. 1 \in 1..B
      BY <1>8
    <2>2. b[1] \in A
      BY <1>9, <2>1
    <2>3. QED
      BY <1>4, <1>7, <2>2
  <1>13. ~IsSink(b[1]) /\ b[1] \in {s} \cup ElemsOf(p)
    BY <1>10, <1>12 DEF OpensOn
  <1>14. IF p = <<>> THEN b[1] = s ELSE b[1] \in ElemsOf(p)
    <2>1. CASE p = <<>>
      BY <1>13, <2>1 DEF ElemsOf
    <2>2. CASE p # <<>>
      <3>1. s \in ElemsOf(p)
        BY <1>10, <2>2 DEF IsWalk, NonEmpty, ElemsOf
      <3>2. QED
        BY <1>13, <2>2, <3>1
    <2>3. QED
      BY <2>1, <2>2
  <1>15. B >= 2 /\ IsSink(b[B])
    <2>1. b[1] # x /\ IsSink(x)
      BY <1>1, <1>13 DEF x
    <2>2. QED
      BY <1>8, <2>1
  <1>16. Leaves(p, b, s)
    BY <1>8, <1>11, <1>14, <1>15 DEF Leaves
  <1>17. Along(b)
    BY <1>8, <1>11, <1>15 DEF Along
  <1>18. Target \in ElemsOf(b)
    <2>1. B \in 1..B
      BY <1>8
    <2>2. x \in ElemsOf(b)
      BY <1>8, <1>9, <2>1
    <2>3. QED
      BY <2>2 DEF x
  <1>19. QED
    BY <1>11, <1>12, <1>16, <1>17, <1>18

(* A sink that is reached is one less to aim at.                           *)
LEMMA AimsOn ==
  ASSUME NEW L \in Nat, NEW o, \A i, j \in 1..L : o[i] = o[j] => i = j,
         NEW k \in 1..L, NEW x
  PROVE  (\E i \in (k + 1)..L : o[i] = x) <=> x # o[k] /\ \E i \in k..L : o[i] = x
  <1>1. \A i \in (k + 1)..L : i \in 1..L /\ i \in k..L /\ i # k
    OBVIOUS
  <1>2. \A i \in k..L : i = k \/ i \in (k + 1)..L
    OBVIOUS
  <1>3. QED
    BY <1>1, <1>2
(* A reached sink moves from the aims to the list, and its branch to list, *)
(* tree and counts.                                                        *)
LEMMA TDReachSinkKeeps ==
  ASSUME TDInv, TDReachSink
  PROVE  TDInv'
  <1>1. PICK e, b, q : TDReached(e, b, q)
    BY TDReachSinkDoes
  <1> DEFINE p == path[Cur]
             s == nets[Cur].src
  <1>2. /\ spc = "pop" /\ spc' = "sink" /\ sinkIdx' = sinkIdx + 1
        /\ heap' = {} /\ mdf' = {}
        /\ pathCost' = [x \in Node |-> IF x \in Cleared(mdf) THEN Huge ELSE pathCost[x]]
        /\ UNCHANGED <<inputs, hist, pc, itry, idx, presFac, result, pips, order, crit>>
        /\ TDKept
    BY DEF TDReachSink, TDKept, loopVars
  <1>3. /\ TDGiven' /\ TDPhases' /\ TDSaved' /\ Cur' = Cur /\ nets' = nets /\ rrg' = rrg
        /\ pc = "search" /\ pc' = "search"
        /\ (occ' \in [Node -> Int] /\ pres' \in [Node -> Nat] => Counters')
        /\ \A n \in Net : Searched(n)' <=> Searched(n)
    BY <1>2, SearchStays
  <1>4. /\ idx <= Len(NetSeq) /\ Cur \in Net /\ ~IsIgnored(Cur) /\ s \in Node
        /\ order \in Seq(Node) /\ Len(order) \in Nat /\ ElemsOf(order) = Sinks(Cur)
        /\ path \in [Net -> Seq(Node)] /\ p \in Seq(Node)
        /\ p = <<>> \/ IsWalk(p, s)
        /\ segEnd = Len(p)
        /\ Grows(tree) /\ OpensOn(tree, p, s)
    BY <1>2, TDSearching
  <1>5. /\ e \in heap /\ e.owner = Target
        /\ prev' = [prev EXCEPT ![e.owner] = e.prev] /\ b = BranchTo(e.owner, prev')
        /\ tarflg' = [tarflg EXCEPT ![e.owner] = @ - 1]
        /\ q = p \o b /\ path' = [path EXCEPT ![Cur] = q]
        /\ tree' = UpdateRouteTree(rrg, tree, b)
        /\ segEnd' = Len(q)
    BY <1>1 DEF TDReached
  <1>6. /\ Target \in Node /\ sinkIdx \in 1..Len(order)
        /\ e.prev \in Node \cup {NULL}
    BY <1>2, <1>5, TargetFits DEF TDInv, TDMarks, TDEntries
  <1>7. /\ Leaves(p, b, s) /\ Along(b)
        /\ \E i \in DOMAIN tree : tree[i].owner = b[1]
        /\ \A i \in 1..(Len(b) - 1) : ~IsSink(b[i])
        /\ Target \in ElemsOf(b)
    <2>1. PICK pv : pv = prev'
      OBVIOUS
    <2>2. pv = [prev EXCEPT ![e.owner] = e.prev] /\ b = BranchTo(e.owner, pv)
      BY <1>5, <2>1
    <2>3. QED
      BY <1>2, <1>5, <2>2, TDBranchLeaves
  <1> HIDE DEF p, s
  <1>8. IsWalk(q, s) /\ q \in Seq(Node) /\ ElemsOf(q) = ElemsOf(p) \cup ElemsOf(b)
    <2>1. IsWalk(p \o b, s)
      BY <1>4, <1>7, AppendKeepsWalk
    <2>2. b \in Seq(Node)
      BY <1>7 DEF Along
    <2>3. ElemsOf(p \o b) = ElemsOf(p) \cup ElemsOf(b) /\ p \o b \in Seq(Node)
      BY <1>4, <2>2, ElemsAppended
    <2>4. QED
      BY <1>5, <2>1, <2>3
  <1>9. /\ path' \in [Net -> Seq(Node)] /\ path'[Cur] = q
        /\ \A n \in Net : n # Cur => path'[n] = path[n]
    BY <1>4, <1>5, <1>8
  <1>10. CountedFrom(segEnd) = BranchStart(Len(p))
    BY <1>4 DEF CountedFrom
  <1>11. ASSUME NEW x \in Node
         PROVE  /\ occ'[x] = occ[x] + GainOf(q, BranchStart(Len(p)), x)
                /\ GainOf(q, BranchStart(Len(p)), x) \in Nat
                /\ Cardinality(PlacesIn(q, x)) = Cardinality(PlacesIn(p, x))
                                                   + GainOf(q, BranchStart(Len(p)), x)
                /\ occ[x] \in Int /\ Cardinality(PlacesIn(p, x)) \in Nat
    <2>1. occ'[x] = occ[x] + GainOf(q, BranchStart(Len(p)), x)
      BY <1>1, <1>10 DEF TDReached
    <2>2. /\ GainOf(p \o b, BranchStart(Len(p)), x) \in Nat
          /\ Cardinality(PlacesIn(p \o b, x)) = Cardinality(PlacesIn(p, x))
                                                  + GainOf(p \o b, BranchStart(Len(p)), x)
      <3>1. s \in Node /\ (p = <<>> \/ IsWalk(p, s)) /\ Leaves(p, b, s)
        BY <1>4, <1>7
      <3>2. QED
        BY <3>1, PlacesAppended, ZenonT(40)
    <2>3. /\ GainOf(q, BranchStart(Len(p)), x) \in Nat
          /\ Cardinality(PlacesIn(q, x)) = Cardinality(PlacesIn(p, x))
                                             + GainOf(q, BranchStart(Len(p)), x)
      BY <1>5, <2>2
    <2>4. occ[x] \in Int /\ Cardinality(PlacesIn(p, x)) \in Nat
      BY <1>4, PlacesFinite DEF TDInv, Counters
    <2>5. QED
      BY <2>1, <2>3, <2>4
  <1>12. Counters'
    <2>1. \A x \in Node : occ'[x] \in Int
      BY <1>11
    <2>2. occ' \in [Node -> Int]
      BY <1>1, <2>1 DEF TDReached
    <2>3. \A x \in Node : pres'[x] \in Nat
      <3> TAKE x \in Node
      <3>1. pres'[x] \in {PresCost(occ'[x], Capacity[x]), pres[x]}
        BY <1>1 DEF TDReached
      <3>2. presFac \in Nat /\ pres[x] \in Nat /\ Capacity[x] \in Nat
        BY ParamAssumption DEF TDInv, Counters
      <3>3. PICK o \in Int : o = occ'[x]
        BY <2>1
      <3>4. PresCost(o, Capacity[x]) \in Nat
        BY <3>2, PresCostNat
      <3>5. QED
        BY <3>1, <3>2, <3>3, <3>4
    <2>4. pres' \in [Node -> Nat]
      BY <1>1, <2>3 DEF TDReached
    <2>5. QED
      BY <1>3, <2>2, <2>4
  <1>13. TDMarks'
    <2>1. pathCost' \in [Node -> Int] /\ \A x \in Node : pathCost'[x] = Huge
      BY <1>2, CostsReset DEF TDInv
    <2>2. tarflg' \in [Node -> Int] /\ prev' \in [Node -> Node \cup {NULL}]
      BY <1>5, <1>6 DEF TDInv, TDMarks
    <2>3. QED
      BY <1>2, <2>1, <2>2, HugeAssumption DEF TDMarks
  <1>14. Aims'
    <2> DEFINE L == Len(order)
               k == sinkIdx
    <2>1. /\ L \in Nat /\ k \in 1..L
          /\ \A i, j \in 1..L : order[i] = order[j] => i = j
          /\ \A x \in Node : tarflg[x] = IF \E i \in k..L : order[i] = x THEN 1 ELSE 0
          /\ \A i \in 1..(k - 1) : order[i] \in ElemsOf(p)
          /\ \A x \in Sinks(Cur) : crit[x] \in 0..Den
      BY <1>3, <1>4, <1>6 DEF TDInv, Aims, p
    <2>2. \A x \in Node : tarflg'[x] = IF x = Target THEN tarflg[x] - 1 ELSE tarflg[x]
      BY <1>5, <1>6 DEF TDInv, TDMarks
    <2>3. \A x \in Node : (\E i \in (k + 1)..L : order[i] = x)
                            <=> x # Target /\ \E i \in k..L : order[i] = x
      <3>1. Target = order[k]
        BY DEF Target
      <3> HIDE DEF L, k
      <3>2. QED
        BY <2>1, <3>1, AimsOn
    <2>4. \E i \in k..L : order[i] = Target
      BY <2>1 DEF Target
    <2>5. \A x \in Node : tarflg'[x] = IF \E i \in (k + 1)..L : order[i] = x THEN 1 ELSE 0
      <3> TAKE x \in Node
      <3>1. CASE x = Target
        BY <2>1, <2>2, <2>3, <2>4, <3>1
      <3>2. CASE x # Target
        BY <2>1, <2>2, <2>3, <3>2
      <3>3. QED
        BY <3>1, <3>2
    <2>6. \A i \in 1..k : order[i] \in ElemsOf(q)
      <3>1. \A i \in 1..k : i \in 1..(k - 1) \/ i = k
        BY <2>1
      <3>2. QED
        BY <1>7, <1>8, <2>1, <3>1 DEF Target
    <2>7. k + 1 \in 1..(L + 1) /\ (k + 1) - 1 = k
      BY <2>1
    <2> HIDE DEF L, k
    <2>8. order' = order /\ sinkIdx' = k + 1 /\ crit' = crit /\ Len(order') = L
          /\ Sinks(Cur)' = Sinks(Cur)
      BY <1>2, <1>3 DEF L, k, Sinks
    <2>9. /\ \A i \in 1..(sinkIdx' - 1) : order[i] \in ElemsOf(q)
          /\ sinkIdx' \in 1..(L + 1)
          /\ \A x \in Node : tarflg'[x] = IF \E i \in sinkIdx'..L : order[i] = x THEN 1 ELSE 0
      BY <2>5, <2>6, <2>7, <2>8
    <2>10. /\ order' \in Seq(Node) /\ ElemsOf(order') = Sinks(Cur)'
           /\ \A i, j \in 1..Len(order') : order'[i] = order'[j] => i = j
           /\ \A x \in Sinks(Cur)' : crit'[x] \in 0..Den
      BY <1>4, <2>1, <2>8
    <2>11. segEnd' = Len(path'[Cur]) /\ \A i \in 1..(sinkIdx' - 1) : order'[i] \in ElemsOf(path'[Cur])
      BY <1>5, <1>9, <2>8, <2>9
    <2>12. QED
      BY <1>2, <1>3, <2>8, <2>9, <2>10, <2>11 DEF Aims
  <1>15. TDTree'
    <2>1. Grows(UpdateRouteTree(rrg, tree, b)) /\ OpensOn(UpdateRouteTree(rrg, tree, b), p \o b, s)
      BY <1>4, <1>7, UpdateGrows DEF TDInv, TDGiven
    <2>2. PICK T, r : T = tree' /\ r = path'[Cur]
      OBVIOUS
    <2>3. Grows(T) /\ OpensOn(T, r, s)
      BY <1>5, <1>9, <2>1, <2>2
    <2>4. QED
      BY <1>2, <1>3, <2>2, <2>3, TDTreeMoves DEF s
  <1>16. TDForest'
    BY <1>2 DEF TDForest
  <1>17. TDLists'
    BY <1>2, <1>3, <1>4, <1>8, <1>9, TDOtherLists DEF TDInv, s
  <1>18. Counted'
    <2>1. PICK P, Q, n : P = path /\ Q = path' /\ n = Cur
      OBVIOUS
    <2>2. P[n] = p /\ Q[n] = q
      BY <1>9, <2>1 DEF p
    <2>3. \A x \in Node : occ'[x] = occ[x] - Cardinality(PlacesIn(P[n], x))
                                           + Cardinality(PlacesIn(Q[n], x))
      BY <1>11, <2>2
    <2>4. P \in [Net -> Seq(Node)] /\ Q \in [Net -> Seq(Node)] /\ \A m \in Net : m # n => Q[m] = P[m]
      BY <1>4, <1>9, <2>1
    <2>5. Recounted(P, Q, n)
      BY <1>4, <2>1, <2>3, <2>4 DEF Recounted
    <2>6. UNCHANGED inputs /\ Counted
      BY <1>2 DEF TDInv
    <2>7. QED
      BY <2>1, <2>5, <2>6, CountedMoves
  <1>19. QED
    BY <1>3, <1>12, <1>13, <1>14, <1>15, <1>16, <1>17, <1>18 DEF TDInv

(* Whatever the step, of router or engine: the invariant is kept.          *)
LEMMA TDInvStep == TDInv /\ Timed /\ [TDNext]_tdvars => TDInv'
  <1> SUFFICES ASSUME TDInv, Timed, [TDNext]_tdvars
               PROVE  TDInv'
    OBVIOUS
  <1>1. CASE BuildGraph \/ FirstAnalysis \/ TDReturned \/ UNCHANGED tdvars
    <2>1. UNCHANGED <<vars, tree, order, crit>>
      BY <1>1 DEF BuildGraph, FirstAnalysis, TDReturned, tdvars
    <2>2. QED
      BY <2>1, EngineKeeps
  <1>2. QED
    BY <1>1, TDSkipNetKeeps, TDBeginKeeps, TDBeginSinkKeeps, TDPopStaleKeeps, TDPopExpandKeeps,
       TDReachSinkKeeps, TDFailKeeps, TDFinishKeeps, TDSucceedKeeps, TDNextIterationKeeps
       DEF TDNext

-----------------------------------------------------------------------------
(* A finite set of integers has a greatest and a least member.             *)
LEMMA Extremes ==
  ASSUME NEW S \in SUBSET Int, IsFiniteSet(S), S # {}
  PROVE  /\ Max(S) \in S /\ \A y \in S : y <= Max(S)
         /\ Min(S) \in S /\ \A y \in S : Min(S) <= y
  <1> DEFINE Has(R) == (\E x \in R : \A y \in R : x >= y) /\ (\E x \in R : \A y \in R : x =< y)
             T == {n \in Nat : \A R \in SUBSET Int :
                     IsFiniteSet(R) /\ Cardinality(R) = n /\ R # {} => Has(R)}
  <1>1. 0 \in T
    BY FS_EmptySet
  <1>2. ASSUME NEW n \in Nat, n \in T
        PROVE  n + 1 \in T
    <2> SUFFICES ASSUME NEW R \in SUBSET Int, IsFiniteSet(R), Cardinality(R) = n + 1, R # {}
                 PROVE  Has(R)
      OBVIOUS
    <2>1. PICK x \in R : TRUE
      OBVIOUS
    <2>2. PICK Q : Q = R \ {x}
      OBVIOUS
    <2>3. IsFiniteSet(Q) /\ Cardinality(Q) = n /\ Q \in SUBSET Int
      <3>1. IsFiniteSet(Q) /\ Cardinality(Q) = Cardinality(R) - 1
        BY <2>1, <2>2, FS_RemoveElement
      <3>2. Cardinality(R) = n + 1 /\ (n + 1) - 1 = n
        OBVIOUS
      <3>3. QED
        BY <2>2, <3>1, <3>2
    <2>4. CASE Q = {}
      <3>1. R = {x} /\ x \in Int
        BY <2>1, <2>2, <2>4
      <3>2. QED
        BY <3>1
    <2>5. CASE Q # {}
      <3>1. Has(Q)
        BY <1>2, <2>3, <2>5
      <3>2. PICK a \in Q : \A y \in Q : a >= y
        BY <3>1
      <3>3. PICK b \in Q : \A y \in Q : b =< y
        BY <3>1
      <3>4. a \in Int /\ b \in Int /\ x \in Int /\ a \in R /\ b \in R
            /\ \A y \in R : y \in Int /\ (y = x \/ y \in Q)
        BY <2>1, <2>2, <2>3
      <3>5. \E m \in R : \A y \in R : m >= y
        <4>1. CASE a >= x
          BY <3>2, <3>4, <4>1
        <4>2. CASE ~(a >= x)
          <5>1. \A y \in R : x >= y
            BY <3>2, <3>4, <4>2, <2>3
          <5>2. QED
            BY <2>1, <5>1
        <4>3. QED
          BY <4>1, <4>2
      <3>6. \E m \in R : \A y \in R : m =< y
        <4>1. CASE b =< x
          BY <3>3, <3>4, <4>1
        <4>2. CASE ~(b =< x)
          <5>1. \A y \in R : x =< y
            BY <3>3, <3>4, <4>2, <2>3
          <5>2. QED
            BY <2>1, <5>1
        <4>3. QED
          BY <4>1, <4>2
      <3>7. QED
        BY <3>5, <3>6
    <2>6. QED
      BY <2>4, <2>5
  <1>3. Nat \subseteq T
    <2> HIDE DEF T
    <2> QED
      BY <1>1, <1>2, SetInduction
  <1>4. Has(S)
    BY <1>3, FS_CardinalityType
  <1>5. Max(S) \in S /\ \A y \in S : Max(S) >= y
    BY <1>4 DEF Max
  <1>6. Min(S) \in S /\ \A y \in S : Min(S) =< y
    BY <1>4 DEF Min
  <1>7. QED
    BY <1>5, <1>6

(* The value of a step at a place depends on places of lower levels only.  *)
Local(St, lev, N) ==
    \A g, h \in [N -> Int] : \A n \in N :
        (\A m \in N : lev[m] < lev[n] => g[m] = h[m]) => St[g][n] = St[h][n]

HasFixed(St, N) == \E f \in [N -> Int] : \A n \in N : f[n] = St[f][n]

(* Such a step has a fixed point.                                          *)
LEMMA LevelFixed ==
  ASSUME NEW N, NEW B \in Nat, NEW lev \in [N -> 0..B], NEW St \in [[N -> Int] -> [N -> Int]],
         Local(St, lev, N)
  PROVE  HasFixed(St, N)
  <1> DEFINE D == [N -> Int]
             Stable(k) == \E g \in D : \A n \in N : lev[n] < k => St[g][n] = g[n]
             S == {k \in Nat : Stable(k)}
  <1>1. 0 \in S
    <2>1. [n \in N |-> 0] \in D /\ \A n \in N : ~(lev[n] < 0)
      OBVIOUS
    <2>2. QED
      BY <2>1
  <1>2. ASSUME NEW k \in Nat, k \in S
        PROVE  k + 1 \in S
    <2>1. PICK g \in D : \A n \in N : lev[n] < k => St[g][n] = g[n]
      BY <1>2
    <2>2. PICK h \in D : h = St[g]
      OBVIOUS
    <2>3. ASSUME NEW n \in N, lev[n] < k + 1
          PROVE  St[h][n] = h[n]
      <3>1. \A m \in N : lev[m] < lev[n] => lev[m] < k
        BY <2>3
      <3>2. \A m \in N : lev[m] < lev[n] => g[m] = h[m]
        BY <2>1, <2>2, <3>1
      <3>3. St[g][n] = St[h][n]
        BY <3>2 DEF Local
      <3>4. QED
        BY <2>2, <3>3
    <2>4. QED
      BY <2>3
  <1>3. Nat \subseteq S
    <2> HIDE DEF S
    <2> QED
      BY <1>1, <1>2, SetInduction
  <1>4. Stable(B + 1)
    BY <1>3
  <1>5. PICK g \in D : \A n \in N : lev[n] < B + 1 => St[g][n] = g[n]
    BY <1>4
  <1>6. QED
    BY <1>5 DEF HasFixed
-----------------------------------------------------------------------------
(* s lists the nodes N of a graph with the edges E, each node after all    *)
(* that it leads to.                                                       *)
Sorts(s, N, E) ==
    /\ s \in Seq(N)
    /\ \A n \in N : \E k \in 1..Len(s) : s[k] = n
    /\ \A e \in E : \A i, j \in 1..Len(s) : s[i] = e[1] /\ s[j] = e[2] => j < i

Arrivals(N) == [arr : [N -> [0..0 -> Int]], max : [0..0 -> Int]]

(* Arrivals s, once the nodes P have pushed theirs over the edges E with   *)
(* the delays w.                                                           *)
Pushed(s, P, N, E, w) ==
    /\ s \in Arrivals(N)
    /\ s.max[0] >= 0
    /\ \A e \in E : s.arr[e[2]][0] >= MinTime
    /\ \A n \in P : s.arr[n][0] <= s.max[0]
    /\ \A n \in P : (\A e \in E : e[2] # n) => s.arr[n][0] = 0
    /\ \A e \in E : e[1] \in P => s.arr[e[2]][0] >= s.arr[e[1]][0] + w[e]

(* Arrivals t come of s by pushing v from n. *)
PushedFrom(t, s, n, v, N, E, w) ==
    /\ t \in Arrivals(N)
    /\ t.max[0] = Greater(s.max[0], v)
    /\ t.arr[n][0] = v
    /\ \A m \in N : m # n /\ <<n, m>> \in E =>
         t.arr[m][0] = Greater(s.arr[m][0], v + w[<<n, m>>])
    /\ \A m \in N : m # n /\ <<n, m>> \notin E => t.arr[m][0] = s.arr[m][0]

(* What a node pushes. *)
LEMMA PushedOnce ==
  ASSUME NEW N, NEW E \in SUBSET (N \X N), E = DOMAIN edelay, NEW w \in [E -> Int],
         NEW dom, \A n \in N : dom[n] = 0, NEW s \in Arrivals(N), NEW n \in N,
         NEW t, t = PushArrivals(s, n, w, dom), NEW v,
         (\A e \in E : e[2] # n) => v = 0, (\E e \in E : e[2] = n) => v = s.arr[n][0]
  PROVE  PushedFrom(t, s, n, v, N, E, w)
  <1> DEFINE from == IF InEdges(n) = {} THEN [s.arr[n] EXCEPT ![dom[n]] = 0] ELSE s.arr[n]
             doms == DOMAIN from
             mx   == [d \in doms |-> Greater(s.max[d], from[d])]
             to(m) == IF m = n THEN from
                      ELSE IF <<n, m>> \in DOMAIN w
                      THEN [d \in doms |-> Greater(s.arr[m][d], from[d] + w[<<n, m>>])]
                      ELSE s.arr[m]
             ar   == [m \in DOMAIN s.arr |-> to(m)]
  <1>1. t = [max |-> mx, arr |-> ar]
    BY DEF PushArrivals
  <1>2. /\ s.arr \in [N -> [0..0 -> Int]] /\ s.max \in [0..0 -> Int] /\ DOMAIN s.arr = N
        /\ 0 \in 0..0 /\ \A d \in 0..0 : d = 0
    BY DEF Arrivals
  <1>3. InEdges(n) = {} <=> \A e \in E : e[2] # n
    BY DEF InEdges
  <1>4. from \in [0..0 -> Int] /\ from[0] = v
    <2>1. CASE InEdges(n) = {}
      <3>1. from = [s.arr[n] EXCEPT ![0] = 0] /\ v = 0
        BY <2>1, <1>3
      <3>2. s.arr[n] \in [0..0 -> Int]
        BY <1>2
      <3>3. QED
        BY <3>1, <3>2, <1>2
    <2>2. CASE InEdges(n) # {}
      <3>1. from = s.arr[n] /\ v = s.arr[n][0]
        BY <2>2, <1>3
      <3>2. s.arr[n] \in [0..0 -> Int]
        BY <1>2
      <3>3. QED
        BY <3>1, <3>2
    <2>3. QED
      BY <2>1, <2>2
  <1> HIDE DEF from
  <1>5. doms = 0..0 /\ DOMAIN w = E /\ v \in Int
    BY <1>4
  <1>6. mx \in [0..0 -> Int] /\ mx[0] = Greater(s.max[0], v)
    <2>1. \A d \in 0..0 : Greater(s.max[d], from[d]) \in Int
      BY <1>2, <1>4 DEF Greater
    <2>2. QED
      BY <2>1, <1>2, <1>4, <1>5
  <1>7. ASSUME NEW m \in N
        PROVE  /\ to(m) \in [0..0 -> Int]
               /\ m = n => to(m)[0] = v
               /\ m # n /\ <<n, m>> \in E => to(m)[0] = Greater(s.arr[m][0], v + w[<<n, m>>])
               /\ m # n /\ <<n, m>> \notin E => to(m)[0] = s.arr[m][0]
    <2>1. CASE m = n
      BY <2>1, <1>4
    <2>2. CASE m # n /\ <<n, m>> \notin E
      BY <2>2, <1>2, <1>5
    <2>3. CASE m # n /\ <<n, m>> \in E
      <3>1. to(m) = [d \in 0..0 |-> Greater(s.arr[m][d], from[d] + w[<<n, m>>])]
        BY <2>3, <1>5
      <3>2. w[<<n, m>>] \in Int /\ s.arr[m] \in [0..0 -> Int]
        BY <2>3, <1>2
      <3>3. \A d \in 0..0 : Greater(s.arr[m][d], from[d] + w[<<n, m>>]) \in Int
        BY <3>2, <1>4 DEF Greater
      <3>4. QED
        BY <2>3, <3>1, <3>3, <1>2, <1>4
    <2>4. QED
      BY <2>1, <2>2, <2>3
  <1> HIDE DEF to, mx
  <1>8. ar \in [N -> [0..0 -> Int]] /\ \A m \in N : ar[m] = to(m)
    BY <1>2, <1>7
  <1> HIDE DEF ar
  <1>9. t \in Arrivals(N) /\ t.max = mx /\ t.arr = ar
    BY <1>1, <1>6, <1>8 DEF Arrivals
  <1>10. \A m \in N : t.arr[m] = to(m)
    BY <1>8, <1>9
  <1>11. t.arr[n][0] = v /\ t.max[0] = Greater(s.max[0], v)
    BY <1>6, <1>7, <1>9, <1>10
  <1>12. ASSUME NEW m \in N, m # n
         PROVE  /\ <<n, m>> \in E => t.arr[m][0] = Greater(s.arr[m][0], v + w[<<n, m>>])
                /\ <<n, m>> \notin E => t.arr[m][0] = s.arr[m][0]
    <2>1. t.arr[m][0] = to(m)[0]
      BY <1>10
    <2>2. QED
      BY <2>1, <1>7, <1>12
  <1>13. QED
    BY <1>9, <1>11, <1>12 DEF PushedFrom

(* Another node has pushed. *)
LEMMA PushedMore ==
  ASSUME NEW N, NEW E \in SUBSET (N \X N), E = DOMAIN edelay, NEW w \in [E -> Int],
         NEW dom, \A n \in N : dom[n] = 0,
         NEW P \in SUBSET N, NEW s, Pushed(s, P, N, E, w),
         NEW n \in N, \A e \in E : e[1] = n => e[2] # n /\ e[2] \notin P,
         MinTime \in Int
  PROVE  Pushed(PushArrivals(s, n, w, dom), P \cup {n}, N, E, w)
  <1>1. PICK t : t = PushArrivals(s, n, w, dom)
    OBVIOUS
  <1>2. PICK v : ((\A e \in E : e[2] # n) => v = 0) /\ ((\E e \in E : e[2] = n) => v = s.arr[n][0])
    OBVIOUS
  <1>3. s \in Arrivals(N)
    BY DEF Pushed
  <1>4. /\ t \in Arrivals(N)
        /\ t.max[0] = Greater(s.max[0], v)
        /\ t.arr[n][0] = v
        /\ \A m \in N : m # n /\ <<n, m>> \in E =>
             t.arr[m][0] = Greater(s.arr[m][0], v + w[<<n, m>>])
        /\ \A m \in N : m # n /\ <<n, m>> \notin E => t.arr[m][0] = s.arr[m][0]
    <2>1. PushedFrom(t, s, n, v, N, E, w)
      BY <1>1, <1>2, <1>3, PushedOnce
    <2>2. QED
      BY <2>1 DEF PushedFrom
  <1>5. /\ \A m \in N : s.arr[m][0] \in Int /\ t.arr[m][0] \in Int
        /\ s.max[0] \in Int /\ t.max[0] \in Int /\ v \in Int
    <2>1. \A r \in Arrivals(N) : r.max[0] \in Int /\ \A m \in N : r.arr[m][0] \in Int
      BY DEF Arrivals
    <2>2. QED
      BY <2>1, <1>2, <1>3, <1>4
  <1>6. \A e \in E : e[1] \in N /\ e[2] \in N /\ e = <<e[1], e[2]>> /\ w[e] \in Int
    OBVIOUS
  <1>7. t.max[0] >= s.max[0] /\ t.max[0] >= v
    BY <1>4, <1>5 DEF Greater
  <1>8. \A m \in N : m # n => t.arr[m][0] >= s.arr[m][0]
    <2> TAKE m \in N
    <2>1. CASE <<n, m>> \in E
      <3>1. w[<<n, m>>] \in Int
        BY <2>1
      <3>2. QED
        BY <2>1, <3>1, <1>4, <1>5 DEF Greater
    <2>2. CASE <<n, m>> \notin E
      BY <2>2, <1>4, <1>5
    <2>3. QED
      BY <2>1, <2>2
  <1>9. \A m \in P : m # n => t.arr[m][0] = s.arr[m][0]
    <2> TAKE m \in P
    <2>1. <<n, m>> \notin E
      OBVIOUS
    <2>2. QED
      BY <2>1, <1>4
  <1>10. (\E e \in E : e[2] = n) => v = s.arr[n][0]
    BY <1>2
  <1>11. n \in P => v = s.arr[n][0]
    BY <1>2 DEF Pushed
  <1>12. t.max[0] >= 0
    BY <1>5, <1>7 DEF Pushed
  <1>13. \A e \in E : t.arr[e[2]][0] >= MinTime
    <2> TAKE e \in E
    <2>1. s.arr[e[2]][0] >= MinTime
      BY DEF Pushed
    <2>2. t.arr[e[2]][0] >= s.arr[e[2]][0]
      BY <1>4, <1>5, <1>6, <1>8, <1>10
    <2>3. QED
      BY <2>1, <2>2, <1>5, <1>6
  <1>14. \A m \in P \cup {n} : t.arr[m][0] <= t.max[0]
    <2> TAKE m \in P \cup {n}
    <2>1. CASE m = n
      BY <2>1, <1>4, <1>7, <1>5
    <2>2. CASE m # n
      <3>1. s.arr[m][0] <= s.max[0] /\ t.arr[m][0] = s.arr[m][0] /\ m \in N
        BY <2>2, <1>9 DEF Pushed
      <3>2. QED
        BY <3>1, <1>5, <1>7
    <2>3. QED
      BY <2>1, <2>2
  <1>15. \A m \in P \cup {n} : (\A e \in E : e[2] # m) => t.arr[m][0] = 0
    BY <1>2, <1>4, <1>9 DEF Pushed
  <1>16. \A e \in E : e[1] \in P \cup {n} => t.arr[e[2]][0] >= t.arr[e[1]][0] + w[e]
    <2> SUFFICES ASSUME NEW e \in E, e[1] \in P \cup {n}
                 PROVE  t.arr[e[2]][0] >= t.arr[e[1]][0] + w[e]
      OBVIOUS
    <2>1. CASE e[1] = n
      <3>1. e[2] # n /\ e = <<n, e[2]>> /\ e[2] \in N
        BY <2>1, <1>6
      <3>2. t.arr[e[2]][0] = Greater(s.arr[e[2]][0], v + w[e])
        BY <3>1, <1>4
      <3>3. QED
        BY <2>1, <3>1, <3>2, <1>4, <1>5, <1>6 DEF Greater
    <2>2. CASE e[1] # n
      <3>1. e[1] \in P /\ t.arr[e[1]][0] = s.arr[e[1]][0]
        BY <2>2, <1>9
      <3>2. s.arr[e[2]][0] >= s.arr[e[1]][0] + w[e]
        BY <3>1 DEF Pushed
      <3>3. t.arr[e[2]][0] >= s.arr[e[2]][0]
        BY <1>4, <1>5, <1>6, <1>8, <1>10
      <3>4. QED
        BY <3>1, <3>2, <3>3, <1>5, <1>6
    <2>3. QED
      BY <2>1, <2>2
  <1>17. QED
    BY <1>1, <1>4, <1>12, <1>13, <1>14, <1>15, <1>16 DEF Pushed

(* compute_tarr: after it all nodes have pushed.                           *)
LEMMA ArrivalsComputed ==
  ASSUME NEW N, N = TNodes, NEW E \in SUBSET (N \X N), E = DOMAIN edelay, NEW w \in [E -> Int],
         NEW dom, \A n \in N : dom[n] = 0, MinTime \in Int, Sorts(sorted, N, E),
         NEW a, a = [arr |-> [n \in TNodes |-> Grown(arr[n], 1, MinTime)],
                     max |-> Grown(maxd, 1, 0)],
         Pushed(a, {}, N, E, w)
  PROVE  Pushed(ComputeTArr(w, dom, 1), N, N, E, w)
  <1> DEFINE L       == Len(sorted)
             D       == Arrivals(N)
             Up(s, k) == PushArrivals(s, sorted[L + 1 - k], w, dom)
             G       == [k \in Nat |-> [s \in D |-> IF k \in 1..L THEN Up(s, k) ELSE s]]
             Def(h)  == h = [k \in 0..L |-> IF k = 0 THEN a ELSE Up(h[k - 1], k)]
             h       == CHOOSE g : Def(g)
             Late(k) == {sorted[L + 1 - j] : j \in 1..k}
  <1>1. L \in Nat /\ \A k \in 1..L : sorted[L + 1 - k] \in N
    <2>1. sorted \in Seq(N)
      BY DEF Sorts
    <2>2. L \in Nat /\ \A i \in 1..L : sorted[i] \in N
      BY <2>1
    <2>3. \A k \in 1..L : L + 1 - k \in 1..L
      BY <2>2
    <2>4. QED
      BY <2>2, <2>3
  <1>2. a \in D
    BY DEF Pushed
  <1>3. \A k \in 1..L : \A s \in D : Up(s, k) \in D
    <2> TAKE k \in 1..L
    <2> TAKE s \in D
    <2>1. PICK n \in N : n = sorted[L + 1 - k]
      BY <1>1
    <2>2. PICK v : ((\A e \in E : e[2] # n) => v = 0) /\ ((\E e \in E : e[2] = n) => v = s.arr[n][0])
      OBVIOUS
    <2>3. PICK t : t = PushArrivals(s, n, w, dom)
      OBVIOUS
    <2>4. PushedFrom(t, s, n, v, N, E, w)
      BY <2>2, <2>3, PushedOnce
    <2>5. QED
      BY <2>1, <2>3, <2>4 DEF PushedFrom
  <1>4. ComputeTArr(w, dom, 1) = h[L]
    BY DEF ComputeTArr
  <1>5. \A k \in 1..L : \A s : Pushed(s, Late(k - 1), N, E, w) => Pushed(Up(s, k), Late(k), N, E, w)
    <2> SUFFICES ASSUME NEW k \in 1..L, NEW s, Pushed(s, Late(k - 1), N, E, w)
                 PROVE  Pushed(Up(s, k), Late(k), N, E, w)
      OBVIOUS
    <2>1. PICK n \in N : n = sorted[L + 1 - k]
      BY <1>1
    <2>2. PICK P : P = Late(k - 1)
      OBVIOUS
    <2>3. P \in SUBSET N
      <3>1. \A j \in 1..(k - 1) : j \in 1..L
        BY <1>1
      <3>2. QED
        BY <2>2, <3>1, <1>1
    <2>4. Late(k) = P \cup {n}
      <3>1. 1..k = (1..(k - 1)) \cup {k}
        BY <1>1
      <3>2. QED
        BY <2>1, <2>2, <3>1
    <2>5. \A e \in E : e[1] = n => e[2] # n /\ e[2] \notin P
      <3> SUFFICES ASSUME NEW e \in E, e[1] = n, e[2] = n \/ e[2] \in P
                   PROVE  FALSE
        OBVIOUS
      <3>1. PICK j \in 1..k : e[2] = sorted[L + 1 - j]
        BY <2>1, <2>4, <1>1
      <3>2. L + 1 - k \in 1..L /\ L + 1 - j \in 1..L /\ L + 1 - k <= L + 1 - j
        BY <1>1
      <3>3. L + 1 - j < L + 1 - k
        BY <2>1, <3>1, <3>2 DEF Sorts
      <3>4. QED
        BY <3>2, <3>3, <1>1
    <2> HIDE DEF Late
    <2>6. Pushed(s, P, N, E, w)
      BY <2>2
    <2>7. Pushed(PushArrivals(s, n, w, dom), P \cup {n}, N, E, w)
      BY <2>3, <2>5, <2>6, PushedMore
    <2>8. QED
      BY <2>1, <2>4, <2>7
  <1>6. Late(0) = {} /\ Late(L) = N
    <2>1. \A n \in N : \E j \in 1..L : sorted[L + 1 - j] = n
      <3> TAKE n \in N
      <3>1. PICK i \in 1..L : sorted[i] = n
        BY DEF Sorts
      <3>2. L + 1 - i \in 1..L /\ L + 1 - (L + 1 - i) = i
        BY <1>1
      <3>3. QED
        BY <3>1, <3>2
    <2>2. QED
      BY <2>1, <1>1
  <1> HIDE DEF Up, L, Late, D
  <1>7. G \in [Nat -> [D -> D]]
    BY <1>1, <1>3
  <1>8. \E f : Iterates(f, D, a, G, L)
    <2> HIDE DEF G, Def, h
    <2> QED
      BY <1>7, <1>2, <1>1, IterateExists
  <1>9. PICK f \in [0..L -> D] : f[0] = a /\ \A k \in 1..L : f[k] = Up(f[k - 1], k)
    <2>1. \A k \in 1..L : k \in Nat /\ k - 1 \in 0..L
      BY <1>1
    <2>2. QED
      BY <1>8, <1>1, <2>1 DEF Iterates
  <1>10. Def(f)
    <2>1. f = [k \in 0..L |-> f[k]]
      OBVIOUS
    <2>2. \A k \in 0..L : f[k] = (IF k = 0 THEN a ELSE Up(f[k - 1], k))
      BY <1>9, <1>1
    <2>3. QED
      BY <2>1, <2>2
  <1>11. Def(h)
    <2> HIDE DEF Def
    <2> QED
      BY <1>10
  <1> HIDE DEF h
  <1>12. h[0] = a /\ \A k \in 1..L : h[k] = Up(h[k - 1], k)
    BY <1>11, <1>1
  <1>13. Pushed(h[L], Late(L), N, E, w)
    <2> DEFINE S == {k \in 0..L : Pushed(h[k], Late(k), N, E, w)}
    <2>1. 0 \in S
      <3>1. Pushed(h[0], Late(0), N, E, w)
        BY <1>6, <1>12
      <3>2. QED
        BY <3>1, <1>1
    <2>2. ASSUME NEW k \in 1..L, k - 1 \in S
          PROVE  k \in S
      <3>1. Pushed(h[k - 1], Late(k - 1), N, E, w) /\ k \in 0..L
        BY <2>2, <1>1
      <3>2. Pushed(Up(h[k - 1], k), Late(k), N, E, w)
        BY <3>1, <1>5
      <3>3. Pushed(h[k], Late(k), N, E, w)
        BY <3>2, <1>12
      <3>4. QED
        BY <3>1, <3>3
    <2>3. 0..L \subseteq S
      <3> HIDE DEF S
      <3> QED
        BY <1>1, <2>1, <2>2, BoundedInduction
    <2>4. QED
      BY <2>3, <1>1
  <1>14. QED
    BY <1>4, <1>6, <1>13
-----------------------------------------------------------------------------
(* Required times r, once the nodes P have pulled theirs.                  *)
Pulled(r, P, m, N, E, w) ==
    /\ r \in [N -> Int]
    /\ \A n \in P : (\A e \in E : e[1] # n) => r[n] = m
    /\ \A e \in E : e[1] \in P => r[e[1]] <= r[e[2]] - w[e]

(* Required times t come of r by pulling at n. *)
PulledFrom(t, r, n, m, N, E, w) ==
    /\ t \in [N -> Int]
    /\ \A x \in N : x # n => t[x] = r[x]
    /\ (\A e \in E : e[1] # n) => t[n] = m
    /\ \A e \in E : e[1] = n => t[n] <= r[e[2]] - w[e]

(* What a node pulls. *)
LEMMA PulledOnce ==
  ASSUME NEW N, NEW E \in SUBSET (N \X N), IsFiniteSet(E), E = DOMAIN edelay,
         NEW w \in [E -> Int], NEW m \in Int, NEW r \in [N -> Int], NEW n \in N,
         NEW t, t = PullRequired(r, n, w, m)
  PROVE  PulledFrom(t, r, n, m, N, E, w)
  <1> DEFINE O == OutEdges(n)
             f == [e \in O |-> r[e[2]] - w[e]]
             U == {r[e[2]] - w[e] : e \in O}
             V == {r[n]} \cup U
  <1>1. O \in SUBSET E /\ \A e \in E : e[1] = n <=> e \in O
    BY DEF OutEdges
  <1>2. \A e \in E : r[e[2]] - w[e] \in Int
    <2> TAKE e \in E
    <2>1. e[2] \in N /\ w[e] \in Int
      OBVIOUS
    <2>2. r[e[2]] \in Int
      BY <2>1
    <2>3. QED
      BY <2>1, <2>2
  <1>3. t = [r EXCEPT ![n] = IF O = {} THEN m ELSE Min({r[n]} \cup {r[e[2]] - w[e] : e \in O})]
    BY DEF PullRequired
  <1>4. IsFiniteSet(O)
    BY <1>1, FS_Subset
  <1> HIDE DEF O
  <1>5. IsFiniteSet(U)
    <2>1. f \in [O -> U] /\ \A u \in U : \E e \in O : f[e] = u
      OBVIOUS
    <2> HIDE DEF f, U
    <2>2. QED
      BY <1>4, <2>1, ValuesFinite
  <1>6. V \in SUBSET Int /\ V # {}
    BY <1>1, <1>2
  <1>7. IsFiniteSet(V)
    <2>1. V = U \cup {r[n]}
      OBVIOUS
    <2> HIDE DEF U, V
    <2>2. QED
      BY <1>5, <2>1, FS_AddElement
  <1>8. Min(V) \in Int /\ \A y \in V : Min(V) <= y
    <2> HIDE DEF V
    <2> QED
      BY <1>6, <1>7, Extremes
  <1>9. CASE O = {}
    <2>1. t = [r EXCEPT ![n] = m]
      BY <1>3, <1>9
    <2>2. QED
      BY <2>1, <1>1, <1>9 DEF PulledFrom
  <1>10. CASE O # {}
    <2>1. t = [r EXCEPT ![n] = Min(V)]
      BY <1>3, <1>10
    <2>2. PICK q \in Int : q = Min(V)
      BY <1>8
    <2>3. \A e \in O : q <= r[e[2]] - w[e]
      BY <1>8, <2>2
    <2> HIDE DEF V
    <2>4. t = [r EXCEPT ![n] = q]
      BY <2>1, <2>2
    <2>5. \E e \in E : e[1] = n
      BY <1>1, <1>10
    <2>6. QED
      BY <2>3, <2>4, <2>5, <1>1 DEF PulledFrom
  <1>11. QED
    BY <1>9, <1>10

(* Another node has pulled. *)
LEMMA PulledMore ==
  ASSUME NEW N, NEW E \in SUBSET (N \X N), IsFiniteSet(E), E = DOMAIN edelay,
         NEW w \in [E -> Int], NEW m \in Int,
         NEW P \in SUBSET N, NEW r, Pulled(r, P, m, N, E, w),
         NEW n \in N, \A e \in E : e[2] = n => e[1] # n /\ e[1] \notin P
  PROVE  Pulled(PullRequired(r, n, w, m), P \cup {n}, m, N, E, w)
  <1>1. PICK t : t = PullRequired(r, n, w, m)
    OBVIOUS
  <1>2. r \in [N -> Int]
    BY DEF Pulled
  <1>3. /\ t \in [N -> Int]
        /\ \A x \in N : x # n => t[x] = r[x]
        /\ (\A e \in E : e[1] # n) => t[n] = m
        /\ \A e \in E : e[1] = n => t[n] <= r[e[2]] - w[e]
    <2>1. PulledFrom(t, r, n, m, N, E, w)
      BY <1>1, <1>2, PulledOnce
    <2>2. QED
      BY <2>1 DEF PulledFrom
  <1>4. \A x \in P \cup {n} : (\A e \in E : e[1] # x) => t[x] = m
    <2> SUFFICES ASSUME NEW x \in P \cup {n}, \A e \in E : e[1] # x
                 PROVE  t[x] = m
      OBVIOUS
    <2>1. CASE x = n
      BY <2>1, <1>3
    <2>2. CASE x # n
      BY <2>2, <1>3 DEF Pulled
    <2>3. QED
      BY <2>1, <2>2
  <1>5. \A e \in E : e[1] \in P \cup {n} => t[e[1]] <= t[e[2]] - w[e]
    <2> SUFFICES ASSUME NEW e \in E, e[1] \in P \cup {n}
                 PROVE  t[e[1]] <= t[e[2]] - w[e]
      OBVIOUS
    <2>1. e[1] \in N /\ e[2] \in N
      OBVIOUS
    <2>2. e[2] # n
      OBVIOUS
    <2>3. t[e[2]] = r[e[2]]
      BY <2>1, <2>2, <1>3
    <2>4. CASE e[1] = n
      BY <2>3, <2>4, <1>3
    <2>5. CASE e[1] # n
      <3>1. t[e[1]] = r[e[1]]
        BY <2>1, <2>5, <1>3
      <3>2. r[e[1]] <= r[e[2]] - w[e]
        BY <2>5 DEF Pulled
      <3>3. QED
        BY <2>3, <3>1, <3>2
    <2>6. QED
      BY <2>4, <2>5
  <1>6. QED
    BY <1>1, <1>3, <1>4, <1>5 DEF Pulled

(* compute_treq: after it all nodes have pulled.                           *)
LEMMA RequiredComputed ==
  ASSUME NEW N, NEW E \in SUBSET (N \X N), IsFiniteSet(E), E = DOMAIN edelay,
         NEW w \in [E -> Int], NEW m \in Int, NEW a \in [N -> Int], Sorts(sorted, N, E)
  PROVE  Pulled(ComputeTReq(a, w, m), N, m, N, E, w)
  <1> DEFINE L        == Len(sorted)
             D        == [N -> Int]
             Up(s, k) == PullRequired(s, sorted[k], w, m)
             G        == [k \in Nat |-> [s \in D |-> IF k \in 1..L THEN Up(s, k) ELSE s]]
             Def(h)   == h = [k \in 0..L |-> IF k = 0 THEN a ELSE Up(h[k - 1], k)]
             h        == CHOOSE g : Def(g)
             Early(k) == {sorted[j] : j \in 1..k}
  <1>1. L \in Nat /\ \A k \in 1..L : sorted[k] \in N
    BY DEF Sorts
  <1>2. \A k \in 1..L : \A s \in D : Up(s, k) \in D
    <2> TAKE k \in 1..L
    <2> TAKE s \in D
    <2>1. PICK n \in N : n = sorted[k]
      BY <1>1
    <2>2. PICK t : t = PullRequired(s, n, w, m)
      OBVIOUS
    <2>3. PulledFrom(t, s, n, m, N, E, w)
      BY <2>2, PulledOnce
    <2>4. QED
      BY <2>1, <2>2, <2>3 DEF PulledFrom
  <1>3. ComputeTReq(a, w, m) = h[L]
    BY DEF ComputeTReq
  <1>4. \A k \in 1..L : \A s : Pulled(s, Early(k - 1), m, N, E, w) => Pulled(Up(s, k), Early(k), m, N, E, w)
    <2> SUFFICES ASSUME NEW k \in 1..L, NEW s, Pulled(s, Early(k - 1), m, N, E, w)
                 PROVE  Pulled(Up(s, k), Early(k), m, N, E, w)
      OBVIOUS
    <2>1. PICK n \in N : n = sorted[k]
      BY <1>1
    <2>2. PICK P : P = Early(k - 1)
      OBVIOUS
    <2>3. P \in SUBSET N
      <3>1. \A j \in 1..(k - 1) : j \in 1..L
        BY <1>1
      <3>2. QED
        BY <2>2, <3>1, <1>1
    <2>4. Early(k) = P \cup {n}
      <3>1. 1..k = (1..(k - 1)) \cup {k}
        BY <1>1
      <3>2. QED
        BY <2>1, <2>2, <3>1
    <2>5. \A e \in E : e[2] = n => e[1] # n /\ e[1] \notin P
      <3> SUFFICES ASSUME NEW e \in E, e[2] = n, e[1] = n \/ e[1] \in P
                   PROVE  FALSE
        OBVIOUS
      <3>1. PICK j \in 1..k : e[1] = sorted[j]
        BY <2>1, <2>4, <1>1
      <3>2. j \in 1..L /\ j <= k
        BY <1>1
      <3>3. k < j
        BY <2>1, <3>1, <3>2 DEF Sorts
      <3>4. QED
        BY <3>2, <3>3, <1>1
    <2> HIDE DEF Early
    <2>6. Pulled(s, P, m, N, E, w)
      BY <2>2
    <2>7. Pulled(PullRequired(s, n, w, m), P \cup {n}, m, N, E, w)
      BY <2>3, <2>5, <2>6, PulledMore
    <2>8. QED
      BY <2>1, <2>4, <2>7
  <1>5. Early(0) = {} /\ Early(L) = N
    <2>1. \A n \in N : \E j \in 1..L : sorted[j] = n
      BY DEF Sorts
    <2>2. QED
      BY <2>1, <1>1
  <1> HIDE DEF Up, L, Early, D
  <1>6. a \in D
    BY DEF D
  <1>7. G \in [Nat -> [D -> D]]
    BY <1>1, <1>2
  <1>8. \E f : Iterates(f, D, a, G, L)
    <2> HIDE DEF G, Def, h
    <2> QED
      BY <1>7, <1>6, <1>1, IterateExists
  <1>9. PICK f \in [0..L -> D] : f[0] = a /\ \A k \in 1..L : f[k] = Up(f[k - 1], k)
    <2>1. \A k \in 1..L : k \in Nat /\ k - 1 \in 0..L
      BY <1>1
    <2>2. QED
      BY <1>8, <1>1, <2>1 DEF Iterates
  <1>10. Def(f)
    <2>1. f = [k \in 0..L |-> f[k]]
      OBVIOUS
    <2>2. \A k \in 0..L : f[k] = (IF k = 0 THEN a ELSE Up(f[k - 1], k))
      BY <1>9, <1>1
    <2>3. QED
      BY <2>1, <2>2
  <1>11. Def(h)
    <2> HIDE DEF Def
    <2> QED
      BY <1>10
  <1> HIDE DEF h
  <1>12. h[0] = a /\ \A k \in 1..L : h[k] = Up(h[k - 1], k)
    BY <1>11, <1>1
  <1>13. Pulled(h[L], Early(L), m, N, E, w)
    <2> DEFINE S == {k \in 0..L : Pulled(h[k], Early(k), m, N, E, w)}
    <2>1. 0 \in S
      <3>1. Pulled(a, {}, m, N, E, w)
        <4>1. \A e \in E : e[1] \notin {}
          OBVIOUS
        <4>2. QED
          BY <4>1 DEF Pulled
      <3>2. Pulled(h[0], Early(0), m, N, E, w)
        BY <3>1, <1>5, <1>12
      <3>3. QED
        BY <3>2, <1>1
    <2>2. ASSUME NEW k \in 1..L, k - 1 \in S
          PROVE  k \in S
      <3>1. Pulled(h[k - 1], Early(k - 1), m, N, E, w) /\ k \in 0..L
        BY <2>2, <1>1
      <3>2. Pulled(Up(h[k - 1], k), Early(k), m, N, E, w)
        BY <3>1, <1>4
      <3>3. Pulled(h[k], Early(k), m, N, E, w)
        BY <3>2, <1>12
      <3>4. QED
        BY <3>1, <3>3
    <2>3. 0..L \subseteq S
      <3> HIDE DEF S
      <3> QED
        BY <1>1, <2>1, <2>2, BoundedInduction
    <2>4. QED
      BY <2>3, <1>1
  <1>14. QED
    BY <1>3, <1>5, <1>13
-----------------------------------------------------------------------------
(* f is the length of the longest path to a node, or from one. *)
IsTo(f) ==
    f = [n \in TNodes |->
           Max({IF n \in {m \in TNodes : InEdges(m) = {}} THEN 0 ELSE MinTime}
               \cup {f[e[1]] + edelay[e] : e \in {x \in DOMAIN edelay : x[2] = n}})]

IsFrom(f) ==
    f = [n \in TNodes |-> LET S == {f[e[2]] + edelay[e] : e \in OutEdges(n)}
                          IN  IF S = {} THEN 0 ELSE Max(S)]

(* Nodes have levels, such that edges go up in one and down in the other. *)
Levelled(N, E) ==
    \E B \in Nat : \E up, dn \in [N -> 0..B] :
       \A e \in E : up[e[1]] < up[e[2]] /\ dn[e[2]] < dn[e[1]]

(* The nodes have levels, to go by backward or forward. *)
LEMMA SortedLevels ==
  ASSUME NEW N, NEW E \in SUBSET (N \X N), NEW s, Sorts(s, N, E)
  PROVE  Levelled(N, E)
  <1> DEFINE L     == Len(s)
             at(n) == CHOOSE k \in 1..L : s[k] = n
             dn    == [n \in N |-> at(n)]
             up    == [n \in N |-> L - at(n)]
  <1>1. \A n \in N : at(n) \in 1..L /\ s[at(n)] = n
    BY DEF Sorts
  <1>2. L \in Nat
    BY DEF Sorts
  <1>3. \A e \in E : e[1] \in N /\ e[2] \in N /\ at(e[2]) < at(e[1])
    <2> TAKE e \in E
    <2>1. e[1] \in N /\ e[2] \in N
      OBVIOUS
    <2>2. PICK i, j \in 1..L : i = at(e[1]) /\ j = at(e[2]) /\ s[i] = e[1] /\ s[j] = e[2]
      BY <1>1, <2>1
    <2>3. QED
      BY <2>1, <2>2 DEF Sorts
  <1> HIDE DEF at
  <1>4. up \in [N -> 0..L] /\ dn \in [N -> 0..L]
    <2>1. \A n \in N : at(n) \in 0..L /\ L - at(n) \in 0..L
      BY <1>1, <1>2
    <2>2. QED
      BY <2>1
  <1>5. \A e \in E : up[e[1]] < up[e[2]] /\ dn[e[2]] < dn[e[1]]
    <2> TAKE e \in E
    <2>1. e[1] \in N /\ e[2] \in N /\ at(e[2]) < at(e[1]) /\ at(e[1]) \in 1..L /\ at(e[2]) \in 1..L
      BY <1>1, <1>3
    <2>2. QED
      BY <2>1, <1>2
  <1> HIDE DEF up, dn, L
  <1>6. QED
    BY <1>2, <1>4, <1>5 DEF Levelled

(* The timing graph has the nodes N and the edges E. *)
Drawn(N, E) ==
    /\ N = TNodes /\ E = DOMAIN edelay
    /\ E \in SUBSET (N \X N) /\ IsFiniteSet(E)
    /\ edelay \in [E -> Int]
    /\ MinTime \in Int

(* What the edges Q add to numbers at their ends. *)
AtTails(g, Q) == {g[e[1]] + edelay[e] : e \in Q}
AtHeads(g, Q) == {g[e[2]] + edelay[e] : e \in Q}

(* They are finitely many numbers.                                         *)
LEMMA SumsFinite ==
  ASSUME NEW N, NEW E, Drawn(N, E), NEW g \in [N -> Int], NEW Q \in SUBSET E
  PROVE  /\ IsFiniteSet(AtTails(g, Q)) /\ AtTails(g, Q) \in SUBSET Int
         /\ IsFiniteSet(AtHeads(g, Q)) /\ AtHeads(g, Q) \in SUBSET Int
  <1> DEFINE U == {g[e[1]] + edelay[e] : e \in Q}
             W == {g[e[2]] + edelay[e] : e \in Q}
             u == [e \in Q |-> g[e[1]] + edelay[e]]
             v == [e \in Q |-> g[e[2]] + edelay[e]]
  <1>1. \A e \in Q : e[1] \in N /\ e[2] \in N /\ edelay[e] \in Int
    BY DEF Drawn
  <1>2. \A e \in Q : g[e[1]] \in Int /\ g[e[2]] \in Int
    BY <1>1
  <1>3. U \in SUBSET Int /\ W \in SUBSET Int
    BY <1>1, <1>2
  <1>4. IsFiniteSet(Q)
    BY FS_Subset DEF Drawn
  <1>5. u \in [Q -> U] /\ (\A x \in U : \E e \in Q : u[e] = x)
    OBVIOUS
  <1>6. v \in [Q -> W] /\ (\A x \in W : \E e \in Q : v[e] = x)
    OBVIOUS
  <1> HIDE DEF U, W, u, v
  <1>7. IsFiniteSet(U) /\ IsFiniteSet(W)
    BY <1>4, <1>5, <1>6, ValuesFinite
  <1>8. QED
    BY <1>3, <1>7 DEF U, W, AtTails, AtHeads

(* The sorted graph has levels. *)
LEMMA SortedIsLevelled ==
  ASSUME NEW N, NEW E, Drawn(N, E), Sorts(sorted, N, E)
  PROVE  Levelled(N, E)
  <1>1. E \in SUBSET (N \X N)
    BY DEF Drawn
  <1>2. QED
    BY <1>1, SortedLevels, Zenon

(* There are longest paths to every node.                                  *)
LEMMA ToExists ==
  ASSUME NEW N, NEW E, Drawn(N, E), Sorts(sorted, N, E)
  PROVE  \E f \in [N -> Int] : IsTo(f)
  <1>1. E \in SUBSET (N \X N) /\ E = DOMAIN edelay /\ N = TNodes
    BY DEF Drawn
  <1>0. PICK B \in Nat : \E up, dn \in [N -> 0..B] :
           \A e \in E : up[e[1]] < up[e[2]] /\ dn[e[2]] < dn[e[1]]
    <2>1. Levelled(N, E)
      BY SortedIsLevelled, Zenon
    <2>2. QED
      BY <2>1 DEF Levelled
  <1> DEFINE b(n)    == IF n \in {m \in TNodes : InEdges(m) = {}} THEN 0 ELSE MinTime
             In(n)   == {x \in DOMAIN edelay : x[2] = n}
             V(g, n) == {b(n)} \cup AtTails(g, In(n))
             St      == [g \in [N -> Int] |-> [n \in N |-> Max(V(g, n))]]
  <1>2. PICK up, dn \in [N -> 0..B] :
           \A e \in E : up[e[1]] < up[e[2]] /\ dn[e[2]] < dn[e[1]]
    BY <1>0
  <1>3. \A n \in N : b(n) \in Int /\ In(n) \in SUBSET E
    BY <1>1 DEF Drawn
  <1> HIDE DEF b
  <1>4. ASSUME NEW g \in [N -> Int], NEW n \in N
        PROVE  Max(V(g, n)) \in Int
    <2>1. PICK Q \in SUBSET E : Q = In(n)
      BY <1>3
    <2>2. IsFiniteSet(AtTails(g, Q)) /\ AtTails(g, Q) \in SUBSET Int
      BY SumsFinite
    <2>3. PICK U, c : U = AtTails(g, Q) /\ c = b(n)
      OBVIOUS
    <2>4. V(g, n) = U \cup {c}
      BY <2>1, <2>3
    <2>5. IsFiniteSet(U \cup {c})
      BY <2>2, <2>3, FS_AddElement
    <2>6. U \cup {c} \in SUBSET Int /\ U \cup {c} # {}
      BY <2>2, <2>3, <1>3
    <2>7. Max(U \cup {c}) \in U \cup {c}
      BY <2>5, <2>6, Extremes
    <2>8. QED
      BY <2>4, <2>6, <2>7
  <1>5. ASSUME NEW g \in [N -> Int], NEW h \in [N -> Int], NEW n \in N,
               \A m \in N : up[m] < up[n] => g[m] = h[m]
        PROVE  V(g, n) = V(h, n)
    <2>1. \A e \in In(n) : g[e[1]] = h[e[1]]
      <3> TAKE e \in In(n)
      <3>1. e \in E /\ e[1] \in N /\ e[2] = n
        BY <1>1
      <3>2. up[e[1]] < up[n]
        BY <3>1, <1>2
      <3>3. QED
        BY <3>1, <3>2, <1>5
    <2>2. AtTails(g, In(n)) = AtTails(h, In(n))
      BY <2>1 DEF AtTails
    <2>3. QED
      BY <2>2
  <1> HIDE DEF V
  <1>6. \A g \in [N -> Int] : St[g] = [n \in N |-> Max(V(g, n))]
    OBVIOUS
  <1>7. St \in [[N -> Int] -> [N -> Int]]
    BY <1>4
  <1> HIDE DEF St
  <1>8. Local(St, up, N)
    <2> SUFFICES ASSUME NEW g \in [N -> Int], NEW h \in [N -> Int], NEW n \in N,
                        \A m \in N : up[m] < up[n] => g[m] = h[m]
                 PROVE  St[g][n] = St[h][n]
      BY DEF Local
    <2>1. V(g, n) = V(h, n)
      BY <1>5
    <2>2. St[g][n] = Max(V(g, n)) /\ St[h][n] = Max(V(h, n))
      BY <1>6
    <2>3. QED
      BY <2>1, <2>2
  <1>9. PICK f \in [N -> Int] : \A n \in N : f[n] = St[f][n]
    <2>1. HasFixed(St, N)
      BY <1>7, <1>8, LevelFixed
    <2>2. QED
      BY <2>1 DEF HasFixed
  <1>10. f = [n \in N |-> Max(V(f, n))]
    BY <1>6, <1>9
  <1>11. QED
    BY <1>10, <1>1 DEF IsTo, V, b, AtTails

(* An arrival is no earlier than the longest path makes it. *)
LEMMA ToArrives ==
  ASSUME NEW N, NEW E, Drawn(N, E), Sorts(sorted, N, E), MinTime <= 0,
         NEW f, IsTo(f), NEW a \in [N -> Int],
         \A e \in E : a[e[2]] >= MinTime /\ a[e[2]] >= a[e[1]] + edelay[e],
         \A n \in N : (\A e \in E : e[2] # n) => a[n] = 0
  PROVE  \A n \in N : f[n] \in Int /\ f[n] <= a[n]
  <1>1. E \in SUBSET (N \X N) /\ E = DOMAIN edelay /\ N = TNodes /\ MinTime \in Int
        /\ \A e \in E : e[1] \in N /\ e[2] \in N /\ edelay[e] \in Int
    BY DEF Drawn
  <1>0. PICK B \in Nat : \E up, dn \in [N -> 0..B] :
           \A e \in E : up[e[1]] < up[e[2]] /\ dn[e[2]] < dn[e[1]]
    <2>1. Levelled(N, E)
      BY SortedIsLevelled, Zenon
    <2>2. QED
      BY <2>1 DEF Levelled
  <1> DEFINE b(n)    == IF n \in {m \in TNodes : InEdges(m) = {}} THEN 0 ELSE MinTime
             In(n)   == {x \in DOMAIN edelay : x[2] = n}
             U(n)    == {f[e[1]] + edelay[e] : e \in In(n)}
  <1>2. PICK up, dn \in [N -> 0..B] :
           \A e \in E : up[e[1]] < up[e[2]] /\ dn[e[2]] < dn[e[1]]
    BY <1>0
  <1>3. \A n \in N : b(n) \in Int /\ b(n) <= a[n]
    <2> TAKE n \in N
    <2>1. CASE \A e \in E : e[2] # n
      <3>1. InEdges(n) = {} /\ a[n] = 0
        BY <2>1, <1>1 DEF InEdges
      <3>2. b(n) = 0
        BY <3>1, <1>1
      <3>3. QED
        BY <3>1, <3>2
    <2>2. CASE \E e \in E : e[2] = n
      <3>1. InEdges(n) # {} /\ a[n] >= MinTime
        BY <2>2, <1>1 DEF InEdges
      <3>2. b(n) = MinTime
        BY <3>1
      <3>3. QED
        BY <3>1, <3>2, <1>1
    <2>3. QED
      BY <2>1, <2>2
  <1>4. \A n \in N : f[n] = Max({b(n)} \cup U(n))
    BY <1>1 DEF IsTo
  <1> HIDE DEF b
  <1> DEFINE S == {k \in 0..(B + 1) : \A n \in N : up[n] < k => f[n] \in Int /\ f[n] <= a[n]}
  <1>5. 0 \in S
    BY <1>2
  <1>6. ASSUME NEW k \in 1..(B + 1), k - 1 \in S
        PROVE  k \in S
    <2> SUFFICES ASSUME NEW n \in N, up[n] < k
                 PROVE  f[n] \in Int /\ f[n] <= a[n]
      OBVIOUS
    <2>1. \A e \in In(n) : f[e[1]] + edelay[e] \in Int /\ f[e[1]] + edelay[e] <= a[n]
      <3> TAKE e \in In(n)
      <3>1. e \in E /\ e[1] \in N /\ e[2] = n /\ edelay[e] \in Int
        BY <1>1
      <3>2. up[e[1]] < k - 1
        <4>1. up[e[1]] < up[n] /\ up[e[1]] \in Int /\ up[n] \in Int
          BY <3>1, <1>2
        <4>2. QED
          BY <4>1
      <3>3. f[e[1]] \in Int /\ f[e[1]] <= a[e[1]] /\ a[e[1]] \in Int /\ a[n] \in Int
        BY <3>1, <3>2, <1>6
      <3>4. a[n] >= a[e[1]] + edelay[e]
        BY <3>1
      <3>5. QED
        BY <3>1, <3>3, <3>4
    <2>2. U(n) \in SUBSET Int /\ \A u \in U(n) : u <= a[n]
      BY <2>1
    <2>3. IsFiniteSet(U(n))
      <3> DEFINE q == [e \in In(n) |-> f[e[1]] + edelay[e]]
      <3>1. In(n) \in SUBSET E /\ IsFiniteSet(E)
        BY <1>1 DEF Drawn
      <3>2. IsFiniteSet(In(n))
        BY <3>1, FS_Subset
      <3>3. q \in [In(n) -> U(n)] /\ \A u \in U(n) : \E e \in In(n) : q[e] = u
        OBVIOUS
      <3> HIDE DEF q, In, U
      <3>4. QED
        BY <3>2, <3>3, ValuesFinite
    <2> DEFINE W == U(n) \cup {b(n)}
    <2> HIDE DEF U
    <2>4. IsFiniteSet(W) /\ W \in SUBSET Int /\ W # {} /\ \A u \in W : u <= a[n]
      BY <2>2, <2>3, <1>3, FS_AddElement
    <2>5. f[n] = Max(W)
      <3>1. W = {b(n)} \cup U(n)
        OBVIOUS
      <3>2. QED
        BY <3>1, <1>4
    <2> HIDE DEF W
    <2>6. Max(W) \in W
      BY <2>4, Extremes
    <2>7. QED
      BY <2>4, <2>5, <2>6
  <1>7. 0..(B + 1) \subseteq S
    <2>1. B + 1 \in Nat
      OBVIOUS
    <2> HIDE DEF S
    <2>2. \A k \in 1..(B + 1) : k - 1 \in S => k \in S
      BY <1>6
    <2>3. QED
      BY <1>5, <2>1, <2>2, BoundedInduction
  <1>8. B + 1 \in S
    BY <1>7
  <1>9. \A n \in N : up[n] < B + 1
    BY <1>2
  <1>10. QED
    BY <1>8, <1>9

(* There are longest paths from every node.                                *)
LEMMA FromExists ==
  ASSUME NEW N, NEW E, Drawn(N, E), Sorts(sorted, N, E)
  PROVE  \E f \in [N -> Int] : IsFrom(f)
  <1>1. E \in SUBSET (N \X N) /\ E = DOMAIN edelay /\ N = TNodes
    BY DEF Drawn
  <1>0. PICK B \in Nat : \E up, dn \in [N -> 0..B] :
           \A e \in E : up[e[1]] < up[e[2]] /\ dn[e[2]] < dn[e[1]]
    <2>1. Levelled(N, E)
      BY SortedIsLevelled, Zenon
    <2>2. QED
      BY <2>1 DEF Levelled
  <1> DEFINE V(g, n) == AtHeads(g, OutEdges(n))
             T(g, n) == IF V(g, n) = {} THEN 0 ELSE Max(V(g, n))
             St      == [g \in [N -> Int] |-> [n \in N |-> T(g, n)]]
  <1>2. PICK up, dn \in [N -> 0..B] :
           \A e \in E : up[e[1]] < up[e[2]] /\ dn[e[2]] < dn[e[1]]
    BY <1>0
  <1>3. \A n \in N : OutEdges(n) \in SUBSET E
    BY <1>1 DEF OutEdges
  <1>4. ASSUME NEW g \in [N -> Int], NEW n \in N
        PROVE  T(g, n) \in Int
    <2>1. PICK Q \in SUBSET E : Q = OutEdges(n)
      BY <1>3
    <2>2. PICK U : U = V(g, n)
      OBVIOUS
    <2>3. IsFiniteSet(U) /\ U \in SUBSET Int
      BY <2>1, <2>2, SumsFinite
    <2>4. U # {} => Max(U) \in U
      BY <2>3, Extremes
    <2> HIDE DEF V
    <2>5. CASE U = {}
      BY <2>2, <2>5
    <2>6. CASE U # {}
      BY <2>2, <2>3, <2>4, <2>6
    <2>7. QED
      BY <2>5, <2>6
  <1>5. ASSUME NEW g \in [N -> Int], NEW h \in [N -> Int], NEW n \in N,
               \A m \in N : dn[m] < dn[n] => g[m] = h[m]
        PROVE  V(g, n) = V(h, n)
    <2>1. \A e \in OutEdges(n) : g[e[2]] = h[e[2]]
      <3> TAKE e \in OutEdges(n)
      <3>1. e \in E /\ e[2] \in N /\ e[1] = n
        BY <1>1 DEF OutEdges
      <3>2. dn[e[2]] < dn[n]
        BY <3>1, <1>2
      <3>3. QED
        BY <3>1, <3>2, <1>5
    <2>2. AtHeads(g, OutEdges(n)) = AtHeads(h, OutEdges(n))
      BY <2>1 DEF AtHeads
    <2>3. QED
      BY <2>2
  <1>51. \A g, h \in [N -> Int] : \A n \in N : V(g, n) = V(h, n) => T(g, n) = T(h, n)
    OBVIOUS
  <1> HIDE DEF T
  <1>6. \A g \in [N -> Int] : St[g] = [n \in N |-> T(g, n)]
    OBVIOUS
  <1>7. St \in [[N -> Int] -> [N -> Int]]
    BY <1>4
  <1> HIDE DEF St
  <1>8. Local(St, dn, N)
    <2> SUFFICES ASSUME NEW g \in [N -> Int], NEW h \in [N -> Int], NEW n \in N,
                        \A m \in N : dn[m] < dn[n] => g[m] = h[m]
                 PROVE  St[g][n] = St[h][n]
      BY DEF Local
    <2>1. T(g, n) = T(h, n)
      <3>1. V(g, n) = V(h, n)
        BY <1>5
      <3> HIDE DEF V
      <3>2. QED
        BY <3>1, <1>51
    <2>2. St[g][n] = T(g, n) /\ St[h][n] = T(h, n)
      BY <1>6
    <2>3. QED
      BY <2>1, <2>2
  <1>9. PICK f \in [N -> Int] : \A n \in N : f[n] = St[f][n]
    <2>1. HasFixed(St, N)
      BY <1>7, <1>8, LevelFixed
    <2>2. QED
      BY <2>1 DEF HasFixed
  <1>10. f = [n \in N |-> T(f, n)]
    BY <1>6, <1>9
  <1>11. QED
    BY <1>10, <1>1 DEF IsFrom, T, V, AtHeads

(* A required time is no later than the longest path allows.               *)
LEMMA FromRequired ==
  ASSUME NEW N, NEW E, Drawn(N, E), Sorts(sorted, N, E),
         NEW f, IsFrom(f), NEW m \in Int, NEW r, Pulled(r, N, m, N, E, edelay)
  PROVE  \A n \in N : f[n] \in Int /\ r[n] \in Int /\ r[n] <= m - f[n]
  <1>1. E \in SUBSET (N \X N) /\ E = DOMAIN edelay /\ N = TNodes /\ r \in [N -> Int]
        /\ \A e \in E : e[1] \in N /\ e[2] \in N /\ edelay[e] \in Int
    BY DEF Drawn, Pulled
  <1>0. PICK B \in Nat : \E up, dn \in [N -> 0..B] :
           \A e \in E : up[e[1]] < up[e[2]] /\ dn[e[2]] < dn[e[1]]
    <2>1. Levelled(N, E)
      BY SortedIsLevelled, Zenon
    <2>2. QED
      BY <2>1 DEF Levelled
  <1> DEFINE U(n) == {f[e[2]] + edelay[e] : e \in OutEdges(n)}
  <1>2. PICK up, dn \in [N -> 0..B] :
           \A e \in E : up[e[1]] < up[e[2]] /\ dn[e[2]] < dn[e[1]]
    BY <1>0
  <1>3. \A n \in N : OutEdges(n) \in SUBSET E /\ (OutEdges(n) = {} => r[n] = m)
    BY <1>1 DEF OutEdges, Pulled
  <1>4. \A n \in N : f[n] = IF U(n) = {} THEN 0 ELSE Max(U(n))
    BY <1>1 DEF IsFrom
  <1> DEFINE S == {k \in 0..(B + 1) :
                     \A n \in N : dn[n] < k => f[n] \in Int /\ f[n] <= m - r[n]}
  <1>5. 0 \in S
    BY <1>2
  <1>6. ASSUME NEW k \in 1..(B + 1), k - 1 \in S
        PROVE  k \in S
    <2> SUFFICES ASSUME NEW n \in N, dn[n] < k
                 PROVE  f[n] \in Int /\ f[n] <= m - r[n]
      OBVIOUS
    <2>1. \A e \in OutEdges(n) : f[e[2]] + edelay[e] \in Int /\ f[e[2]] + edelay[e] <= m - r[n]
      <3> TAKE e \in OutEdges(n)
      <3>1. e \in E /\ e[2] \in N /\ e[1] = n /\ edelay[e] \in Int
        BY <1>1 DEF OutEdges
      <3>2. dn[e[2]] < k - 1
        <4>1. dn[e[2]] < dn[n] /\ dn[e[2]] \in Int /\ dn[n] \in Int
          BY <3>1, <1>2
        <4>2. QED
          BY <4>1
      <3>3. f[e[2]] \in Int /\ f[e[2]] <= m - r[e[2]] /\ r[e[2]] \in Int /\ r[n] \in Int
        BY <3>1, <3>2, <1>1, <1>6
      <3>4. r[n] <= r[e[2]] - edelay[e]
        BY <3>1 DEF Pulled
      <3>5. QED
        BY <3>1, <3>3, <3>4
    <2>2. U(n) \in SUBSET Int /\ \A u \in U(n) : u <= m - r[n]
      BY <2>1
    <2>3. IsFiniteSet(U(n))
      <3> DEFINE q == [e \in OutEdges(n) |-> f[e[2]] + edelay[e]]
      <3>1. OutEdges(n) \in SUBSET E /\ IsFiniteSet(E)
        BY <1>3 DEF Drawn
      <3>2. IsFiniteSet(OutEdges(n))
        BY <3>1, FS_Subset
      <3>3. q \in [OutEdges(n) -> U(n)] /\ \A u \in U(n) : \E e \in OutEdges(n) : q[e] = u
        OBVIOUS
      <3> HIDE DEF q, U
      <3>4. QED
        BY <3>2, <3>3, ValuesFinite
    <2>4. CASE U(n) = {}
      <3>1. OutEdges(n) = {}
        BY <2>4
      <3>2. f[n] = 0 /\ r[n] = m
        BY <2>4, <3>1, <1>3, <1>4
      <3>3. QED
        BY <3>2
    <2>5. CASE U(n) # {}
      <3>1. PICK W : W = U(n)
        OBVIOUS
      <3>2. f[n] = Max(W)
        BY <2>5, <3>1, <1>4
      <3> HIDE DEF U
      <3>3. IsFiniteSet(W) /\ W \in SUBSET Int /\ W # {} /\ \A u \in W : u <= m - r[n]
        BY <2>2, <2>3, <2>5, <3>1
      <3>4. Max(W) \in W
        BY <3>3, Extremes
      <3>5. QED
        BY <3>2, <3>3, <3>4
    <2>6. QED
      BY <2>4, <2>5
  <1>7. 0..(B + 1) \subseteq S
    <2>1. B + 1 \in Nat
      OBVIOUS
    <2> HIDE DEF S
    <2>2. \A k \in 1..(B + 1) : k - 1 \in S => k \in S
      BY <1>6
    <2>3. QED
      BY <1>5, <2>1, <2>2, BoundedInduction
  <1>8. B + 1 \in S
    BY <1>7
  <1>9. \A n \in N : dn[n] < B + 1 /\ r[n] \in Int
    BY <1>1
  <1>10. \A n \in N : f[n] \in Int /\ f[n] <= m - r[n] /\ r[n] \in Int
    BY <1>8, <1>9
  <1>11. QED
    BY <1>10
(* A pin has one slack edge. *)
OneDriver == \A d, e \in SlackEdges : Owner(d[2]) = Owner(e[2]) => d = e

(* What the edge e leaves. *)
LeavesSlack(s, a, r, w, e) == s[Owner(e[2])] = r[e[2]] - a[e[1]][0] - w[e]

(* The slack of a pin is that of its edge.                                 *)
LEMMA SlackOfEdge ==
  ASSUME OneDriver, NEW a, NEW r, NEW w, NEW s, s = ComputeSlack(a, r, w), NEW e \in SlackEdges
  PROVE  LeavesSlack(s, a, r, w, e)
  <1> DEFINE p == Owner(e[2])
             x == CHOOSE y \in SlackEdges : Owner(y[2]) = p
             Q == {Owner(y[2]) : y \in SlackEdges}
  <1>1. x \in SlackEdges /\ Owner(x[2]) = p
    OBVIOUS
  <1>2. x = e
    BY <1>1 DEF OneDriver
  <1>3. p \in Q
    OBVIOUS
  <1>4. ComputeSlack(a, r, w)[p] = r[x[2]] - a[x[1]][0] - w[x]
    BY <1>3 DEF ComputeSlack
  <1> HIDE DEF x
  <1>5. QED
    BY <1>2, <1>4 DEF LeavesSlack

(* Slacks of complete arrivals and required times are safe.                *)
LEMMA Certified ==
  ASSUME NEW N, NEW E, Drawn(N, E), Sorts(sorted, N, E), MinTime <= 0, OneDriver,
         Pushed([arr |-> arr, max |-> maxd], N, N, E, edelay),
         Pulled(req, N, dmax, N, E, edelay),
         dmax = maxd[0], slack = ComputeSlack(arr, req, edelay)
  PROVE  SlackIsSafe
  <1> DEFINE to   == LongestTo(edelay, {n \in TNodes : InEdges(n) = {}})
             from == CHOOSE g : IsFrom(g)
             a    == [n \in N |-> arr[n][0]]
  <1>1. E \in SUBSET (N \X N) /\ E = DOMAIN edelay /\ N = TNodes
        /\ \A e \in E : e[1] \in N /\ e[2] \in N /\ edelay[e] \in Int
    BY DEF Drawn
  <1>2. IsTo(to)
    <2>1. PICK f : IsTo(f)
      BY ToExists
    <2> DEFINE S == {n \in TNodes : InEdges(n) = {}}
    <2>2. to = CHOOSE len : IsTo(len)
      BY DEF LongestTo, IsTo
    <2> HIDE DEF to
    <2>3. QED
      BY <2>1, <2>2
  <1>3. IsFrom(from)
    <2>1. PICK f : IsFrom(f)
      BY FromExists
    <2>2. QED
      BY <2>1
  <1>4. /\ arr \in [N -> [0..0 -> Int]] /\ maxd \in [0..0 -> Int]
        /\ \A e \in E : arr[e[2]][0] >= MinTime
        /\ \A n \in N : (\A e \in E : e[2] # n) => arr[n][0] = 0
        /\ \A e \in E : arr[e[2]][0] >= arr[e[1]][0] + edelay[e]
    BY <1>1 DEF Pushed, Arrivals
  <1>5. a \in [N -> Int] /\ dmax \in Int
    BY <1>4
  <1>6. /\ \A e \in E : a[e[2]] >= MinTime /\ a[e[2]] >= a[e[1]] + edelay[e]
        /\ \A n \in N : (\A e \in E : e[2] # n) => a[n] = 0
    BY <1>1, <1>4
  <1>7. \A n \in N : to[n] \in Int /\ to[n] <= a[n]
    <2> HIDE DEF to, a
    <2> QED
      BY <1>2, <1>5, <1>6, ToArrives
  <1>8. \A n \in N : from[n] \in Int /\ req[n] \in Int /\ req[n] <= dmax - from[n]
    <2> HIDE DEF from
    <2> QED
      BY <1>3, <1>5, FromRequired
  <1>9. ASSUME NEW e \in SlackEdges
        PROVE  slack[Owner(e[2])] <= dmax - (to[e[1]] + edelay[e] + from[e[2]])
    <2>1. e \in E
      BY <1>1 DEF SlackEdges
    <2>2. slack[Owner(e[2])] = req[e[2]] - arr[e[1]][0] - edelay[e]
      <3> HIDE DEF to, from, a
      <3>1. LeavesSlack(slack, arr, req, edelay, e)
        BY SlackOfEdge
      <3>2. QED
        BY <3>1 DEF LeavesSlack
    <2>3. /\ to[e[1]] \in Int /\ to[e[1]] <= a[e[1]] /\ from[e[2]] \in Int
          /\ req[e[2]] \in Int /\ req[e[2]] <= dmax - from[e[2]] /\ edelay[e] \in Int
          /\ a[e[1]] = arr[e[1]][0] /\ a[e[1]] \in Int
      BY <2>1, <1>1, <1>5, <1>7, <1>8
    <2> HIDE DEF to, from, a
    <2>4. QED
      BY <2>2, <2>3, <1>5
  <1> DEFINE Safe(t, f) == \A e \in SlackEdges :
               slack[Owner(e[2])] <= dmax - (t[e[1]] + edelay[e] + f[e[2]])
  <1>10. Safe(to, from)
    BY <1>9
  <1>11. QED
    BY <1>10 DEF SlackIsSafe, IsFrom
-----------------------------------------------------------------------------
(* Sequences in a row are a sequence.                                      *)
LEMMA FlattenedIsSeq ==
  ASSUME NEW X, NEW ss \in Seq(Seq(X))
  PROVE  FlattenSeq(ss) \in Seq(X)
  <1> DEFINE L      == Len(ss)
             D      == Seq(X)
             Up(s, k) == s \o ss[k]
             G      == [k \in Nat |-> [s \in D |-> IF k \in 1..L THEN Up(s, k) ELSE s]]
             Def(h) == h = [i \in 1..L |-> IF i = 1 THEN ss[i] ELSE h[i - 1] \o ss[i]]
             h      == CHOOSE g : Def(g)
             a      == <<>>
  <1>1. L \in Nat /\ \A k \in 1..L : ss[k] \in D
    OBVIOUS
  <1>2. a \in D /\ \A k \in 1..L : \A s \in D : Up(s, k) \in D
    BY <1>1
  <1>3. G \in [Nat -> [D -> D]]
    BY <1>2
  <1>4. \A s \in D : <<>> \o s = s
    BY EmptySeq
  <1>5. CASE L = 0
    <2>1. ss = <<>>
      BY <1>5
    <2>2. FlattenSeq(ss) = ss
      BY <1>5 DEF FlattenSeq
    <2>3. <<>> \in Seq(X)
      BY EmptySeq
    <2>4. QED
      BY <2>1, <2>2, <2>3
  <1>6. CASE L # 0
    <2>1. FlattenSeq(ss) = h[L]
      BY <1>6 DEF FlattenSeq
    <2>2. \E f : Iterates(f, D, a, G, L)
      <3> HIDE DEF G, Def, h, D, a, L
      <3> QED
        BY <1>1, <1>2, <1>3, IterateExists
    <2>3. PICK f \in [0..L -> D] : f[0] = a /\ \A k \in 1..L : f[k] = Up(f[k - 1], k)
      <3>1. \A k \in 1..L : k \in Nat /\ k - 1 \in 0..L
        BY <1>1
      <3> HIDE DEF Up, D, a, L
      <3>2. QED
        BY <2>2, <1>1, <3>1 DEF Iterates
    <2> DEFINE g == [i \in 1..L |-> f[i]]
    <2>4. Def(g)
      <3>1. \A i \in 1..L : i \in 0..L /\ (i # 1 => i - 1 \in 1..L /\ i - 1 \in 0..L)
        BY <1>1
      <3>2. \A i \in 1..L : i # 1 => g[i - 1] = f[i - 1] /\ g[i] = f[i - 1] \o ss[i]
        BY <2>3, <3>1
      <3>3. \A i \in 1..L : i = 1 => g[i] = ss[i]
        <4> SUFFICES ASSUME 1 \in 1..L PROVE g[1] = ss[1]
          OBVIOUS
        <4>1. g[1] = f[1] /\ f[1] = f[1 - 1] \o ss[1]
          <5> HIDE DEF D, L, a
          <5> QED
            BY <2>3
        <4>2. f[1] = <<>> \o ss[1]
          <5>1. 1 - 1 = 0 /\ f[0] = <<>>
            BY <2>3
          <5>2. QED
            BY <4>1, <5>1
        <4>3. ss[1] \in D
          BY <1>1
        <4>4. QED
          BY <4>1, <4>2, <4>3, <1>4
      <3>4. \A i \in 1..L : g[i] = IF i = 1 THEN ss[i] ELSE g[i - 1] \o ss[i]
        BY <3>2, <3>3
      <3>5. QED
        BY <3>4
    <2>5. Def(h)
      <3> HIDE DEF Def, g
      <3> QED
        BY <2>4
    <2> HIDE DEF h
    <2>6. \A i \in 1..L : h[i] = IF i = 1 THEN ss[i] ELSE h[i - 1] \o ss[i]
      BY <2>5
    <2> DEFINE S == {k \in 0..L : k = 0 \/ h[k] \in D}
    <2>7. \A k \in 1..L : k - 1 \in S => k \in S
      <3> SUFFICES ASSUME NEW k \in 1..L, k - 1 = 0 \/ h[k - 1] \in D
                   PROVE  h[k] \in D
        BY <1>1
      <3>1. CASE k = 1
        BY <3>1, <2>6, <1>1
      <3>2. CASE k # 1
        <4>0. k - 1 # 0 /\ k \in 1..L
          BY <3>2, <1>1
        <4>1. h[k] = h[k - 1] \o ss[k] /\ h[k - 1] \in D /\ ss[k] \in D
          <5> HIDE DEF D, L
          <5> QED
            BY <4>0, <3>2, <2>6, <1>1
        <4>2. QED
          BY <4>1
      <3>3. QED
        BY <3>1, <3>2
    <2>8. 0..L \subseteq S
      <3>1. 0 \in S
        BY <1>1
      <3> HIDE DEF S, L
      <3>2. QED
        BY <1>1, <2>7, <3>1, BoundedInduction
    <2>9. QED
      BY <1>1, <1>6, <2>1, <2>8
  <1>7. QED
    BY <1>5, <1>6

(* The elements of a sequence are finitely many, and no more than it is long. *)
LEMMA ListedFinite ==
  ASSUME NEW X, NEW s \in Seq(X)
  PROVE  /\ IsFiniteSet(ToSet(s)) /\ Cardinality(ToSet(s)) <= Len(s)
         /\ ToSet(s) \in SUBSET X /\ Cardinality(ToSet(s)) \in Nat
  <1> DEFINE T == {s[i] : i \in 1..Len(s)}
             f == [i \in 1..Len(s) |-> s[i]]
  <1>1. T = ToSet(s) /\ Len(s) \in Nat /\ T \in SUBSET X
    BY DEF ToSet
  <1>2. f \in Surjection(1..Len(s), T)
    BY DEF Surjection
  <1> HIDE DEF T, f
  <1>3. IsFiniteSet(1..Len(s)) /\ Cardinality(1..Len(s)) = Len(s)
    BY <1>1, FS_Interval
  <1>4. IsFiniteSet(T) /\ Cardinality(T) <= Cardinality(1..Len(s))
    BY <1>2, <1>3, FS_Surjection
  <1>5. QED
    BY <1>1, <1>3, <1>4, FS_CardinalityType

(* A list of that many nodes, none of them twice, has all of them.         *)
LEMMA ListedAll ==
  ASSUME NEW N, IsFiniteSet(N), NEW s \in Seq(N), Cardinality(N) <= Len(s),
         \A i, j \in 1..Len(s) : s[i] = s[j] => i = j
  PROVE  \A n \in N : \E k \in 1..Len(s) : s[k] = n
  <1> DEFINE I == 1..Len(s)
  <1>1. s \in [I -> N] /\ Len(s) \in Nat
    OBVIOUS
  <1>2. s \in Injection(I, N)
    BY <1>1 DEF Injection, IsInjective
  <1>3. IsFiniteSet(I) /\ Cardinality(I) = Len(s)
    <2>1. Len(s) \in Nat
      BY <1>1
    <2>2. PICK L \in Nat : L = Len(s)
      BY <2>1
    <2>3. IsFiniteSet(1..L) /\ Cardinality(1..L) = L
      BY FS_Interval
    <2>4. QED
      BY <2>2, <2>3
  <1> HIDE DEF I
  <1>4. Cardinality(I) <= Cardinality(N) /\ (Cardinality(I) = Cardinality(N) <=> s \in Surjection(I, N))
    BY <1>2, FS_Injection
  <1>5. Cardinality(N) \in Nat
    BY FS_CardinalityType
  <1>6. s \in Surjection(I, N)
    BY <1>1, <1>3, <1>4, <1>5
  <1>7. QED
    BY <1>6 DEF Surjection, I

(* A list of elements of Y is a sequence of them. *)
LEMMA ListIsSeq ==
  ASSUME NEW Y, NEW n \in Nat, NEW f \in [1..n -> Y]
  PROVE  f \in Seq(Y)
  BY SeqDef

Kinds == {"pin", "src", "snk", "gen"}

(* create_all_nodes lists nodes of pins.                                   *)
LEMMA NodesListed ==
  ASSUME nl.order \in Seq(Pins)
  PROVE  NodeSeq \in Seq(Kinds \X Pins)
  <1> DEFINE X  == Kinds \X Pins
             o  == nl.order
             ss == [k \in DOMAIN o |-> NodesOfPin(o[k])]
  <1>1. ASSUME NEW p \in Pins
        PROVE  NodesOfPin(p) \in Seq(X)
    <2> DEFINE c == CASE IsPrim(p) /\ nl.pin[p].sink /\ nl.pin[p].clk -> <<<<"src", p>>, <<"snk", p>>>>
                      [] IsPrim(p) /\ ~nl.pin[p].sink /\ ~HasInput(nl.pin[p].inst) -> <<<<"gen", p>>>>
                      [] OTHER -> <<>>
    <2>1. \A k \in Kinds : <<k, p>> \in X
      OBVIOUS
    <2>2. /\ <<"src", p>> \in X /\ <<"snk", p>> \in X /\ <<"gen", p>> \in X /\ <<"pin", p>> \in X
      BY <2>1 DEF Kinds
    <2> HIDE DEF X
    <2>3. /\ <<<<"src", p>>, <<"snk", p>>>> \in Seq(X) /\ <<<<"gen", p>>>> \in Seq(X)
          /\ <<>> \in Seq(X) /\ <<<<"pin", p>>>> \in Seq(X)
      BY <2>2
    <2>4. c \in {<<<<"src", p>>, <<"snk", p>>>>, <<<<"gen", p>>>>, <<>>}
      OBVIOUS
    <2> HIDE DEF c
    <2>5. c \in Seq(X)
      BY <2>3, <2>4
    <2>6. <<PinNode(p)>> \o c \in Seq(X)
      BY <2>3, <2>5 DEF PinNode
    <2>7. NodesOfPin(p) = IF ~Connected(p) THEN <<>> ELSE <<PinNode(p)>> \o c
      BY DEF NodesOfPin, c
    <2>8. QED
      BY <2>3, <2>6, <2>7
  <1> HIDE DEF X
  <1>2. DOMAIN o = 1..Len(o) /\ Len(o) \in Nat /\ \A k \in 1..Len(o) : o[k] \in Pins
    OBVIOUS
  <1>3. ss \in [1..Len(o) -> Seq(X)]
    BY <1>1, <1>2
  <1> HIDE DEF ss
  <1>4. ss \in Seq(Seq(X))
    BY <1>2, <1>3, ListIsSeq, Zenon
  <1>5. FlattenSeq(ss) \in Seq(X)
    BY <1>4, FlattenedIsSeq
  <1>6. NodeSeq = FlattenSeq(ss)
    BY Zenon DEF NodeSeq, ss
  <1>7. QED
    BY <1>5, <1>6, Zenon DEF X
-----------------------------------------------------------------------------
(* Pins come in a list, and delays are integers. *)
Sane ==
    /\ nl.order \in Seq(Pins)
    /\ \A x \in DOMAIN nl.arc : nl.arc[x] \in Int
    /\ \A x \in DOMAIN nl.setup : nl.setup[x] \in Int
    /\ \A x \in DOMAIN nl.clkq : nl.clkq[x] \in Int

(* A graph with nodes N and edges E between them has no loop. *)
LoopFree(N, E) ==
    /\ E \in SUBSET (N \X N)
    /\ \E lev \in [N -> Nat] : \A e \in E : lev[e[1]] < lev[e[2]]

(* The timing graph has none: the design has no combinational loop. *)
NoLoop == LoopFree(ToSet(NodeSeq), Edges)

(* A register takes time to give its output. *)
Clocked == \E i \in Registers : \E o \in PinsOf(i) : ~nl.pin[o].sink /\ Lookup(nl.clkq, o) > 0

(* The edge is drawn along a net of the top module from a source of it. *)
Drives(e) == \E n \in nl.top : Owner(e[1]) \in SourcePins(n) /\ e[1][1] = "pin"

(* A pin is driven by one source. *)
OneSource == \A d, e \in Edges : Drives(d) /\ Drives(e) /\ Owner(d[2]) = Owner(e[2]) => d = e

(* The designs whose timing the engine can analyse. *)
Timable == Sane /\ NoLoop /\ Clocked

(* The engine has drawn the graph of the netlist. *)
Laid ==
    /\ tnodes = NodeSeq
    /\ edelay \in [Edges -> Int]
    /\ \A e \in Edges : e[1][1] # "pin" => edelay[e] = BuiltDelay(e)

(* Then it is finite, and has no loop. *)
LEMMA GraphDrawn ==
  ASSUME Timable, Laid
  PROVE  /\ Drawn(TNodes, DOMAIN edelay) /\ LoopFree(TNodes, DOMAIN edelay)
         /\ IsFiniteSet(TNodes) /\ Cardinality(TNodes) <= Len(tnodes)
         /\ tnodes \in Seq(TNodes)
  <1>1. NodeSeq \in Seq(Kinds \X Pins)
    BY NodesListed DEF Timable, Sane
  <1>2. IsFiniteSet(ToSet(NodeSeq)) /\ Cardinality(ToSet(NodeSeq)) <= Len(NodeSeq)
    BY <1>1, ListedFinite
  <1>3. TNodes = ToSet(NodeSeq) /\ DOMAIN edelay = Edges /\ edelay \in [Edges -> Int]
    BY DEF TNodes, Laid
  <1>4. LoopFree(TNodes, DOMAIN edelay)
    BY <1>3 DEF Timable, NoLoop
  <1>5. IsFiniteSet(DOMAIN edelay)
    <2>1. PICK N : N = TNodes
      OBVIOUS
    <2>2. IsFiniteSet(N \X N)
      BY <1>2, <1>3, <2>1, FS_Product
    <2>3. DOMAIN edelay \in SUBSET (N \X N)
      BY <1>4, <2>1 DEF LoopFree
    <2>4. QED
      BY <2>2, <2>3, FS_Subset
  <1>7. Drawn(TNodes, DOMAIN edelay)
    BY <1>3, <1>4, <1>5, TimeAssumption DEF Drawn, LoopFree
  <1>8. tnodes \in Seq(TNodes)
    <2>1. tnodes \in Seq(Kinds \X Pins)
      BY <1>1 DEF Laid
    <2>2. DOMAIN tnodes = 1..Len(tnodes) /\ Len(tnodes) \in Nat
      BY <2>1
    <2>3. tnodes \in [1..Len(tnodes) -> TNodes]
      <3>1. \A i \in 1..Len(tnodes) : tnodes[i] \in TNodes
        BY <2>2 DEF TNodes, ToSet
      <3>2. tnodes = [i \in 1..Len(tnodes) |-> tnodes[i]]
        BY <2>1
      <3>3. QED
        BY <3>1, <3>2
    <2>4. QED
      BY <2>2, <2>3, SeqDef
  <1>9. QED
    BY <1>2, <1>3, <1>4, <1>7, <1>8 DEF Laid

(* What is drawn of a netlist hangs on it alone.                           *)
LEMMA NetlistStays ==
  ASSUME UNCHANGED nl
  PROVE  /\ Edges' = Edges /\ NodeSeq' = NodeSeq
         /\ \A e : BuiltDelay(e)' = BuiltDelay(e)
         /\ Timable' <=> Timable
         /\ OneSource' <=> OneSource
  <1>1. /\ Pins' = Pins /\ \A p : Connected(p)' <=> Connected(p)
        /\ \A p : IsMpin(p)' <=> IsMpin(p)
        /\ \A p : IsComp(p)' <=> IsComp(p)
        /\ \A p : IsPrim(p)' <=> IsPrim(p)
        /\ \A i : PinsOf(i)' = PinsOf(i)
        /\ \A n : SinkPins(n)' = SinkPins(n) /\ SourcePins(n)' = SourcePins(n)
    BY DEF Pins, Connected, IsMpin, IsComp, IsPrim, PinsOf, SinkPins, SourcePins
  <1>2. \A p : At(p)' = At(p)
    BY DEF At
  <1>3. \A S : FirstPin(S)' = FirstPin(S)
    BY <1>2 DEF FirstPin
  <1>4. /\ \A i : IsRegister(i)' <=> IsRegister(i)
        /\ \A i : HasInput(i)' <=> HasInput(i)
        /\ \A i : ClockPin(i)' = ClockPin(i)
        /\ Registers' = Registers
    <2>1. /\ \A i : IsRegister(i)' <=> IsRegister(i)
          /\ \A i : HasInput(i)' <=> HasInput(i)
      BY <1>1 DEF IsRegister, HasInput
    <2>2. \A i : ClockPin(i)' = ClockPin(i)
      BY <1>1 DEF ClockPin
    <2>3. Registers' = Registers
      BY <2>1, <1>1 DEF Registers
    <2>4. QED
      BY <2>1, <2>2, <2>3
  <1>5. \A p : NodesOfPin(p)' = NodesOfPin(p)
    BY <1>1, <1>4 DEF NodesOfPin
  <1>6. NodeSeq' = NodeSeq
    BY <1>5 DEF NodeSeq
  <1>7. \A p : NetEdges(p)' = NetEdges(p)
    BY <1>1 DEF NetEdges
  <1>8. PortEdges' = PortEdges /\ CompEdges' = CompEdges /\ PrimEdges' = PrimEdges
    <2>1. PortEdges' = PortEdges
      BY <1>1, <1>3 DEF PortEdges
    <2>2. CompEdges' = CompEdges
      BY <1>1, <1>7 DEF CompEdges
    <2>3. PrimEdges' = PrimEdges
      BY <1>1, <1>7 DEF PrimEdges
    <2>4. QED
      BY <2>1, <2>2, <2>3
  <1>9. SetupEdges' = SetupEdges
    BY <1>1, <1>4 DEF SetupEdges
  <1>10. ClkQEdges' = ClkQEdges
    BY <1>1, <1>4 DEF ClkQEdges
  <1>11. GenEdges' = GenEdges
    BY <1>6 DEF GenEdges
  <1>12. ArcEdges' = ArcEdges
    BY <1>1, <1>4 DEF ArcEdges
  <1>13. Edges' = Edges
    BY <1>8, <1>9, <1>10, <1>11, <1>12 DEF Edges
  <1>14. \A e : BuiltDelay(e)' = BuiltDelay(e)
    BY DEF BuiltDelay
  <1>15. Timable' <=> Timable
    <2>1. Sane' <=> Sane
      BY <1>1 DEF Sane
    <2>2. NoLoop' <=> NoLoop
      BY <1>6, <1>13 DEF NoLoop
    <2>3. Clocked' <=> Clocked
      BY <1>1, <1>4 DEF Clocked
    <2>4. QED
      BY <2>1, <2>2, <2>3 DEF Timable
  <1>16. OneSource' <=> OneSource
    <2>1. \A e : Drives(e)' <=> Drives(e)
      BY <1>1 DEF Drives
    <2>2. QED
      BY <1>13, <2>1 DEF OneSource
  <1>17. QED
    BY <1>6, <1>13, <1>14, <1>15, <1>16
-----------------------------------------------------------------------------
(* The depth first search has the nodes a on its stack, each reached from  *)
(* the one below, has left those in s, after all that they lead to, and    *)
(* has seen m.                                                             *)
Visits(a, s, m, N, E) ==
    /\ a \in Seq(N) /\ s \in Seq(N)
    /\ m = ElemsOf(s) \cup ElemsOf(a)
    /\ \A i, j \in 1..Len(s) : s[i] = s[j] => i = j
    /\ \A i, j \in 1..Len(a) : a[i] = a[j] => i = j
    /\ ElemsOf(s) \cap ElemsOf(a) = {}
    /\ \A i \in 1..(Len(a) - 1) : <<a[i + 1], a[i]>> \in E
    /\ \A e \in E : \A k \in 1..Len(s) : s[k] = e[1] => \E j \in 1..(k - 1) : s[j] = e[2]

(* The head of the stack is the deepest.                                   *)
LEMMA HeadDeepest ==
  ASSUME NEW N, NEW E \in SUBSET (N \X N), NEW lev \in [N -> Nat],
         \A e \in E : lev[e[1]] < lev[e[2]],
         NEW a \in Seq(N), \A i \in 1..(Len(a) - 1) : <<a[i + 1], a[i]>> \in E
  PROVE  \A j \in 1..Len(a) : lev[a[j]] <= lev[a[1]]
  <1> DEFINE L == Len(a)
             S == {k \in 0..L : k > 0 => lev[a[k]] <= lev[a[1]]}
  <1>1. L \in Nat /\ \A i \in 1..L : a[i] \in N /\ lev[a[i]] \in Nat
    OBVIOUS
  <1>2. 0 \in S
    BY <1>1
  <1>3. ASSUME NEW k \in 1..L, k - 1 \in S
        PROVE  k \in S
    <2>1. CASE k = 1
      BY <2>1, <1>1
    <2>2. CASE k # 1
      <3>1. k - 1 \in 1..(L - 1) /\ (k - 1) + 1 = k /\ k \in 1..L /\ k - 1 \in 1..L /\ 1 \in 1..L
        BY <2>2, <1>1
      <3>2. <<a[k], a[k - 1]>> \in E
        BY <3>1
      <3>3. PICK e \in E : e = <<a[k], a[k - 1]>>
        BY <3>2
      <3>4. lev[e[1]] < lev[e[2]] /\ e[1] = a[k] /\ e[2] = a[k - 1]
        BY <3>3
      <3>5. lev[a[k]] < lev[a[k - 1]]
        BY <3>4
      <3>6. lev[a[k - 1]] <= lev[a[1]]
        BY <3>1, <1>3
      <3>7. lev[a[k]] <= lev[a[1]]
        BY <3>1, <3>5, <3>6, <1>1
      <3>8. QED
        BY <3>1, <3>7
    <2>3. QED
      BY <2>1, <2>2
  <1>4. 0..L \subseteq S
    <2> HIDE DEF S
    <2> QED
      BY <1>1, <1>2, <1>3, BoundedInduction
  <1>5. ASSUME NEW j \in 1..L
        PROVE  lev[a[j]] <= lev[a[1]]
    <2>1. j \in 0..L /\ j > 0
      BY <1>1
    <2>2. j \in S
      BY <2>1, <1>4, Zenon
    <2>3. QED
      BY <2>1, <2>2
  <1>6. QED
    BY <1>5

(* The search starts again at a node that it has not seen.                 *)
LEMMA VisitAnew ==
  ASSUME NEW N, NEW E, NEW s, NEW m, Visits(<<>>, s, m, N, E), NEW n \in N, n \notin m
  PROVE  Visits(<<n>>, s, m \cup {n}, N, E)
  <1> DEFINE a == <<n>>
  <1>1. a \in Seq(N) /\ Len(a) = 1 /\ ElemsOf(a) = {n} /\ \A i, j \in 1..Len(a) : i = j
    BY DEF ElemsOf
  <1>2. ElemsOf(<<>>) = {}
    BY DEF ElemsOf
  <1>3. 1..(Len(a) - 1) = {}
    BY <1>1
  <1> HIDE DEF a
  <1>4. m = ElemsOf(s)
    BY <1>2 DEF Visits
  <1>5. Visits(a, s, m \cup {n}, N, E)
    BY <1>1, <1>3, <1>4 DEF Visits
  <1>6. QED
    BY <1>5 DEF a

(* It goes on over an edge.                                                *)
LEMMA VisitOn ==
  ASSUME NEW N, NEW E, NEW a, NEW s, NEW m, Visits(a, s, m, N, E), a # <<>>,
         NEW n \in N, n \notin m, <<Head(a), n>> \in E
  PROVE  Visits(<<n>> \o a, s, m \cup {n}, N, E)
  <1> DEFINE b == <<n>> \o a
  <1>1. a \in Seq(N) /\ Len(a) \in Nat /\ Len(a) # 0 /\ Head(a) = a[1]
    BY DEF Visits
  <1>2. b \in Seq(N) /\ Len(b) = Len(a) + 1
    BY <1>1
  <1>3. b[1] = n /\ \A i \in 1..Len(a) : b[i + 1] = a[i]
    BY <1>1
  <1> HIDE DEF b
  <1>4. ElemsOf(a) = {a[i] : i \in 1..Len(a)} /\ ElemsOf(b) = {b[i] : i \in 1..Len(b)}
    BY <1>1, <1>2 DEF ElemsOf
  <1>5. \A i \in 1..Len(b) : i = 1 \/ (i - 1 \in 1..Len(a) /\ (i - 1) + 1 = i)
    BY <1>1, <1>2
  <1>6. \A i \in 1..Len(a) : i + 1 \in 1..Len(b)
    BY <1>1, <1>2
  <1>7. \A i \in 1..Len(b) : i # 1 => i - 1 \in 1..Len(a) /\ b[i] = a[i - 1]
    <2> SUFFICES ASSUME NEW i \in 1..Len(b), i # 1
                 PROVE  i - 1 \in 1..Len(a) /\ b[i] = a[i - 1]
      OBVIOUS
    <2>1. PICK j : j = i - 1
      OBVIOUS
    <2>2. j \in 1..Len(a) /\ j + 1 = i
      BY <2>1, <1>5
    <2>3. QED
      BY <2>1, <2>2, <1>3
  <1>8. ElemsOf(b) = ElemsOf(a) \cup {n}
    <2>1. ElemsOf(b) \subseteq ElemsOf(a) \cup {n}
      BY <1>3, <1>4, <1>7
    <2>2. ElemsOf(a) \subseteq ElemsOf(b)
      BY <1>3, <1>4, <1>6
    <2>3. 1 \in 1..Len(b)
      BY <1>1, <1>2
    <2>4. n \in ElemsOf(b)
      BY <2>3, <1>3, <1>4
    <2>5. QED
      BY <2>1, <2>2, <2>4
  <1>9. n \notin ElemsOf(a) /\ n \notin ElemsOf(s)
    BY DEF Visits
  <1>10. \A i, j \in 1..Len(b) : b[i] = b[j] => i = j
    <2> SUFFICES ASSUME NEW i \in 1..Len(b), NEW j \in 1..Len(b), b[i] = b[j]
                 PROVE  i = j
      OBVIOUS
    <2>1. CASE i = 1 /\ j = 1
      BY <2>1
    <2>2. CASE i = 1 /\ j # 1
      BY <2>2, <1>3, <1>4, <1>7, <1>9
    <2>3. CASE i # 1 /\ j = 1
      BY <2>3, <1>3, <1>4, <1>7, <1>9
    <2>4. CASE i # 1 /\ j # 1
      <3>1. i - 1 = j - 1
        BY <2>4, <1>7 DEF Visits
      <3>2. QED
        BY <3>1
    <2>5. QED
      BY <2>1, <2>2, <2>3, <2>4
  <1>11. \A i \in 1..(Len(b) - 1) : <<b[i + 1], b[i]>> \in E
    <2> TAKE i \in 1..(Len(b) - 1)
    <2>1. i \in 1..Len(a) /\ i \in 1..Len(b) /\ b[i + 1] = a[i]
      BY <1>1, <1>2, <1>3
    <2>2. CASE i = 1
      BY <2>1, <2>2, <1>1, <1>3
    <2>3. CASE i # 1
      <3>1. PICK j : j = i - 1
        OBVIOUS
      <3>2. j \in 1..(Len(a) - 1) /\ j + 1 = i /\ b[i] = a[j]
        BY <2>1, <2>3, <3>1, <1>1, <1>7
      <3>3. <<a[j + 1], a[j]>> \in E
        BY <3>2 DEF Visits
      <3>4. QED
        BY <2>1, <3>2, <3>3
    <2>4. QED
      BY <2>2, <2>3
  <1>12. Visits(b, s, m \cup {n}, N, E)
    <2>1. m \cup {n} = ElemsOf(s) \cup ElemsOf(b)
      BY <1>8 DEF Visits
    <2>2. ElemsOf(s) \cap ElemsOf(b) = {}
      BY <1>8, <1>9 DEF Visits
    <2>3. QED
      BY <2>1, <2>2, <1>2, <1>10, <1>11 DEF Visits
  <1>13. QED
    BY <1>12 DEF b

(* It leaves a node when it has seen all that this leads to.               *)
LEMMA VisitLeave ==
  ASSUME NEW N, NEW E, LoopFree(N, E), NEW a, NEW s, NEW m, Visits(a, s, m, N, E), a # <<>>,
         \A e \in E : e[1] = Head(a) => e[2] \in m
  PROVE  Visits(Tail(a), Append(s, Head(a)), m, N, E)
  <1> DEFINE b == Tail(a)
             t == Append(s, Head(a))
  <1>0. PICK n : n = Head(a)
    OBVIOUS
  <1>1. /\ a \in Seq(N) /\ Len(a) \in Nat /\ Len(a) # 0 /\ n = a[1] /\ n \in N
        /\ s \in Seq(N) /\ Len(s) \in Nat
    <2>1. a \in Seq(N) /\ s \in Seq(N)
      BY DEF Visits
    <2>2. Len(a) # 0 /\ Len(a) \in Nat /\ Len(s) \in Nat
      BY <2>1
    <2>3. 1 \in 1..Len(a)
      BY <2>2
    <2>4. n = a[1] /\ a[1] \in N
      BY <1>0, <2>1, <2>3
    <2>5. QED
      BY <2>1, <2>2, <2>4
  <1>2. /\ b \in Seq(N) /\ Len(b) = Len(a) - 1 /\ \A i \in 1..Len(b) : b[i] = a[i + 1]
    BY <1>1
  <1>3. /\ t \in Seq(N) /\ Len(t) = Len(s) + 1
        /\ (\A i \in 1..Len(s) : t[i] = s[i]) /\ t[Len(s) + 1] = n
    BY <1>0, <1>1
  <1> HIDE DEF b, t
  <1>4. /\ ElemsOf(a) = {a[i] : i \in 1..Len(a)} /\ ElemsOf(b) = {b[i] : i \in 1..Len(b)}
        /\ ElemsOf(s) = {s[i] : i \in 1..Len(s)} /\ ElemsOf(t) = {t[i] : i \in 1..Len(t)}
    <2>1. \A q \in Seq(N) : ElemsOf(q) = {q[i] : i \in 1..Len(q)}
      BY DEF ElemsOf
    <2>2. a \in Seq(N) /\ b \in Seq(N) /\ s \in Seq(N) /\ t \in Seq(N)
      BY <1>1, <1>2, <1>3
    <2>3. QED
      BY <2>1, <2>2, Zenon
  <1>5. \A i \in 1..Len(b) : i + 1 \in 1..Len(a) /\ i + 1 # 1
    BY <1>1, <1>2
  <1>6. \A i \in 1..Len(t) : i \in 1..Len(s) \/ i = Len(s) + 1
    BY <1>1, <1>3
  <1>61. \A i \in 1..Len(s) : i \in 1..Len(t)
    BY <1>1, <1>3
  <1>62. Len(s) + 1 \in 1..Len(t)
    BY <1>1, <1>3
  <1>7. ElemsOf(t) = ElemsOf(s) \cup {n}
    <2>1. ElemsOf(t) \subseteq ElemsOf(s) \cup {n}
      BY <1>3, <1>4, <1>6
    <2>2. ElemsOf(s) \subseteq ElemsOf(t)
      BY <1>3, <1>4, <1>61
    <2>3. n \in ElemsOf(t)
      BY <1>3, <1>4, <1>62
    <2>4. QED
      BY <2>1, <2>2, <2>3
  <1>8. ElemsOf(a) = ElemsOf(b) \cup {n} /\ n \notin ElemsOf(b)
    <2>1. \A i \in 1..Len(a) : i = 1 \/ (i - 1 \in 1..Len(b) /\ (i - 1) + 1 = i)
      BY <1>1, <1>2
    <2>2. ElemsOf(a) \subseteq ElemsOf(b) \cup {n}
      <3> SUFFICES ASSUME NEW i \in 1..Len(a) PROVE a[i] = n \/ a[i] \in ElemsOf(b)
        BY <1>4
      <3>1. CASE i = 1
        BY <3>1, <1>1
      <3>2. CASE i # 1
        <4>1. PICK j : j = i - 1
          OBVIOUS
        <4>2. j \in 1..Len(b) /\ j + 1 = i
          BY <4>1, <3>2, <2>1
        <4>3. b[j] = a[i]
          BY <4>2, <1>2
        <4>4. QED
          BY <4>2, <4>3, <1>4
      <3>3. QED
        BY <3>1, <3>2
    <2>3. ElemsOf(b) \subseteq ElemsOf(a)
      BY <1>2, <1>4, <1>5
    <2>4. 1 \in 1..Len(a)
      BY <1>1
    <2>5. n \in ElemsOf(a)
      BY <2>4, <1>1, <1>4
    <2>6. n \notin ElemsOf(b)
      <3> SUFFICES ASSUME NEW i \in 1..Len(b), b[i] = n PROVE FALSE
        BY <1>4
      <3>1. a[i + 1] = a[1] /\ i + 1 \in 1..Len(a) /\ i + 1 # 1
        BY <1>1, <1>2, <1>5
      <3>2. QED
        BY <2>4, <3>1 DEF Visits
    <2>7. QED
      BY <2>2, <2>3, <2>5, <2>6
  <1>9. n \notin ElemsOf(s)
    BY <1>8 DEF Visits
  <1>10. m = ElemsOf(t) \cup ElemsOf(b) /\ ElemsOf(t) \cap ElemsOf(b) = {}
    <2>1. m = ElemsOf(s) \cup ElemsOf(a) /\ ElemsOf(s) \cap ElemsOf(a) = {}
      BY DEF Visits
    <2>2. QED
      BY <2>1, <1>7, <1>8, <1>9
  <1>11. \A i, j \in 1..Len(t) : t[i] = t[j] => i = j
    <2> SUFFICES ASSUME NEW i \in 1..Len(t), NEW j \in 1..Len(t), t[i] = t[j]
                 PROVE  i = j
      OBVIOUS
    <2>1. CASE i \in 1..Len(s) /\ j \in 1..Len(s)
      BY <2>1, <1>3 DEF Visits
    <2>2. CASE i \in 1..Len(s) /\ j = Len(s) + 1
      BY <2>2, <1>3, <1>4, <1>9
    <2>3. CASE i = Len(s) + 1 /\ j \in 1..Len(s)
      BY <2>3, <1>3, <1>4, <1>9
    <2>4. QED
      BY <2>1, <2>2, <2>3, <1>6
  <1>12. \A i, j \in 1..Len(b) : b[i] = b[j] => i = j
    <2> SUFFICES ASSUME NEW i \in 1..Len(b), NEW j \in 1..Len(b), b[i] = b[j]
                 PROVE  i = j
      OBVIOUS
    <2>1. a[i + 1] = a[j + 1] /\ i + 1 \in 1..Len(a) /\ j + 1 \in 1..Len(a)
      BY <1>2, <1>5
    <2>2. i + 1 = j + 1
      BY <2>1 DEF Visits
    <2>3. QED
      BY <2>2
  <1>13. \A i \in 1..(Len(b) - 1) : <<b[i + 1], b[i]>> \in E
    <2> TAKE i \in 1..(Len(b) - 1)
    <2>1. PICK j : j = i + 1
      OBVIOUS
    <2>2. i \in 1..Len(b) /\ j \in 1..Len(b) /\ j \in 1..(Len(a) - 1) /\ b[i] = a[j] /\ b[j] = a[j + 1]
      BY <2>1, <1>1, <1>2
    <2>3. <<a[j + 1], a[j]>> \in E
      BY <2>2 DEF Visits
    <2>4. QED
      BY <2>1, <2>2, <2>3
  <1>14. PICK lev \in [N -> Nat] : \A e \in E : lev[e[1]] < lev[e[2]]
    BY DEF LoopFree
  <1>15. \A j \in 1..Len(a) : lev[a[j]] <= lev[a[1]]
    <2>1. E \in SUBSET (N \X N)
      BY DEF LoopFree
    <2>2. \A i \in 1..(Len(a) - 1) : <<a[i + 1], a[i]>> \in E
      BY DEF Visits
    <2>3. QED
      BY <2>1, <2>2, <1>1, <1>14, HeadDeepest
  <1>16. \A e \in E : \A k \in 1..Len(t) : t[k] = e[1] => \E j \in 1..(k - 1) : t[j] = e[2]
    <2> SUFFICES ASSUME NEW e \in E, NEW k \in 1..Len(t), t[k] = e[1]
                 PROVE  \E j \in 1..(k - 1) : t[j] = e[2]
      OBVIOUS
    <2>1. CASE k \in 1..Len(s)
      <3>1. PICK j \in 1..(k - 1) : s[j] = e[2]
        BY <2>1, <1>3 DEF Visits
      <3>2. j \in 1..Len(s)
        BY <2>1, <1>1
      <3>3. QED
        BY <3>1, <3>2, <1>3
    <2>2. CASE k = Len(s) + 1
      <3>1. e[1] = n /\ e[1] = Head(a)
        BY <2>2, <1>0, <1>3
      <3>2. e[2] \in m
        BY <3>1
      <3>3. e[2] \notin ElemsOf(a)
        <4> SUFFICES ASSUME NEW j \in 1..Len(a), a[j] = e[2] PROVE FALSE
          BY <1>4
        <4>1. lev[e[1]] < lev[e[2]]
          BY <1>14
        <4>2. lev[e[2]] <= lev[e[1]]
          BY <3>1, <1>1, <1>15
        <4>3. lev[e[1]] \in Nat /\ lev[e[2]] \in Nat
          BY <1>14 DEF LoopFree
        <4>4. QED
          BY <4>1, <4>2, <4>3
      <3>4. e[2] \in ElemsOf(s)
        BY <3>2, <3>3 DEF Visits
      <3>5. PICK j \in 1..Len(s) : s[j] = e[2]
        BY <3>4, <1>4
      <3>6. t[j] = e[2] /\ j \in 1..(k - 1)
        BY <2>2, <3>5, <1>1, <1>3
      <3>7. QED
        BY <3>6
    <2>3. QED
      BY <2>1, <2>2, <1>6
  <1>17. Visits(b, t, m, N, E)
    BY <1>2, <1>3, <1>10, <1>11, <1>12, <1>13, <1>16 DEF Visits
  <1>18. QED
    BY <1>17 DEF b, t

(* When as many nodes are left as there are, they are sorted.              *)
LEMMA VisitedAll ==
  ASSUME NEW N, NEW E, E \in SUBSET (N \X N), IsFiniteSet(N), NEW a, NEW s, NEW m,
         Visits(a, s, m, N, E), Cardinality(N) <= Len(s)
  PROVE  Sorts(s, N, E)
  <1>1. s \in Seq(N) /\ Len(s) \in Nat /\ \A i, j \in 1..Len(s) : s[i] = s[j] => i = j
    BY DEF Visits
  <1>2. \A n \in N : \E k \in 1..Len(s) : s[k] = n
    BY <1>1, ListedAll
  <1>3. \A e \in E : \A i, j \in 1..Len(s) : s[i] = e[1] /\ s[j] = e[2] => j < i
    <2> SUFFICES ASSUME NEW e \in E, NEW i \in 1..Len(s), NEW j \in 1..Len(s),
                        s[i] = e[1], s[j] = e[2]
                 PROVE  j < i
      OBVIOUS
    <2>1. PICK k \in 1..(i - 1) : s[k] = e[2]
      BY DEF Visits
    <2>2. k \in 1..Len(s)
      BY <1>1
    <2>3. k = j
      BY <2>1, <2>2, <1>1
    <2>4. QED
      BY <2>3
  <1>4. QED
    BY <1>1, <1>2, <1>3 DEF Sorts
-----------------------------------------------------------------------------
(* No times are computed yet. *)
Untimed == arr = [n \in TNodes |-> <<>>] /\ req \in [TNodes -> Int] /\ maxd = <<>>

(* All times are. *)
Analysed ==
    /\ Pushed([arr |-> arr, max |-> maxd], TNodes, TNodes, DOMAIN edelay, edelay)
    /\ Pulled(req, TNodes, maxd[0], TNodes, DOMAIN edelay, edelay)

IntValues(f) == \A x \in DOMAIN f : f[x] \in Int

(* The engine: it draws the graph, sorts it, and computes times; the slacks *)
(* that the router uses after its first iteration are those of these times. *)
EngInv ==
    /\ Timable
    /\ dmax \in Nat \ {0}
    /\ IntValues(delayOf) /\ IntValues(slack)
    /\ tpc \in {"new", "sort", "built", "ready"}
    /\ tpc = "new" => seen = {} /\ stack = <<>> /\ sorted = <<>> /\ maxd = <<>>
    /\ tpc # "new" => Laid
    /\ tpc \in {"sort", "built"} => Untimed
    /\ tpc = "sort" => Visits(stack, sorted, seen, TNodes, DOMAIN edelay)
    /\ tpc \in {"built", "ready"} => Sorts(sorted, TNodes, DOMAIN edelay)
    /\ tpc = "ready" => Analysed
    /\ tpc # "ready" => itry = 1
    /\ itry > 1 => dmax = maxd[0] /\ slack = ComputeSlack(arr, req, edelay)

(* It holds of the start. *)
LEMMA EngInvInit == TDInit /\ Timable => EngInv
  <1> SUFFICES ASSUME TDInit, Timable PROVE EngInv
    OBVIOUS
  <1>1. /\ tpc = "new" /\ seen = {} /\ stack = <<>> /\ sorted = <<>> /\ maxd = <<>>
        /\ slack = <<>> /\ delayOf = <<>> /\ dmax = 1 /\ itry = 1
    BY DEF TDInit, TInit, Init
  <1>2. IntValues(delayOf) /\ IntValues(slack)
    BY <1>1 DEF IntValues
  <1>3. QED
    BY <1>1, <1>2 DEF EngInv

(* Steps that leave the engine alone. *)
LEMMA EngineStays ==
  ASSUME EngInv, IntValues(delayOf'),
         UNCHANGED <<nl, tpc, tnodes, seen, stack, sorted, edelay, arr, req, maxd, slack, dmax, itry>>
  PROVE  EngInv'
  <1>1. /\ nl' = nl /\ tpc' = tpc /\ tnodes' = tnodes /\ seen' = seen
        /\ stack' = stack /\ sorted' = sorted /\ edelay' = edelay /\ arr' = arr /\ req' = req
        /\ maxd' = maxd /\ slack' = slack /\ dmax' = dmax /\ itry' = itry
    OBVIOUS
  <1>2. /\ Edges' = Edges /\ NodeSeq' = NodeSeq /\ (Timable' <=> Timable)
        /\ \A e : BuiltDelay(e)' = BuiltDelay(e)
    BY <1>1, NetlistStays
  <1>3. TNodes' = TNodes
    BY <1>1 DEF TNodes
  <1>4. Laid' <=> Laid
    BY <1>1, <1>2 DEF Laid
  <1>5. (Untimed' <=> Untimed) /\ (Analysed' <=> Analysed)
    BY <1>1, <1>3 DEF Untimed, Analysed, Pushed, Pulled
  <1>6. \A n : SourcePins(n)' = SourcePins(n)
    BY <1>1 DEF SourcePins, Pins
  <1>7. SlackEdges' = SlackEdges
    BY <1>1, <1>6 DEF SlackEdges
  <1>8. ComputeSlack(arr, req, edelay)' = ComputeSlack(arr, req, edelay)
    BY <1>1, <1>7 DEF ComputeSlack
  <1>9. /\ Visits(stack, sorted, seen, TNodes, DOMAIN edelay)' <=> Visits(stack, sorted, seen, TNodes, DOMAIN edelay)
        /\ Sorts(sorted, TNodes, DOMAIN edelay)' <=> Sorts(sorted, TNodes, DOMAIN edelay)
    BY <1>1, <1>3 DEF Visits, Sorts
  <1>10. QED
    BY <1>1, <1>2, <1>4, <1>5, <1>8, <1>9 DEF EngInv, IntValues
-----------------------------------------------------------------------------
(* The times to start from: those there are, or none. *)
LEMMA StartTimes ==
  ASSUME NEW N, N = TNodes, NEW E, NEW v, NEW w, Drawn(N, E),
         Untimed \/ Pushed([arr |-> arr, max |-> maxd], N, N, E, v),
         NEW a, a = [arr |-> [n \in TNodes |-> Grown(arr[n], 1, MinTime)],
                     max |-> Grown(maxd, 1, 0)]
  PROVE  Pushed(a, {}, N, E, w)
  <1> DEFINE g(n) == Grown(arr[n], 1, MinTime)
             h    == Grown(maxd, 1, 0)
  <1>1. \A q, x : Grown(q, 1, x) = [d \in 0..0 |-> IF d \in DOMAIN q THEN q[d] ELSE x]
    BY DEF Grown
  <1>2. /\ MinTime \in Int /\ 0 \in 0..0 /\ \A d \in 0..0 : d = 0
        /\ \A e \in E : e[2] \in N
    BY TimeAssumption DEF Drawn
  <1>3. \A q \in [0..0 -> Int] : \A x : Grown(q, 1, x) = q
    BY <1>1
  <1>4. \A x \in Int : Grown(<<>>, 1, x) \in [0..0 -> Int] /\ Grown(<<>>, 1, x)[0] = x
    <2>1. DOMAIN <<>> = {}
      OBVIOUS
    <2>2. QED
      BY <1>1, <2>1
  <1>5. CASE Untimed
    <2>1. \A n \in N : arr[n] = <<>>
      BY <1>5 DEF Untimed
    <2>2. \A n \in N : g(n) \in [0..0 -> Int] /\ g(n)[0] = MinTime
      BY <2>1, <1>2, <1>4
    <2>3. h \in [0..0 -> Int] /\ h[0] = 0
      BY <1>4, <1>5 DEF Untimed
    <2> HIDE DEF g, h
    <2>4. a.arr = [n \in N |-> g(n)] /\ a.max = h /\ a = [arr |-> a.arr, max |-> a.max]
      BY DEF g, h
    <2>5. a \in Arrivals(N)
      BY <2>2, <2>3, <2>4 DEF Arrivals
    <2>6. \A e \in E : a.arr[e[2]][0] = MinTime
      BY <1>2, <2>2, <2>4
    <2>7. QED
      BY <1>2, <2>3, <2>4, <2>5, <2>6 DEF Pushed
  <1>6. CASE Pushed([arr |-> arr, max |-> maxd], N, N, E, v)
    <2>1. /\ arr \in [N -> [0..0 -> Int]] /\ maxd \in [0..0 -> Int] /\ maxd[0] >= 0
          /\ \A e \in E : arr[e[2]][0] >= MinTime
      BY <1>6 DEF Pushed, Arrivals
    <2>2. \A n \in N : g(n) = arr[n] /\ arr[n] \in [0..0 -> Int]
      BY <2>1, <1>3
    <2>3. h = maxd
      BY <2>1, <1>3
    <2> HIDE DEF g, h
    <2>4. a.arr = [n \in N |-> g(n)] /\ a.max = h /\ a = [arr |-> a.arr, max |-> a.max]
      BY DEF g, h
    <2>5. a \in Arrivals(N)
      BY <2>1, <2>2, <2>3, <2>4 DEF Arrivals
    <2>6. \A e \in E : a.arr[e[2]][0] >= MinTime
      BY <1>2, <2>1, <2>2, <2>4
    <2>7. QED
      BY <2>1, <2>3, <2>4, <2>5, <2>6 DEF Pushed
  <1>7. QED
    BY <1>5, <1>6

(* compute_tgraph gives complete times, whatever there were.               *)
LEMMA TimesComputed ==
  ASSUME Timable, Laid, Sorts(sorted, TNodes, DOMAIN edelay), Untimed \/ Analysed,
         req \in [TNodes -> Int],
         NEW w \in [Edges -> Int], AnalyseTimes(w)
  PROVE  /\ edelay' = w
         /\ Pushed([arr |-> arr', max |-> maxd'], TNodes, TNodes, DOMAIN edelay, w)
         /\ Pulled(req', TNodes, maxd'[0], TNodes, DOMAIN edelay, w)
  <1>1. PICK N, E : N = TNodes /\ E = DOMAIN edelay
    OBVIOUS
  <1>2. Drawn(N, E) /\ E = Edges
    BY <1>1, GraphDrawn DEF Laid
  <1>3. E \in SUBSET (N \X N) /\ IsFiniteSet(E) /\ MinTime \in Int
    BY <1>2 DEF Drawn
  <1>4. PICK a : a = [arr |-> [n \in TNodes |-> Grown(arr[n], 1, MinTime)],
                      max |-> Grown(maxd, 1, 0)]
    OBVIOUS
  <1>5. Pushed(a, {}, N, E, w)
    <2>1. Untimed \/ Pushed([arr |-> arr, max |-> maxd], N, N, E, edelay)
      BY <1>1 DEF Analysed
    <2>2. QED
      BY <1>1, <1>2, <1>4, <2>1, StartTimes
  <1> DEFINE dom == [n \in TNodes |-> 0]
             fwd == ComputeTArr(w, dom, 1)
  <1>6. \A n \in N : dom[n] = 0
    BY <1>1
  <1>7. edelay' = w /\ arr' = fwd.arr /\ maxd' = fwd.max /\ req' = ComputeTReq(req, w, fwd.max[0])
    BY DEF AnalyseTimes
  <1>8. Pushed(fwd, N, N, E, w)
    <2> HIDE DEF dom
    <2>1. w \in [E -> Int] /\ Sorts(sorted, N, E)
      BY <1>1, <1>2
    <2>2. QED
      BY <1>1, <1>3, <1>4, <1>5, <1>6, <2>1, ArrivalsComputed
  <1> HIDE DEF fwd
  <1>9. fwd = [arr |-> fwd.arr, max |-> fwd.max] /\ fwd.max[0] \in Int
    BY <1>8 DEF Pushed, Arrivals
  <1>10. PICK m \in Int : m = fwd.max[0]
    BY <1>9
  <1>11. Pulled(ComputeTReq(req, w, m), N, m, N, E, w)
    <2>1. w \in [E -> Int] /\ Sorts(sorted, N, E) /\ req \in [N -> Int]
      BY <1>1, <1>2
    <2>2. QED
      BY <1>1, <1>3, <2>1, RequiredComputed
  <1>12. maxd'[0] = m
    BY <1>7, <1>10
  <1>13. req' = ComputeTReq(req, w, m)
    BY <1>7, <1>10
  <1>14. Pulled(req', N, maxd'[0], N, E, w)
    BY <1>11, <1>12, <1>13
  <1>15. Pushed([arr |-> arr', max |-> maxd'], N, N, E, w)
    BY <1>7, <1>8, <1>9
  <1>16. QED
    BY <1>1, <1>7, <1>14, <1>15
-----------------------------------------------------------------------------
(* The delays an edge is built with are integers. *)
LEMMA BuiltInt ==
  ASSUME Timable, NEW e
  PROVE  BuiltDelay(e) \in Int
  <1>1. \A f, x : IntValues(f) => Lookup(f, x) \in Int
    BY DEF Lookup, IntValues
  <1>2. IntValues(nl.arc) /\ IntValues(nl.setup) /\ IntValues(nl.clkq)
    BY DEF Timable, Sane, IntValues
  <1>3. PICK a, b, c : /\ a = Lookup(nl.setup, Owner(e[1])) /\ b = Lookup(nl.clkq, Owner(e[2]))
                       /\ c = Lookup(nl.arc, <<Owner(e[1]), Owner(e[2])>>)
    OBVIOUS
  <1>4. a \in Int /\ b \in Int /\ c \in Int /\ MinTime \in Int
    BY <1>1, <1>2, <1>3, TimeAssumption
  <1>5. BuiltDelay(e) \in {MinTime, a, b, c}
    <2>1. BuiltDelay(e) = CASE e[1][1] = "gen" -> MinTime
                            [] e[2][1] = "snk" -> a
                            [] e[1][1] = "src" -> b
                            [] OTHER -> c
      BY <1>3 DEF BuiltDelay
    <2>2. QED
      BY <2>1
  <1>6. QED
    BY <1>4, <1>5

(* The delays that are loaded are, and edges that are none of a net keep theirs. *)
LEMMA LoadedFits ==
  ASSUME Laid, IntValues(delayOf)
  PROVE  /\ Loaded \in [Edges -> Int]
         /\ \A e \in Edges : e[1][1] # "pin" => Loaded[e] = BuiltDelay(e)
  <1> DEFINE srcs == {PinNode(FirstPin(SourcePins(n))) :
                        n \in {m \in nl.top : SinkPins(m) \cup SourcePins(m) # {}}}
             new(e) == IF e[1] \in srcs THEN Lookup(delayOf, Owner(e[2])) ELSE edelay[e]
  <1>1. Loaded = [e \in Edges |-> new(e)]
    BY DEF Loaded, Laid
  <1>2. \A x \in srcs : x[1] = "pin"
    BY DEF PinNode
  <1>3. \A x : Lookup(delayOf, x) \in Int
    BY DEF Lookup, IntValues
  <1> HIDE DEF srcs
  <1>4. \A e \in Edges : new(e) \in Int /\ (e[1][1] # "pin" => new(e) = BuiltDelay(e))
    BY <1>2, <1>3 DEF Laid
  <1> HIDE DEF new
  <1>5. QED
    BY <1>1, <1>4

(* No edge leads to the source of a register. *)
LEMMA SourcesStart ==
  ASSUME NEW e \in Edges
  PROVE  e[2][1] # "src"
  <1>1. e \in PortEdges => e[2][1] = "pin"
    BY DEF PortEdges, PinNode
  <1>2. \A p : \A d \in NetEdges(p) : d[2][1] = "pin"
    BY DEF NetEdges, PinNode
  <1>3. e \in CompEdges => e[2][1] = "pin"
    BY <1>2 DEF CompEdges
  <1>4. e \in PrimEdges => e[2][1] = "pin"
    BY <1>2 DEF PrimEdges
  <1>5. e \in SetupEdges => e[2][1] = "snk"
    BY DEF SetupEdges
  <1>6. e \in ClkQEdges => e[2][1] = "pin"
    BY DEF ClkQEdges, PinNode
  <1>7. e \in GenEdges => e[2][1] = "pin"
    BY DEF GenEdges, PinNode
  <1>8. e \in ArcEdges => e[2][1] = "pin"
    BY DEF ArcEdges, PinNode
  <1>9. QED
    BY <1>1, <1>3, <1>4, <1>5, <1>6, <1>7, <1>8 DEF Edges

(* The longest path takes some time: a register's, to give its output.     *)
LEMMA SomeTime ==
  ASSUME Timable, NEW N, N = ToSet(NodeSeq), NEW w \in [Edges -> Int],
         \A e \in Edges : e[1][1] # "pin" => w[e] = BuiltDelay(e),
         NEW s, Pushed(s, N, N, Edges, w)
  PROVE  s.max[0] \in Nat \ {0}
  <1>1. PICK i \in Registers : \E o \in PinsOf(i) : ~nl.pin[o].sink /\ Lookup(nl.clkq, o) > 0
    BY DEF Timable, Clocked
  <1>2. PICK o \in PinsOf(i) : ~nl.pin[o].sink /\ Lookup(nl.clkq, o) > 0
    BY <1>1
  <1>3. PICK p : p = ClockPin(i)
    OBVIOUS
  <1>4. PICK e : e = <<<<"src", p>>, PinNode(o)>>
    OBVIOUS
  <1>5. e \in Edges
    <2>1. e \in ClkQEdges
      BY <1>2, <1>3, <1>4 DEF ClkQEdges
    <2>2. QED
      BY <2>1 DEF Edges
  <1>6. e[1] = <<"src", p>> /\ e[2] = <<"pin", o>> /\ e[1][1] = "src" /\ e[2][1] = "pin" /\ e[2][2] = o
    BY <1>4 DEF PinNode
  <1>7. e[1] \in N /\ e[2] \in N
    BY <1>5 DEF Timable, NoLoop, LoopFree
  <1>8. BuiltDelay(e) = Lookup(nl.clkq, o)
    <2>1. Owner(e[2]) = o
      BY <1>6 DEF Owner
    <2>2. e[1][1] # "gen" /\ e[2][1] # "snk"
      BY <1>6
    <2>3. PICK a, c : a = Lookup(nl.setup, Owner(e[1])) /\ c = Lookup(nl.arc, <<Owner(e[1]), Owner(e[2])>>)
      OBVIOUS
    <2>4. BuiltDelay(e) = CASE e[1][1] = "gen" -> MinTime
                            [] e[2][1] = "snk" -> a
                            [] e[1][1] = "src" -> Lookup(nl.clkq, Owner(e[2]))
                            [] OTHER -> c
      BY <2>3 DEF BuiltDelay
    <2>5. QED
      BY <2>1, <2>2, <2>4, <1>6
  <1>9. w[e] = Lookup(nl.clkq, o) /\ w[e] > 0 /\ w[e] \in Int
    BY <1>2, <1>5, <1>6, <1>8
  <1>10. \A d \in Edges : d[2] # e[1]
    BY <1>6, SourcesStart
  <1>11. s \in Arrivals(N)
    BY DEF Pushed
  <1>12. \A n \in N : s.arr[n][0] \in Int
    BY <1>11 DEF Arrivals
  <1>13. s.max[0] \in Int
    BY <1>11 DEF Arrivals
  <1>14. s.arr[e[1]][0] = 0
    BY <1>7, <1>10 DEF Pushed
  <1>15. s.arr[e[2]][0] >= 0 + w[e]
    BY <1>5, <1>7, <1>14 DEF Pushed
  <1>16. s.arr[e[2]][0] <= s.max[0]
    BY <1>7 DEF Pushed
  <1>17. QED
    BY <1>7, <1>9, <1>12, <1>13, <1>15, <1>16

(* Slacks are integers when times are. *)
LEMMA SlackInt ==
  ASSUME NEW N, NEW E, Drawn(N, E), NEW a \in [N -> [0..0 -> Int]], NEW r \in [N -> Int],
         NEW w \in [E -> Int]
  PROVE  IntValues(ComputeSlack(a, r, w))
  <1> DEFINE Q    == {Owner(y[2]) : y \in SlackEdges}
             x(p) == CHOOSE y \in SlackEdges : Owner(y[2]) = p
             v(p) == r[x(p)[2]] - a[x(p)[1]][0] - w[x(p)]
  <1>1. ComputeSlack(a, r, w) = [p \in Q |-> v(p)]
    BY DEF ComputeSlack
  <1>2. \A p \in Q : x(p) \in SlackEdges
    OBVIOUS
  <1>3. \A e \in SlackEdges : e \in E /\ e[1] \in N /\ e[2] \in N
    BY DEF SlackEdges, Drawn
  <1> HIDE DEF Q, x
  <1>4. \A p \in Q : v(p) \in Int
    <2> TAKE p \in Q
    <2>1. x(p) \in E /\ x(p)[1] \in N /\ x(p)[2] \in N
      BY <1>2, <1>3
    <2>2. r[x(p)[2]] \in Int /\ a[x(p)[1]][0] \in Int /\ w[x(p)] \in Int
      BY <2>1
    <2>3. QED
      BY <2>2
  <1> HIDE DEF v
  <1>5. QED
    BY <1>1, <1>4 DEF IntValues
-----------------------------------------------------------------------------
(* The graph is drawn. *)
LEMMA CreateTGraphKeeps ==
  ASSUME EngInv, CreateTGraph, UNCHANGED <<dmax, itry>>
  PROVE  EngInv'
  <1>1. /\ tpc = "new" /\ tnodes' = NodeSeq /\ edelay' = [e \in Edges |-> BuiltDelay(e)]
        /\ arr' = [n \in ToSet(NodeSeq) |-> <<>>] /\ req' = [n \in ToSet(NodeSeq) |-> MaxTime]
        /\ tpc' = IF NodeSeq = <<>> THEN "built" ELSE "sort"
        /\ nl' = nl /\ delayOf' = delayOf /\ seen' = seen /\ stack' = stack /\ sorted' = sorted
        /\ maxd' = maxd /\ slack' = slack /\ dmax' = dmax /\ itry' = itry
    BY DEF CreateTGraph
  <1>2. /\ Timable /\ seen = {} /\ stack = <<>> /\ sorted = <<>> /\ maxd = <<>> /\ itry = 1
        /\ dmax \in Nat \ {0} /\ IntValues(delayOf) /\ IntValues(slack)
    BY <1>1 DEF EngInv
  <1>3. /\ Edges' = Edges /\ NodeSeq' = NodeSeq /\ Timable'
        /\ \A e : BuiltDelay(e)' = BuiltDelay(e)
    BY <1>1, <1>2, NetlistStays
  <1>4. Laid'
    <2>1. edelay' \in [Edges -> Int] /\ \A e \in Edges : edelay'[e] = BuiltDelay(e)
      BY <1>1, <1>2, BuiltInt
    <2>2. QED
      BY <1>1, <1>3, <2>1 DEF Laid
  <1>5. PICK N, E : N = ToSet(NodeSeq) /\ E = Edges
    OBVIOUS
  <1>6. TNodes' = N /\ (DOMAIN edelay)' = E
    BY <1>1, <1>5 DEF TNodes
  <1>7. Untimed'
    BY <1>1, <1>2, <1>5, <1>6, TimeAssumption DEF Untimed
  <1>8. /\ tpc' \in {"built", "sort"} /\ (tpc' = "built" => N = {} /\ E = {})
    <2>1. NodeSeq = <<>> => N = {}
      BY <1>5 DEF ToSet
    <2>2. E \in SUBSET (N \X N)
      BY <1>2, <1>5 DEF Timable, NoLoop, LoopFree
    <2>3. QED
      BY <1>1, <2>1, <2>2
  <1>9. Visits(<<>>, <<>>, {}, N, E)
    <2>1. ElemsOf(<<>>) = {} /\ <<>> \in Seq(N) /\ Len(<<>>) = 0
      BY DEF ElemsOf
    <2>2. QED
      BY <2>1 DEF Visits
  <1>10. tpc' = "built" => Sorts(<<>>, N, E)
    BY <1>8 DEF Sorts
  <1>11. Visits(stack, sorted, seen, TNodes, DOMAIN edelay)'
    BY <1>1, <1>2, <1>6, <1>9
  <1>12. tpc' = "built" => Sorts(sorted, TNodes, DOMAIN edelay)'
    BY <1>1, <1>2, <1>6, <1>10
  <1>13. IntValues(delayOf)' /\ IntValues(slack)'
    BY <1>1, <1>2 DEF IntValues
  <1>14. QED
    BY <1>1, <1>2, <1>3, <1>4, <1>7, <1>8, <1>11, <1>12, <1>13 DEF EngInv

(* The sort goes on with the same graph. *)
LEMMA SortStays ==
  ASSUME EngInv, tpc = "sort", tpc' \in {"sort", "built"},
         UNCHANGED <<nl, delayOf, tnodes, edelay, arr, req, maxd, slack, dmax, itry>>,
         Visits(stack', sorted', seen', TNodes, DOMAIN edelay),
         tpc' = "built" => Sorts(sorted', TNodes, DOMAIN edelay)
  PROVE  EngInv'
  <1>1. /\ Edges' = Edges /\ NodeSeq' = NodeSeq /\ (Timable' <=> Timable)
        /\ \A e : BuiltDelay(e)' = BuiltDelay(e)
    BY NetlistStays
  <1>2. TNodes' = TNodes
    BY DEF TNodes
  <1>3. (Laid' <=> Laid) /\ (Untimed' <=> Untimed)
    BY <1>1, <1>2 DEF Laid, Untimed
  <1>4. /\ Timable /\ Laid /\ Untimed /\ itry = 1
        /\ dmax \in Nat \ {0} /\ IntValues(delayOf) /\ IntValues(slack)
    BY DEF EngInv
  <1>5. IntValues(delayOf)' /\ IntValues(slack)'
    BY <1>4 DEF IntValues
  <1>6. /\ Visits(stack, sorted, seen, TNodes, DOMAIN edelay)'
        /\ tpc' = "built" => Sorts(sorted, TNodes, DOMAIN edelay)'
    BY <1>2
  <1>7. QED
    BY <1>1, <1>3, <1>4, <1>5, <1>6 DEF EngInv

(* A node is visited. *)
LEMMA TopoVisitKeeps ==
  ASSUME EngInv, TopoVisit, UNCHANGED <<dmax, itry>>
  PROVE  EngInv'
  <1>1. /\ tpc = "sort" /\ tpc' = "sort" /\ sorted' = sorted
        /\ UNCHANGED <<nl, delayOf, tnodes, edelay, arr, req, maxd, slack, dmax, itry>>
    BY DEF TopoVisit
  <1>2. Timable /\ Laid /\ Visits(stack, sorted, seen, TNodes, DOMAIN edelay)
    BY <1>1 DEF EngInv
  <1>3. PICK N, E : N = TNodes /\ E = DOMAIN edelay
    OBVIOUS
  <1>4. Drawn(N, E) /\ tnodes \in Seq(N)
    BY <1>2, <1>3, GraphDrawn
  <1>5. Visits(stack', sorted', seen', N, E)
    <2>1. CASE stack = <<>>
      <3> DEFINE left == {k \in DOMAIN tnodes : tnodes[k] \notin seen}
      <3>1. /\ left # {} /\ stack' = <<tnodes[Min(left)]>>
            /\ seen' = seen \cup {tnodes[Min(left)]}
        BY <2>1 DEF TopoVisit
      <3>2. left \in SUBSET Int /\ IsFiniteSet(left) /\ DOMAIN tnodes = 1..Len(tnodes)
        <4>1. DOMAIN tnodes = 1..Len(tnodes) /\ Len(tnodes) \in Nat
          BY <1>4
        <4>2. IsFiniteSet(1..Len(tnodes))
          BY <4>1, FS_Interval
        <4>3. left \in SUBSET (1..Len(tnodes))
          BY <4>1
        <4>4. QED
          BY <4>1, <4>2, <4>3, FS_Subset
      <3>3. PICK k : k = Min(left)
        OBVIOUS
      <3>4. k \in left
        <4> HIDE DEF left
        <4> QED
          BY <3>1, <3>2, <3>3, Extremes
      <3>5. PICK n \in N : n = tnodes[k]
        BY <3>2, <3>4, <1>4
      <3>6. n \notin seen /\ stack' = <<n>> /\ seen' = seen \cup {n}
        BY <3>1, <3>3, <3>4, <3>5
      <3>7. Visits(<<>>, sorted, seen, N, E)
        BY <1>2, <1>3, <2>1
      <3>8. Visits(<<n>>, sorted, seen \cup {n}, N, E)
        BY <3>6, <3>7, VisitAnew
      <3>9. QED
        BY <1>1, <3>6, <3>8
    <2>2. CASE stack # <<>>
      <3>1. PICK e \in OutEdges(Head(stack)) :
               e[2] \notin seen /\ stack' = <<e[2]>> \o stack /\ seen' = seen \cup {e[2]}
        BY <2>2 DEF TopoVisit
      <3>2. e \in E /\ e[1] = Head(stack) /\ e[2] \in N /\ e = <<e[1], e[2]>>
        BY <1>3, <1>4 DEF OutEdges, Drawn
      <3>3. PICK n \in N : n = e[2]
        BY <3>2
      <3>4. Visits(stack, sorted, seen, N, E) /\ <<Head(stack), n>> \in E /\ n \notin seen
        BY <1>2, <1>3, <3>1, <3>2, <3>3
      <3>5. Visits(<<n>> \o stack, sorted, seen \cup {n}, N, E)
        BY <2>2, <3>4, VisitOn
      <3>6. QED
        BY <1>1, <3>1, <3>3, <3>5
    <2>3. QED
      BY <2>1, <2>2
  <1>6. QED
    BY <1>1, <1>3, <1>5, SortStays

(* A node is left. *)
LEMMA TopoLeaveKeeps ==
  ASSUME EngInv, TopoLeave, UNCHANGED <<dmax, itry>>
  PROVE  EngInv'
  <1>1. /\ tpc = "sort" /\ stack # <<>> /\ seen' = seen
        /\ \A e \in OutEdges(Head(stack)) : e[2] \in seen
        /\ sorted' = Append(sorted, Head(stack)) /\ stack' = Tail(stack)
        /\ tpc' = IF Len(sorted') = Len(tnodes) THEN "built" ELSE "sort"
        /\ UNCHANGED <<nl, delayOf, tnodes, edelay, arr, req, maxd, slack, dmax, itry>>
    BY DEF TopoLeave
  <1>2. Timable /\ Laid /\ Visits(stack, sorted, seen, TNodes, DOMAIN edelay)
    BY <1>1 DEF EngInv
  <1>3. PICK N, E : N = TNodes /\ E = DOMAIN edelay
    OBVIOUS
  <1>4. /\ Drawn(N, E) /\ LoopFree(N, E) /\ IsFiniteSet(N) /\ Cardinality(N) <= Len(tnodes)
        /\ E \in SUBSET (N \X N)
    BY <1>2, <1>3, GraphDrawn DEF LoopFree
  <1>5. Visits(stack', sorted', seen', N, E)
    <2>1. \A e \in E : e[1] = Head(stack) => e[2] \in seen
      BY <1>1, <1>3 DEF OutEdges
    <2>2. Visits(Tail(stack), Append(sorted, Head(stack)), seen, N, E)
      BY <1>1, <1>2, <1>3, <1>4, <2>1, VisitLeave
    <2>3. QED
      BY <1>1, <2>2
  <1>6. ASSUME tpc' = "built"
        PROVE  Sorts(sorted', N, E)
    <2>1. PICK a, s, m : a = stack' /\ s = sorted' /\ m = seen'
      OBVIOUS
    <2>2. Visits(a, s, m, N, E) /\ Cardinality(N) <= Len(s)
      BY <1>1, <1>4, <1>5, <1>6, <2>1
    <2>3. Sorts(s, N, E)
      BY <1>4, <2>2, VisitedAll
    <2>4. QED
      BY <2>1, <2>3
  <1>7. QED
    BY <1>1, <1>3, <1>5, <1>6, SortStays
-----------------------------------------------------------------------------
(* Delays for the connections, and those of the other edges as they were built. *)
Delays(w) == w \in [Edges -> Int] /\ \A e \in Edges : e[1][1] # "pin" => w[e] = BuiltDelay(e)

(* What an analysis with them computes. *)
LEMMA AnalysisGives ==
  ASSUME EngInv, tpc \in {"built", "ready"}, NEW w, Delays(w), AnalyseTimes(w)
  PROVE  /\ edelay' = w
         /\ Pushed([arr |-> arr', max |-> maxd'], TNodes, TNodes, DOMAIN edelay, w)
         /\ Pulled(req', TNodes, maxd'[0], TNodes, DOMAIN edelay, w)
         /\ maxd'[0] \in Nat \ {0}
         /\ IntValues(ComputeSlack(arr', req', w))
  <1>1. /\ Timable /\ Laid /\ Sorts(sorted, TNodes, DOMAIN edelay) /\ (Untimed \/ Analysed)
    BY DEF EngInv
  <1>2. req \in [TNodes -> Int]
    BY <1>1 DEF Untimed, Analysed, Pulled
  <1>3. PICK N, E : N = TNodes /\ E = DOMAIN edelay
    OBVIOUS
  <1>4. Drawn(N, E) /\ E = Edges /\ N = ToSet(NodeSeq)
    BY <1>1, <1>3, GraphDrawn DEF Laid, TNodes
  <1>5. w \in [Edges -> Int]
    BY DEF Delays
  <1>6. /\ edelay' = w
        /\ Pushed([arr |-> arr', max |-> maxd'], TNodes, TNodes, DOMAIN edelay, w)
        /\ Pulled(req', TNodes, maxd'[0], TNodes, DOMAIN edelay, w)
    BY <1>1, <1>2, <1>5, TimesComputed
  <1>7. PICK s, r : s = [arr |-> arr', max |-> maxd'] /\ r = req'
    OBVIOUS
  <1>8. Pushed(s, N, N, Edges, w) /\ Pulled(r, N, maxd'[0], N, Edges, w)
    BY <1>3, <1>4, <1>6, <1>7
  <1>9. s.max[0] \in Nat \ {0}
    BY <1>1, <1>4, <1>5, <1>8, SomeTime DEF Delays
  <1>10. s.max = maxd' /\ s.arr = arr'
    BY <1>7
  <1>11. IntValues(ComputeSlack(s.arr, r, w))
    <2>1. PICK a : a = s.arr
      OBVIOUS
    <2>2. a \in [N -> [0..0 -> Int]]
      BY <1>8, <2>1 DEF Pushed, Arrivals
    <2>3. r \in [N -> Int] /\ w \in [E -> Int]
      BY <1>4, <1>5, <1>8 DEF Pulled
    <2>4. IntValues(ComputeSlack(a, r, w))
      BY <1>4, <2>2, <2>3, SlackInt
    <2>5. QED
      BY <2>1, <2>4
  <1>12. IntValues(ComputeSlack(arr', req', w))
    BY <1>7, <1>10, <1>11
  <1>13. maxd'[0] \in Nat \ {0}
    BY <1>9, <1>10
  <1>14. QED
    BY <1>6, <1>12, <1>13

(* The engine is as it should be after an analysis. *)
LEMMA AnalysisKeeps ==
  ASSUME EngInv, tpc \in {"built", "ready"}, NEW w, Delays(w), AnalyseTimes(w),
         tpc' = "ready", UNCHANGED <<nl, delayOf, tnodes, sorted>>,
         IntValues(slack'), dmax' \in Nat \ {0},
         itry' > 1 => dmax' = maxd'[0] /\ slack' = ComputeSlack(arr', req', w)
  PROVE  EngInv'
  <1>1. /\ Timable /\ Laid /\ Sorts(sorted, TNodes, DOMAIN edelay)
        /\ DOMAIN edelay = Edges /\ IntValues(delayOf)
    BY DEF EngInv, Laid
  <1>2. /\ edelay' = w
        /\ Pushed([arr |-> arr', max |-> maxd'], TNodes, TNodes, DOMAIN edelay, w)
        /\ Pulled(req', TNodes, maxd'[0], TNodes, DOMAIN edelay, w)
    BY AnalysisGives
  <1>3. /\ Edges' = Edges /\ NodeSeq' = NodeSeq /\ (Timable' <=> Timable)
        /\ \A e : BuiltDelay(e)' = BuiltDelay(e)
    BY NetlistStays
  <1>4. TNodes' = TNodes /\ (DOMAIN edelay)' = DOMAIN edelay
    BY <1>1, <1>2 DEF TNodes, Delays
  <1>5. Laid'
    BY <1>1, <1>2, <1>3 DEF Laid, Delays
  <1>6. Analysed'
    <2>1. Pushed([arr |-> arr', max |-> maxd'], TNodes', TNodes', (DOMAIN edelay)', edelay')
      BY <1>2, <1>4
    <2>2. Pulled(req', TNodes', maxd'[0], TNodes', (DOMAIN edelay)', edelay')
      BY <1>2, <1>4
    <2>3. QED
      BY <2>1, <2>2 DEF Analysed
  <1>7. Sorts(sorted, TNodes, DOMAIN edelay)'
    BY <1>1, <1>4
  <1>8. SlackEdges' = SlackEdges
    <2>1. \A n : SourcePins(n)' = SourcePins(n)
      BY DEF SourcePins, Pins
    <2>2. QED
      BY <1>4, <2>1 DEF SlackEdges
  <1>9. ComputeSlack(arr, req, edelay)' = ComputeSlack(arr', req', w)
    BY <1>2, <1>8 DEF ComputeSlack
  <1>10. IntValues(delayOf)' /\ IntValues(slack)'
    BY <1>1 DEF IntValues
  <1>11. QED
    BY <1>1, <1>3, <1>5, <1>6, <1>7, <1>9, <1>10 DEF EngInv

(* The first analysis. *)
LEMMA FirstAnalysisKeeps ==
  ASSUME EngInv, FirstAnalysis
  PROVE  EngInv'
  <1>1. /\ tpc = "built" /\ tpc' = "ready" /\ AnalyseTimes(edelay)
        /\ slack' = Over([p \in RoutedPins |-> 0], ComputeSlack(arr', req', edelay))
        /\ UNCHANGED <<nl, delayOf, tnodes, sorted, dmax, itry>>
    BY DEF FirstAnalysis, vars, loopVars
  <1>2. itry = 1 /\ dmax \in Nat \ {0}
    BY <1>1 DEF EngInv
  <1>3. PICK w : w = edelay
    OBVIOUS
  <1>4. Delays(w) /\ AnalyseTimes(w)
    BY <1>1, <1>3 DEF EngInv, Laid, Delays
  <1>5. IntValues(ComputeSlack(arr', req', w))
    BY <1>1, <1>4, AnalysisGives
  <1>6. IntValues(slack')
    <2>1. PICK c : c = ComputeSlack(arr', req', w)
      OBVIOUS
    <2>2. IntValues(c)
      BY <1>5, <2>1
    <2>3. IntValues(Over([p \in RoutedPins |-> 0], c))
      BY <2>2 DEF IntValues, Over
    <2>4. QED
      BY <1>1, <1>3, <2>1, <2>3
  <1>7. QED
    BY <1>1, <1>2, <1>4, <1>6, AnalysisKeeps

(* The delays of the routes are loaded, and times, slacks and the maximal  *)
(* delay are computed again.                                               *)
LEMMA NextAnalysisKeeps ==
  ASSUME EngInv, TDNextIteration
  PROVE  EngInv'
  <1>1. /\ tpc = "ready" /\ tpc' = "ready" /\ Analyse(Loaded) /\ dmax' = maxd'[0]
        /\ UNCHANGED <<nl, delayOf, tnodes, sorted>>
    BY DEF TDNextIteration
  <1>2. PICK w : w = Loaded
    OBVIOUS
  <1>3. Delays(w)
    BY <1>1, <1>2, LoadedFits DEF EngInv, Delays
  <1>4. AnalyseTimes(w) /\ slack' = ComputeSlack(arr', req', w)
    <2>1. AnalyseTimes(Loaded) /\ slack' = ComputeSlack(arr', req', Loaded)
      BY <1>1 DEF Analyse
    <2>2. QED
      BY <1>2, <2>1
  <1>5. maxd'[0] \in Nat \ {0} /\ IntValues(ComputeSlack(arr', req', w))
    BY <1>1, <1>3, <1>4, AnalysisGives
  <1>6. QED
    BY <1>1, <1>3, <1>4, <1>5, AnalysisKeeps

(* The delays that a finished net has for the engine are integers. *)
LEMMA FinishKeeps ==
  ASSUME TDInv, EngInv, TDFinish
  PROVE  EngInv'
  <1>1. /\ pc = "search" /\ spc = "sink" /\ sinkIdx > Len(order) /\ delayOf' = Over(TreeDelays, delayOf)
        /\ UNCHANGED <<nl, tpc, tnodes, seen, stack, sorted, edelay, arr, req, maxd, slack,
                       dmax, itry>>
    BY DEF TDFinish
  <1>2. /\ order \in Seq(Node) /\ Len(order) \in Nat /\ sinkIdx = Len(order) + 1
        /\ Grows(tree) /\ OpensOn(tree, path[Cur], nets[Cur].src)
    BY <1>1, TDSearching
  <1>3. \A x \in ElemsOf(order) : x \in ElemsOf(path[Cur])
    <2>1. \A i \in 1..Len(order) : order[i] \in ElemsOf(path[Cur])
      BY <1>1, <1>2 DEF TDInv, Aims
    <2>2. DOMAIN order = 1..Len(order)
      BY <1>2
    <2>3. QED
      BY <2>1, <2>2 DEF ElemsOf
  <1>4. \A x \in ElemsOf(order) : tree[TreeNodeOf(tree, x)].delay \in Int
    <2> TAKE x \in ElemsOf(order)
    <2>1. \E i \in DOMAIN tree : tree[i].owner = x
      BY <1>2, <1>3 DEF OpensOn
    <2>2. tree \in Seq(TreeNodes)
      BY <1>2 DEF Grows
    <2>3. TreeNodeOf(tree, x) \in DOMAIN tree
      BY <2>1, <2>2, LatestNode
    <2>4. tree[TreeNodeOf(tree, x)] \in TreeNodes
      BY <2>2, <2>3
    <2>5. QED
      BY <2>4 DEF TreeNodes
  <1>5. IntValues(TreeDelays)
    <2> DEFINE S    == {nets[Cur].pinOf[x] : x \in ElemsOf(order)}
               x(p) == CHOOSE y \in ElemsOf(order) : nets[Cur].pinOf[y] = p
               v(p) == tree[TreeNodeOf(tree, x(p))].delay
    <2>1. TreeDelays = [p \in S |-> v(p)]
      BY DEF TreeDelays
    <2>2. \A p \in S : x(p) \in ElemsOf(order)
      OBVIOUS
    <2> HIDE DEF S, x
    <2>3. \A p \in S : v(p) \in Int
      BY <2>2, <1>4
    <2> HIDE DEF v
    <2>4. QED
      BY <2>1, <2>3 DEF IntValues
  <1>6. IntValues(delayOf')
    <2>1. IntValues(delayOf)
      BY DEF EngInv
    <2>2. QED
      BY <1>1, <1>5, <2>1 DEF IntValues, Over
  <1>7. QED
    BY <1>1, <1>6, EngineStays

(* What the engine delivers is what the router needs.                      *)
LEMMA EngineDelivers == EngInv => Timed
  <1> SUFFICES ASSUME EngInv PROVE Timed
    OBVIOUS
  <1>1. dmax \in Nat \ {0} /\ IntValues(slack)
    BY DEF EngInv
  <1>2. \A p : Lookup(slack, p) \in Int
    BY <1>1 DEF IntValues, Lookup
  <1>3. QED
    BY <1>1, <1>2 DEF Timed

(* The engine keeps its invariant, whatever the step.                      *)
LEMMA EngInvStep == TDInv /\ EngInv /\ [TDNext]_tdvars => EngInv'
  <1> SUFFICES ASSUME TDInv, EngInv, [TDNext]_tdvars
               PROVE  EngInv'
    OBVIOUS
  <1>1. CASE BuildGraph
    <2>1. UNCHANGED <<dmax, itry>>
      BY <1>1 DEF BuildGraph, vars, loopVars
    <2>2. CreateTGraph \/ TopoVisit \/ TopoLeave
      BY <1>1 DEF BuildGraph
    <2>3. QED
      BY <2>1, <2>2, CreateTGraphKeeps, TopoVisitKeeps, TopoLeaveKeeps
  <1>2. CASE UNCHANGED <<engine, dmax, itry>>
    <2>1. UNCHANGED <<nl, tpc, tnodes, seen, stack, sorted, edelay, arr, req, maxd, slack, dmax, itry>>
      BY <1>2 DEF engine, tvars
    <2>2. IntValues(delayOf')
      BY <1>2 DEF engine, tvars, EngInv
    <2>3. QED
      BY <2>1, <2>2, EngineStays
  <1>3. CASE \/ TDSkipNet \/ TDBegin \/ TDBeginSink \/ TDPopStale \/ TDPopExpand \/ TDReachSink
             \/ TDFail \/ TDSucceed \/ TDReturned \/ UNCHANGED tdvars
    <2>1. TDSkipNet \/ TDSucceed \/ TDReturned \/ UNCHANGED tdvars => UNCHANGED <<engine, dmax, itry>>
      BY DEF TDSkipNet, SkipNet, TDSucceed, Succeed, TDReturned, tdvars, vars, loopVars, engine
    <2>2. TDBegin \/ TDFail => UNCHANGED <<engine, dmax, itry>>
      BY DEF TDBegin, TDFail
    <2>3. TDBeginSink \/ TDPopStale \/ TDPopExpand \/ TDReachSink => UNCHANGED <<engine, dmax, itry>>
      BY DEF TDBeginSink, TDPopStale, TDPopExpand, TDReachSink, loopVars
    <2>4. QED
      BY <1>2, <1>3, <2>1, <2>2, <2>3
  <1>4. QED
    BY <1>1, <1>3, FirstAnalysisKeeps, NextAnalysisKeeps, FinishKeeps DEF TDNext

(* A pin of the graph has one slack edge when it has one source.           *)
LEMMA DrivenOnce ==
  ASSUME OneSource, Laid
  PROVE  OneDriver
  <1>1. DOMAIN edelay = Edges
    BY DEF Laid
  <1>2. QED
    BY <1>1 DEF OneDriver, OneSource, SlackEdges, Drives

(* No connection is taken for less critical than it is.                    *)
LEMMA EngineIsSafe == EngInv /\ OneSource => SlackIsSafe
  <1> SUFFICES ASSUME EngInv, OneSource, tpc = "ready", itry > 1 PROVE SlackIsSafe
    BY DEF SlackIsSafe
  <1>1. /\ Timable /\ Laid /\ Sorts(sorted, TNodes, DOMAIN edelay) /\ Analysed
        /\ dmax = maxd[0] /\ slack = ComputeSlack(arr, req, edelay)
    BY DEF EngInv
  <1>2. PICK N, E : N = TNodes /\ E = DOMAIN edelay
    OBVIOUS
  <1>3. Drawn(N, E) /\ OneDriver
    BY <1>1, <1>2, GraphDrawn, DrivenOnce
  <1>4. Pushed([arr |-> arr, max |-> maxd], N, N, E, edelay) /\ Pulled(req, N, dmax, N, E, edelay)
    BY <1>1, <1>2 DEF Analysed
  <1>5. Sorts(sorted, N, E) /\ MinTime <= 0
    BY <1>1, <1>2, TimeAssumption
  <1>6. QED
    BY <1>1, <1>3, <1>4, <1>5, Certified

(* The netlist stays what it is.                                           *)
LEMMA NetlistKept == [TDNext]_tdvars => UNCHANGED nl
  <1> SUFFICES ASSUME [TDNext]_tdvars PROVE nl' = nl
    OBVIOUS
  <1>1. BuildGraph \/ FirstAnalysis \/ TDFinish \/ TDNextIteration => nl' = nl
    BY DEF BuildGraph, CreateTGraph, TopoVisit, TopoLeave, FirstAnalysis, TDFinish, TDNextIteration
  <1>2. TDSkipNet \/ TDSucceed \/ TDReturned \/ UNCHANGED tdvars => nl' = nl
    BY DEF TDSkipNet, TDSucceed, TDReturned, tdvars, engine, tvars
  <1>3. \/ TDBegin \/ TDBeginSink \/ TDPopStale \/ TDPopExpand \/ TDReachSink \/ TDFail
        => nl' = nl
    BY DEF TDBegin, TDBeginSink, TDPopStale, TDPopExpand, TDReachSink, TDFail, engine, tvars
  <1>4. QED
    BY <1>1, <1>2, <1>3 DEF TDNext
-----------------------------------------------------------------------------
(* The loop of the timing driven router and the engine in it keep their    *)
(* invariants, for designs without combinational loops that have a         *)
(* register: the engine's slacks are what the router needs to choose by,   *)
(* and the router's delays are what the engine needs to compute them.      *)
THEOREM TDInvariance ==
  TDSpec /\ Posed /\ Bare /\ Electric /\ Timable => [](TDInv /\ EngInv)
  <1>1. TDInit /\ Posed /\ Bare /\ Electric /\ Timable => TDInv /\ EngInv
    BY TDInvInit, EngInvInit
  <1>2. (TDInv /\ EngInv) /\ [TDNext]_tdvars => (TDInv /\ EngInv)'
    <2> SUFFICES ASSUME TDInv, EngInv, [TDNext]_tdvars
                 PROVE  TDInv' /\ EngInv'
      OBVIOUS
    <2>1. TDInv'
      BY EngineDelivers, TDInvStep
    <2>2. EngInv'
      BY EngInvStep
    <2>3. QED
      BY <2>1, <2>2
  <1>3. QED
    BY <1>1, <1>2, PTL DEF TDSpec

(* In every iteration but the first the slack of a routed pin is at most   *)
(* what the longest path through it leaves of the maximal delay, although  *)
(* the engine starts from the times of the iteration before: arrivals and  *)
(* the maximal delay only grow, and the required times of nodes that lead  *)
(* on only fall.                                                           *)
THEOREM SlackSafe ==
  TDSpec /\ Posed /\ Bare /\ Electric /\ Timable /\ OneSource => []SlackIsSafe
  <1>1. OneSource /\ [TDNext]_tdvars => OneSource'
    BY NetlistKept, NetlistStays
  <1>2. TDSpec /\ OneSource => []OneSource
    BY <1>1, PTL DEF TDSpec
  <1>3. QED
    BY <1>2, TDInvariance, EngineIsSafe, PTL
-----------------------------------------------------------------------------
(* A set of one element at most has no two.                                *)
LEMMA AtMostOne ==
  ASSUME NEW V, IsFiniteSet(V), Cardinality(V) <= 1, NEW i \in V, NEW j \in V
  PROVE  i = j
  <1> SUFFICES ASSUME i # j
               PROVE  FALSE
    OBVIOUS
  <1>1. IsFiniteSet({i}) /\ Cardinality({i}) = 1
    BY FS_Singleton
  <1>2. IsFiniteSet({i} \cup {j}) /\ Cardinality({i} \cup {j}) = 2
    BY <1>1, FS_AddElement
  <1>3. {i} \cup {j} \in SUBSET V
    OBVIOUS
  <1>4. 2 <= Cardinality(V)
    BY <1>2, <1>3, FS_Subset
  <1>5. Cardinality(V) \in Nat
    BY FS_CardinalityType
  <1>6. QED
    BY <1>4, <1>5

(* The nets that hold x. *)
HoldersOf(P, x) == {n \in Net : x \in ElemsOf(P[n])}

(* Lists that were built branch by branch. *)
Walks(P) ==
    /\ P \in [Net -> Seq(Node)]
    /\ \A n \in Net : P[n] = <<>> \/ IsWalk(P[n], nets[n].src)

(* A list has a place where x is new exactly if it holds x.                *)
LEMMA HeldAtPlace ==
  ASSUME NEW P, Walks(P), NEW n \in Net, NEW x
  PROVE  x \in ElemsOf(P[n]) <=> PlacesIn(P[n], x) # {}
  <1>1. ASSUME x \in ElemsOf(P[n])
        PROVE  PlacesIn(P[n], x) # {}
    <2>1. P[n] # <<>>
      BY <1>1 DEF ElemsOf
    <2>2. IsWalk(P[n], nets[n].src)
      BY <2>1 DEF Walks
    <2>3. \E i \in Fresh(P[n]) : P[n][i] = x
      BY <1>1, <2>2, FreshSomewhere
    <2>4. QED
      BY <2>3 DEF PlacesIn
  <1>2. ASSUME PlacesIn(P[n], x) # {}
        PROVE  x \in ElemsOf(P[n])
    <2>1. PICK i \in 1..Len(P[n]) : P[n][i] = x
      BY <1>2 DEF PlacesIn, Fresh
    <2>2. P[n] \in Seq(Node)
      BY DEF Walks
    <2>3. i \in DOMAIN P[n]
      BY <2>1, <2>2
    <2>4. QED
      BY <2>1, <2>3 DEF ElemsOf
  <1>3. QED
    BY <1>1, <1>2

(* Where no list takes x up twice, there are as many uses as nets hold it. *)
LEMMA UsesAreHolders ==
  ASSUME NEW P, Walks(P), NEW x,
         \A n \in Net : Cardinality(PlacesIn(P[n], x)) <= 1
  PROVE  Cardinality(UsesOf(P, x)) = Cardinality(HoldersOf(P, x))
  <1> DEFINE H    == HoldersOf(P, x)
             U    == UsesOf(P, x)
             at(n) == CHOOSE j \in PlacesIn(P[n], x) : TRUE
             f    == [n \in H |-> <<n, at(n)>>]
  <1>1. ASSUME NEW n \in H
        PROVE  n \in Net /\ at(n) \in PlacesIn(P[n], x)
    <2>1. n \in Net /\ x \in ElemsOf(P[n])
      BY DEF HoldersOf
    <2>2. PlacesIn(P[n], x) # {}
      BY <2>1, HeldAtPlace
    <2>3. QED
      BY <2>1, <2>2
  <1>2. \A n \in Net : PlacesIn(P[n], x) \subseteq Nat
    BY DEF PlacesIn, Fresh
  <1>3. \A n \in Net : \A j \in PlacesIn(P[n], x) : n \in H /\ at(n) = j
    <2> TAKE n \in Net
    <2> TAKE j \in PlacesIn(P[n], x)
    <2>1. x \in ElemsOf(P[n])
      BY HeldAtPlace
    <2>2. n \in H
      BY <2>1 DEF HoldersOf
    <2>3. P[n] \in Seq(Node)
      BY DEF Walks
    <2>4. IsFiniteSet(PlacesIn(P[n], x))
      BY <2>3, PlacesFinite
    <2>5. at(n) \in PlacesIn(P[n], x)
      BY <1>1, <2>2
    <2> HIDE DEF at
    <2>6. at(n) = j
      BY <2>4, <2>5, AtMostOne
    <2>7. QED
      BY <2>2, <2>6
  <1>4. U = {u \in Net \X Nat : u[2] \in PlacesIn(P[u[1]], x)}
    BY DEF UsesOf
  <1> HIDE DEF at, H, U
  <1>5. f \in [H -> U]
    <2>1. \A n \in H : <<n, at(n)>> \in U
      BY <1>1, <1>2, <1>4
    <2>2. QED
      BY <2>1
  <1>6. \A m, n \in H : f[m] = f[n] => m = n
    OBVIOUS
  <1>7. \A u \in U : \E n \in H : f[n] = u
    <2> TAKE u \in U
    <2>1. u = <<u[1], u[2]>> /\ u[1] \in Net /\ u[2] \in PlacesIn(P[u[1]], x)
      BY <1>4
    <2>2. u[1] \in H /\ at(u[1]) = u[2]
      BY <1>3, <2>1
    <2>3. f[u[1]] = u
      BY <2>1, <2>2
    <2>4. QED
      BY <2>2, <2>3
  <1>8. IsFiniteSet(H)
    <2>1. H \in SUBSET Net
      BY DEF H, HoldersOf
    <2>2. QED
      BY <2>1, NetlistAssumption, FS_Subset
  <1> HIDE DEF f
  <1>9. Cardinality(U) = Cardinality(H)
    BY <1>5, <1>6, <1>7, <1>8, CountedBy
  <1>10. QED
    BY <1>9 DEF U, H

(* At every moment a node's occupancy is the number of nets that hold it,  *)
(* unless a net has taken it up twice: what update_trace_back counts for a *)
(* branch is what path_update_one_cost later takes off for the whole list. *)
THEOREM OccupancyCounts ==
  TDSpec /\ Posed /\ Bare /\ Electric /\ Timable => []OccupancyIsUse
  <1>1. TDInv => OccupancyIsUse
    <2> SUFFICES ASSUME TDInv, NEW x \in Node, \A n \in Net : ~Rejoins(n, x)
                 PROVE  occ[x] = Cardinality({n \in Net : x \in ElemsOf(path[n])})
      BY DEF OccupancyIsUse
    <2>1. PICK P : P = path
      OBVIOUS
    <2>2. Walks(P) /\ occ[x] = Cardinality(UsesOf(P, x))
      BY <2>1 DEF TDInv, TDLists, Counted, Walks
    <2>3. \A n \in Net : Cardinality(PlacesIn(P[n], x)) <= 1
      <3> TAKE n \in Net
      <3>1. VisitCounts(path[n])[x] = Cardinality(PlacesIn(path[n], x))
        BY PlacesVisited DEF TDInv, TDLists
      <3>2. ~(Cardinality(PlacesIn(P[n], x)) > 1)
        BY <2>1, <3>1 DEF Rejoins
      <3>3. P[n] \in Seq(Node)
        BY <2>2 DEF Walks
      <3>4. Cardinality(PlacesIn(P[n], x)) \in Nat
        BY <3>3, PlacesFinite
      <3>5. QED
        BY <3>2, <3>4
    <2>4. Cardinality(UsesOf(P, x)) = Cardinality(HoldersOf(P, x))
      BY <2>2, <2>3, UsesAreHolders
    <2>5. QED
      BY <2>1, <2>2, <2>4 DEF HoldersOf
  <1>2. QED
    BY <1>1, TDInvariance, PTL

(* Every node has room for one net, as RTNode's constructor sets it. *)
Room == \A x \in Node : Capacity[x] = 1

(* Where the design is feasible, a list takes up none of its nodes twice.  *)
LEMMA TDOnce ==
  ASSUME TDInv, Room, Feasible, NEW n \in Net, NEW x \in ElemsOf(path[n])
  PROVE  /\ x \in Node
         /\ occ[x] <= 1 /\ occ[x] = Cardinality(UsesOf(path, x))
         /\ \A m \in Net : Cardinality(PlacesIn(path[m], x)) <= 1
  <1>1. path \in [Net -> Seq(Node)]
    BY DEF TDInv, TDLists
  <1>2. x \in Node
    BY <1>1, ElemsFit
  <1>3. occ[x] \in Int /\ occ[x] <= 1 /\ occ[x] = Cardinality(UsesOf(path, x))
    <2>1. occ[x] \in Int /\ occ[x] = Cardinality(UsesOf(path, x))
      BY <1>2 DEF TDInv, Counters, Counted
    <2>2. ~(occ[x] > Capacity[x]) /\ Capacity[x] = 1
      BY <1>2 DEF Feasible, Overused, Room
    <2>3. QED
      BY <2>1, <2>2
  <1>4. ASSUME NEW m \in Net
        PROVE  Cardinality(PlacesIn(path[m], x)) <= 1
    <2>1. PICK P, O : P = path /\ O = {u \in UsesOf(P, x) : u[1] # m}
      OBVIOUS
    <2>2. /\ Cardinality(O) \in Nat
          /\ Cardinality(UsesOf(P, x)) = Cardinality(O) + Cardinality(PlacesIn(P[m], x))
      BY <1>1, <2>1, UsesSplit
    <2>3. Cardinality(PlacesIn(P[m], x)) \in Nat
      BY <1>1, <2>1, PlacesFinite
    <2>4. QED
      BY <1>3, <2>1, <2>2, <2>3
  <1>5. QED
    BY <1>2, <1>3, <1>4

(* The list of a net is then a route.                                      *)
LEMMA TDWalkIsRoute ==
  ASSUME TDInv, Room, Feasible, NEW n \in Net, path[n] # <<>>
  PROVE  IsRoute(path[n], nets[n].src)
  <1> DEFINE p == path[n]
  <1>1. IsWalk(p, nets[n].src) /\ p \in Seq(Node)
    BY DEF TDInv, TDLists
  <1>2. ASSUME NEW i \in Fresh(p), NEW j \in Fresh(p), p[i] = p[j]
        PROVE  i = j
    <2>1. i \in DOMAIN p
      BY <1>1 DEF Fresh
    <2> DEFINE x == p[i]
               V == PlacesIn(p, x)
    <2>2. x \in ElemsOf(p)
      BY <2>1 DEF ElemsOf
    <2>3. i \in V /\ j \in V
      BY <1>2 DEF PlacesIn
    <2>4. IsFiniteSet(V) /\ Cardinality(V) <= 1
      BY <1>1, <2>2, TDOnce, PlacesFinite
    <2> HIDE DEF V
    <2>5. QED
      BY <2>3, <2>4, AtMostOne
  <1>3. QED
    BY <1>1, <1>2 DEF IsRoute

(* No node is driven by more pips' nets than it has room for.              *)
LEMMA TDPipsFit ==
  ASSUME TDInv, Room, result = "success", NEW x \in Node
  PROVE  Cardinality({n \in Net : x \in PipNodes(n)}) <= Capacity[x]
  <1> DEFINE D == {n \in Net : x \in PipNodes(n)}
             H == HoldersOf(path, x)
  <1>1. Feasible /\ pips = [n \in Net |-> Pips(path[n])]
    BY DEF TDInv, TDSaved
  <1>2. D \in SUBSET H
    <2>1. ASSUME NEW n \in Net, NEW e \in pips[n]
          PROVE  e[1] \in ElemsOf(path[n]) /\ e[2] \in ElemsOf(path[n])
      <3>1. path[n] \in Seq(Node) /\ e \in Pips(path[n])
        BY <1>1, <2>1 DEF TDInv, TDLists
      <3>2. PICK i \in 1..(Len(path[n]) - 1) : e = <<path[n][i], path[n][i + 1]>>
        BY <3>1 DEF Pips
      <3>3. i \in DOMAIN path[n] /\ i + 1 \in DOMAIN path[n]
        BY <3>1, <3>2
      <3>4. QED
        BY <3>2, <3>3 DEF ElemsOf
    <2>2. \A n \in Net : PipNodes(n) \subseteq ElemsOf(path[n])
      BY <2>1 DEF PipNodes
    <2>3. QED
      BY <2>2 DEF HoldersOf
  <1>3. IsFiniteSet(H)
    <2>1. H \in SUBSET Net
      BY DEF HoldersOf
    <2> HIDE DEF H
    <2>2. QED
      BY <2>1, NetlistAssumption, FS_Subset
  <1>4. Cardinality(H) <= 1
    <2>1. CASE H = {}
      BY <2>1, FS_EmptySet
    <2>2. CASE H # {}
      <3>1. PICK n \in Net : x \in ElemsOf(path[n])
        BY <2>2 DEF HoldersOf
      <3>2. /\ occ[x] <= 1 /\ occ[x] = Cardinality(UsesOf(path, x))
            /\ \A m \in Net : Cardinality(PlacesIn(path[m], x)) <= 1
        BY <1>1, <3>1, TDOnce
      <3>3. PICK P : P = path
        OBVIOUS
      <3>4. Walks(P)
        BY <3>3 DEF TDInv, TDLists, Walks
      <3>5. Cardinality(UsesOf(P, x)) = Cardinality(HoldersOf(P, x))
        BY <3>2, <3>3, <3>4, UsesAreHolders
      <3>6. QED
        BY <3>2, <3>3, <3>5
    <2>3. QED
      BY <2>1, <2>2
  <1> HIDE DEF D, H
  <1>5. IsFiniteSet(D) /\ Cardinality(D) <= Cardinality(H)
    BY <1>2, <1>3, FS_Subset
  <1>6. Cardinality(D) \in Nat /\ Cardinality(H) \in Nat
    BY <1>3, <1>5, FS_CardinalityType
  <1>7. QED
    BY <1>4, <1>5, <1>6 DEF Room, D

(* A design that the timing driven router reports as routed is: every net  *)
(* is a tree of switches from its source to all its sinks, no node carries *)
(* more than one net, and no flag or cost is left of the searches.  The    *)
(* router has not looked for that: a branch may join its own net again,    *)
(* and it is the count of the node that would then be over its capacity.   *)
THEOREM TDRoutedLegal ==
  ASSUME Room
  PROVE  TDSpec /\ Posed /\ Bare /\ Electric /\ Timable => []TDRoutedIsLegal
  <1>1. TDInv => TDRoutedIsLegal
    <2> SUFFICES ASSUME TDInv, result = "success"
                 PROVE  /\ \A n \in Net : ~IsIgnored(n) =>
                             IsTree(n) /\ SinksConnected(n) /\ PipsExist(n)
                        /\ \A x \in Node :
                             Cardinality({n \in Net : x \in PipNodes(n)}) <= Capacity[x]
                        /\ \A x \in Node : tarflg[x] = 0 /\ pathCost[x] = Huge
      BY DEF TDRoutedIsLegal
    <2>1. spc = "idle" /\ Feasible /\ Given
      BY DEF TDInv, TDSaved, TDGiven
    <2>2. ASSUME NEW n \in Net, ~IsIgnored(n)
          PROVE  IsTree(n) /\ SinksConnected(n) /\ PipsExist(n)
      <3>1. path[n] # <<>>
        BY <2>2 DEF TDInv, TDSaved
      <3>2. IsRoute(path[n], nets[n].src)
        BY <2>1, <3>1, TDWalkIsRoute
      <3>3. Sinks(n) \subseteq ElemsOf(path[n])
        BY <2>1, <3>1 DEF TDInv, TDLists, Searched
      <3>4. /\ Cardinality(Pips(path[n])) = Cardinality(ElemsOf(path[n])) - 1
            /\ ReachedBy(Pips(path[n]), nets[n].src) = ElemsOf(path[n])
            /\ Pips(path[n]) \subseteq Switches
        BY <2>1, <3>2, RoutePips, RouteIsLegal
      <3>5. QED
        BY <3>3, <3>4 DEF IsTree, SinksConnected, PipsExist, Sinks
    <2>3. \A x \in Node : tarflg[x] = 0 /\ pathCost[x] = Huge
      <3> TAKE x \in Node
      <3>1. tarflg[x] = 0
        BY <2>1 DEF TDInv, TDPhases
      <3>2. pathCost[x] \in Int /\ pathCost[x] <= Huge /\ ~(pathCost[x] < Huge)
        BY <2>1 DEF TDInv, TDMarks
      <3>3. QED
        BY <3>1, <3>2, HugeAssumption
    <2>4. QED
      BY <2>2, <2>3, TDPipsFit
  <1>2. QED
    BY <1>1, TDInvariance, PTL
-----------------------------------------------------------------------------
(* An element of Q. *)
Some(Q) == CHOOSE k \in Q : TRUE

(* s adds up w over the subsets of K, taking away one element after the    *)
(* other.                                                                  *)
SumStep(s, w, Q) == IF Q = {} THEN 0 ELSE w[Some(Q)] + s[Q \ {Some(Q)}]
IsSum(s, w, K) == s = [Q \in SUBSET K |-> SumStep(s, w, Q)]

Weights(w, K) == IsFiniteSet(K) /\ \A k \in K : w[k] \in Int

Total(w, K) == (CHOOSE s : IsSum(s, w, K))[K]

(* What is left of a set of which an element is taken.                     *)
LEMMA SomeTaken ==
  ASSUME NEW K, IsFiniteSet(K), NEW Q \in SUBSET K, Q # {}
  PROVE  /\ Some(Q) \in Q /\ Some(Q) \in K /\ Q \ {Some(Q)} \in SUBSET K
         /\ IsFiniteSet(Q) /\ Cardinality(Q) \in Nat
         /\ Cardinality(Q \ {Some(Q)}) = Cardinality(Q) - 1
  <1>1. Some(Q) \in Q
    BY DEF Some
  <1>2. IsFiniteSet(Q) /\ Cardinality(Q) \in Nat
    BY FS_Subset, FS_CardinalityType
  <1>3. Cardinality(Q \ {Some(Q)}) = Cardinality(Q) - 1
    BY <1>1, <1>2, FS_RemoveElement
  <1>4. QED
    BY <1>1, <1>2, <1>3

(* There is such a function. *)
LEMMA SumExists ==
  ASSUME NEW K, NEW w, Weights(w, K)
  PROVE  \E s : IsSum(s, w, K)
  <1> DEFINE P == SUBSET K
             D == [P -> Int]
             a == [Q \in P |-> 0]
             G == [n \in Nat |-> [f \in D |-> [Q \in P |-> SumStep(f, w, Q)]]]
             N == Cardinality(K)
  <1>1. IsFiniteSet(K) /\ N \in Nat /\ \A k \in K : w[k] \in Int
    BY FS_CardinalityType DEF Weights
  <1>2. \A Q \in P : IsFiniteSet(Q) /\ Cardinality(Q) \in Nat /\ Cardinality(Q) <= N
    BY <1>1, FS_Subset, FS_CardinalityType
  <1>3. ASSUME NEW f \in D, NEW Q \in P
        PROVE  SumStep(f, w, Q) \in Int
    <2>1. CASE Q = {}
      BY <2>1 DEF SumStep
    <2>2. CASE Q # {}
      <3>1. w[Some(Q)] \in Int /\ f[Q \ {Some(Q)}] \in Int
        BY <1>1, <2>2, SomeTaken
      <3>2. QED
        BY <2>2, <3>1 DEF SumStep
    <2>3. QED
      BY <2>1, <2>2
  <1>4. a \in D /\ G \in [Nat -> [D -> D]]
    <2>1. ASSUME NEW f \in D
          PROVE  [Q \in P |-> SumStep(f, w, Q)] \in D
      <3> HIDE DEF P
      <3>1. \A Q \in P : SumStep(f, w, Q) \in Int
        BY <1>3
      <3>2. QED
        BY <3>1
    <2>2. a \in D
      OBVIOUS
    <2> HIDE DEF D, P, a
    <2>3. QED
      BY <2>1, <2>2
  <1>5. PICK f : Iterates(f, D, a, G, N + 1)
    <2> HIDE DEF D, a, G, N
    <2>1. N + 1 \in Nat
      BY <1>1
    <2>2. QED
      BY <1>4, <2>1, IterateExists
  <1>6. /\ \A k \in 0..(N + 1) : f[k] \in D
        /\ f[0] = a
        /\ \A k \in 1..(N + 1) : f[k] = [Q \in P |-> SumStep(f[k - 1], w, Q)]
    <2>1. f \in [0..(N + 1) -> D] /\ f[0] = a /\ \A k \in 1..(N + 1) : f[k] = G[k][f[k - 1]]
      BY <1>5 DEF Iterates
    <2>2. \A k \in 1..(N + 1) : k \in Nat /\ k - 1 \in 0..(N + 1)
      BY <1>1
    <2>3. \A k \in 1..(N + 1) : f[k - 1] \in D
      BY <2>1, <2>2
    <2> HIDE DEF D, a, P
    <2>4. QED
      BY <2>1, <2>2, <2>3
  <1> HIDE DEF a, G, D
  <1> DEFINE S == {k \in 0..(N + 1) : k > 0 =>
                      \A Q \in P : Cardinality(Q) < k => f[k][Q] = f[k - 1][Q]}
  <1>7. 0 \in S
    BY <1>1
  <1>8. ASSUME NEW k \in 1..(N + 1), k - 1 \in S
        PROVE  k \in S
    <2> SUFFICES ASSUME NEW Q \in P, Cardinality(Q) < k
                 PROVE  f[k][Q] = f[k - 1][Q]
      BY <1>1
    <2>1. f[k][Q] = SumStep(f[k - 1], w, Q)
      BY <1>6
    <2>2. CASE k = 1
      <3>1. Q = {}
        BY <1>2, <2>2, FS_EmptySet
      <3>2. f[k - 1][Q] = 0
        BY <1>6, <2>2 DEF a
      <3>3. QED
        BY <2>1, <3>1, <3>2 DEF SumStep
    <2>3. CASE k # 1
      <3>1. k - 1 \in 1..(N + 1) /\ k - 1 > 0
        BY <1>1, <2>3
      <3>2. f[k - 1][Q] = SumStep(f[(k - 1) - 1], w, Q)
        BY <1>6, <3>1
      <3>3. CASE Q = {}
        BY <2>1, <3>2, <3>3 DEF SumStep
      <3>4. CASE Q # {}
        <4> DEFINE R == Q \ {Some(Q)}
        <4>1. R \in P /\ Cardinality(R) < k - 1
          BY <1>1, <3>4, SomeTaken
        <4>2. f[k - 1][R] = f[(k - 1) - 1][R]
          BY <1>8, <3>1, <4>1
        <4>3. QED
          BY <2>1, <3>2, <3>4, <4>2 DEF SumStep
      <3>5. QED
        BY <3>3, <3>4
    <2>4. QED
      BY <2>2, <2>3
  <1>9. N + 1 \in S
    <2> HIDE DEF S, N
    <2>1. N + 1 \in Nat /\ N + 1 \in 0..(N + 1)
      BY <1>1
    <2>2. 0..(N + 1) \subseteq S
      BY <1>7, <1>8, <2>1, BoundedInduction
    <2>3. QED
      BY <2>1, <2>2
  <1> DEFINE s == f[N + 1]
  <1>10. s = [Q \in P |-> SumStep(f[N], w, Q)]
    <2>1. N + 1 \in 1..(N + 1) /\ (N + 1) - 1 = N
      BY <1>1
    <2> HIDE DEF N
    <2>2. QED
      BY <1>6, <2>1
  <1>11. \A Q \in P : s[Q] = f[N][Q]
    <2>1. (N + 1) - 1 = N /\ N + 1 > 0 /\ \A Q \in P : Cardinality(Q) < N + 1
      BY <1>1, <1>2
    <2> HIDE DEF N, P
    <2>2. QED
      BY <1>9, <2>1
  <1>12. \A Q \in P : SumStep(f[N], w, Q) = SumStep(s, w, Q)
    <2> TAKE Q \in P
    <2> HIDE DEF s
    <2>1. CASE Q = {}
      BY <2>1 DEF SumStep
    <2>2. CASE Q # {}
      <3>1. Q \ {Some(Q)} \in P
        OBVIOUS
      <3>2. s[Q \ {Some(Q)}] = f[N][Q \ {Some(Q)}]
        BY <1>11, <3>1
      <3>3. QED
        BY <2>2, <3>2 DEF SumStep
    <2>3. QED
      BY <2>1, <2>2
  <1>13. s = [Q \in P |-> SumStep(s, w, Q)]
    <2> HIDE DEF s, P
    <2>1. QED
      BY <1>10, <1>12
  <1>14. QED
    BY <1>13 DEF IsSum

(* Sums of equal numbers are equal. *)
LEMMA SumsAgree ==
  ASSUME NEW K, IsFiniteSet(K), NEW w, NEW s, IsSum(s, w, K), NEW J, NEW v, NEW t, IsSum(t, v, J),
         NEW Q \in SUBSET K, Q \in SUBSET J, \A k \in Q : w[k] = v[k]
  PROVE  s[Q] = t[Q]
  <1> DEFINE Low(n) == \A R \in SUBSET Q : Cardinality(R) = n => s[R] = t[R]
             S      == {n \in Nat : Low(n)}
  <1>1. \A R \in SUBSET Q : R \in SUBSET K /\ R \in SUBSET J
    OBVIOUS
  <1>2. \A R \in SUBSET Q : s[R] = SumStep(s, w, R) /\ t[R] = SumStep(t, v, R)
    BY <1>1 DEF IsSum
  <1>3. 0 \in S
    <2> SUFFICES ASSUME NEW R \in SUBSET Q, Cardinality(R) = 0
                 PROVE  s[R] = t[R]
      OBVIOUS
    <2>1. R = {}
      BY <1>1, FS_Subset, FS_EmptySet
    <2>2. QED
      BY <1>2, <2>1 DEF SumStep
  <1>4. ASSUME NEW n \in Nat, n \in S
        PROVE  n + 1 \in S
    <2> SUFFICES ASSUME NEW R \in SUBSET Q, Cardinality(R) = n + 1
                 PROVE  s[R] = t[R]
      OBVIOUS
    <2>1. R # {}
      BY FS_EmptySet
    <2> DEFINE e == Some(R)
    <2>2. e \in R /\ R \ {e} \in SUBSET Q /\ Cardinality(R \ {e}) = n
      BY <1>1, <2>1, SomeTaken
    <2>3. s[R \ {e}] = t[R \ {e}] /\ w[e] = v[e]
      BY <1>4, <2>2
    <2>4. QED
      BY <1>2, <2>1, <2>3 DEF SumStep
  <1> HIDE DEF S
  <1>5. Nat \subseteq S
    BY <1>3, <1>4, SetInduction
  <1>6. Cardinality(Q) \in Nat
    BY FS_Subset, FS_CardinalityType
  <1>7. Low(Cardinality(Q))
    BY <1>5, <1>6 DEF S
  <1>8. QED
    BY <1>7

(* What is added up over a set is the total of each of its subsets.        *)
LEMMA SumIsTotal ==
  ASSUME NEW K, NEW w, Weights(w, K), NEW s, IsSum(s, w, K), NEW Q \in SUBSET K,
         NEW v, \A k \in Q : w[k] = v[k]
  PROVE  s[Q] = Total(v, Q)
  <1> DEFINE t == CHOOSE u : IsSum(u, v, Q)
  <1>1. IsFiniteSet(K) /\ IsFiniteSet(Q) /\ Weights(v, Q)
    BY FS_Subset DEF Weights
  <1>2. IsSum(t, v, Q)
    BY <1>1, SumExists
  <1>3. Total(v, Q) = t[Q]
    BY DEF Total
  <1> HIDE DEF t
  <1>4. s[Q] = t[Q]
    BY <1>1, <1>2, SumsAgree
  <1>5. QED
    BY <1>3, <1>4

(* Equal weights have equal sums.                                          *)
LEMMA TotalSame ==
  ASSUME NEW K, NEW w, Weights(w, K), NEW v, \A k \in K : w[k] = v[k]
  PROVE  Total(w, K) = Total(v, K)
  <1>1. PICK s : IsSum(s, w, K)
    BY SumExists
  <1>2. s[K] = Total(v, K) /\ s[K] = Total(w, K)
    BY <1>1, SumIsTotal
  <1>3. QED
    BY <1>2

(* Nothing weighs nothing.                                                 *)
LEMMA TotalEmpty ==
  ASSUME NEW w
  PROVE  Total(w, {}) = 0
  <1>1. Weights(w, {})
    BY FS_EmptySet DEF Weights
  <1>2. PICK s : IsSum(s, w, {})
    BY <1>1, SumExists
  <1>3. s[{}] = 0
    BY <1>2 DEF IsSum, SumStep
  <1>4. s[{}] = Total(w, {})
    BY <1>1, <1>2, SumIsTotal
  <1>5. QED
    BY <1>3, <1>4

(* Whatever element is taken first. *)
LEMMA TotalFirst ==
  ASSUME NEW K, NEW w, Weights(w, K), K # {}
  PROVE  Total(w, K) = w[Some(K)] + Total(w, K \ {Some(K)})
  <1>1. PICK s : IsSum(s, w, K)
    BY SumExists
  <1>2. K \in SUBSET K /\ K \ {Some(K)} \in SUBSET K
    OBVIOUS
  <1>3. s[K] = SumStep(s, w, K)
    BY <1>1, <1>2 DEF IsSum
  <1>4. s[K] = Total(w, K) /\ s[K \ {Some(K)}] = Total(w, K \ {Some(K)})
    BY <1>1, <1>2, SumIsTotal
  <1>5. QED
    BY <1>3, <1>4 DEF SumStep

(* A sum of integers is one.                                               *)
LEMMA TotalInt ==
  ASSUME NEW K, NEW w, Weights(w, K)
  PROVE  \A Q \in SUBSET K : Total(w, Q) \in Int
  <1> DEFINE Low(n) == \A Q \in SUBSET K : Cardinality(Q) = n => Total(w, Q) \in Int
             S      == {n \in Nat : Low(n)}
  <1>1. \A Q \in SUBSET K : IsFiniteSet(Q) /\ Cardinality(Q) \in Nat /\ Weights(w, Q)
    BY FS_Subset, FS_CardinalityType DEF Weights
  <1>2. 0 \in S
    <2> SUFFICES ASSUME NEW Q \in SUBSET K, Cardinality(Q) = 0
                 PROVE  Total(w, Q) \in Int
      OBVIOUS
    <2>1. Q = {}
      BY <1>1, FS_EmptySet
    <2>2. QED
      BY <2>1, TotalEmpty
  <1>3. ASSUME NEW n \in Nat, n \in S
        PROVE  n + 1 \in S
    <2> SUFFICES ASSUME NEW Q \in SUBSET K, Cardinality(Q) = n + 1
                 PROVE  Total(w, Q) \in Int
      OBVIOUS
    <2> DEFINE e == Some(Q)
    <2>1. Q # {} /\ IsFiniteSet(K)
      BY FS_EmptySet DEF Weights
    <2>2. e \in Q /\ Q \ {e} \in SUBSET K /\ Cardinality(Q \ {e}) = n
      BY <2>1, SomeTaken
    <2>3. Total(w, Q) = w[e] + Total(w, Q \ {e})
      BY <1>1, <2>1, TotalFirst
    <2>4. Total(w, Q \ {e}) \in Int /\ w[e] \in Int
      BY <1>3, <2>2 DEF Weights
    <2>5. QED
      BY <2>3, <2>4
  <1> HIDE DEF S
  <1>4. Nat \subseteq S
    BY <1>2, <1>3, SetInduction
  <1>5. \A Q \in SUBSET K : Cardinality(Q) \in S
    BY <1>1, <1>4
  <1>6. QED
    BY <1>5 DEF S

(* Any element may be taken first.                                         *)
LEMMA TotalTakes ==
  ASSUME NEW K, NEW w, Weights(w, K), NEW x \in K
  PROVE  Total(w, K) = w[x] + Total(w, K \ {x})
  <1> DEFINE Low(n) == \A Q \in SUBSET K : Cardinality(Q) = n =>
                          \A y \in Q : Total(w, Q) = w[y] + Total(w, Q \ {y})
             S      == {n \in Nat : Low(n)}
  <1>1. \A Q \in SUBSET K : IsFiniteSet(Q) /\ Cardinality(Q) \in Nat /\ Weights(w, Q)
    BY FS_Subset, FS_CardinalityType DEF Weights
  <1>2. 0 \in S
    <2> SUFFICES ASSUME NEW Q \in SUBSET K, Cardinality(Q) = 0
                 PROVE  Q = {}
      OBVIOUS
    <2>1. QED
      BY <1>1, FS_EmptySet
  <1>3. ASSUME NEW n \in Nat, n \in S
        PROVE  n + 1 \in S
    <2> SUFFICES ASSUME NEW Q \in SUBSET K, Cardinality(Q) = n + 1, NEW y \in Q
                 PROVE  Total(w, Q) = w[y] + Total(w, Q \ {y})
      OBVIOUS
    <2> DEFINE e == Some(Q)
               R == (Q \ {e}) \ {y}
    <2>1. Q # {} /\ IsFiniteSet(Q)
      BY <1>1
    <2>2. e \in Q
      BY <2>1 DEF Some
    <2>3. Cardinality(Q \ {e}) = n /\ Cardinality(Q \ {y}) = n
      BY <2>1, <2>2, FS_RemoveElement
    <2>4. Total(w, Q) = w[e] + Total(w, Q \ {e})
      BY <1>1, <2>1, TotalFirst
    <2>5. w[e] \in Int /\ w[y] \in Int
      BY <2>2 DEF Weights
    <2> HIDE DEF e
    <2>6. Q \ {e} \in SUBSET K /\ Q \ {y} \in SUBSET K /\ R \in SUBSET K
      OBVIOUS
    <2>7. CASE y = e
      BY <2>4, <2>7
    <2>8. CASE y # e
      <3>1. y \in Q \ {e} /\ e \in Q \ {y} /\ R = (Q \ {y}) \ {e}
        BY <2>2, <2>8
      <3>2. Total(w, Q \ {e}) = w[y] + Total(w, R)
        BY <1>3, <2>3, <2>6, <3>1
      <3>3. Total(w, Q \ {y}) = w[e] + Total(w, (Q \ {y}) \ {e})
        BY <1>3, <2>3, <2>6, <3>1
      <3>4. Total(w, Q \ {y}) = w[e] + Total(w, R)
        BY <3>1, <3>3
      <3>5. Total(w, R) \in Int
        BY <2>6, TotalInt
      <3> HIDE DEF R
      <3>6. QED
        BY <2>4, <2>5, <3>2, <3>4, <3>5
    <2>9. QED
      BY <2>7, <2>8
  <1> HIDE DEF S
  <1>4. Nat \subseteq S
    BY <1>2, <1>3, SetInduction
  <1>5. Low(Cardinality(K))
    BY <1>1, <1>4 DEF S
  <1>6. QED
    BY <1>5

(* Sums of the same numbers under other names are equal. *)
LEMMA TotalRenamed ==
  ASSUME NEW K, NEW w, Weights(w, K), NEW J, NEW f \in [K -> J],
         \A i, k \in K : f[i] = f[k] => i = k, \A j \in J : \E k \in K : f[k] = j,
         NEW v, \A k \in K : v[f[k]] = w[k]
  PROVE  Total(v, J) = Total(w, K)
  <1> DEFINE im(Q)  == {f[k] : k \in Q}
             Low(n) == \A Q \in SUBSET K : Cardinality(Q) = n => Total(v, im(Q)) = Total(w, Q)
             S      == {n \in Nat : Low(n)}
  <1>1. \A Q \in SUBSET K : IsFiniteSet(Q) /\ Cardinality(Q) \in Nat /\ Weights(w, Q)
    BY FS_Subset, FS_CardinalityType DEF Weights
  <1>2. Weights(v, J)
    <2>1. IsFiniteSet(K) /\ \A k \in K : w[k] \in Int
      BY DEF Weights
    <2>2. IsFiniteSet(J)
      BY <2>1, CountedBy
    <2>3. QED
      BY <2>1, <2>2 DEF Weights
  <1>3. \A Q \in SUBSET J : Weights(v, Q)
    BY <1>2, FS_Subset DEF Weights
  <1>4. 0 \in S
    <2> SUFFICES ASSUME NEW Q \in SUBSET K, Cardinality(Q) = 0
                 PROVE  Total(v, im(Q)) = Total(w, Q)
      OBVIOUS
    <2>1. Q = {}
      BY <1>1, FS_EmptySet
    <2>2. im(Q) = {}
      BY <2>1
    <2> HIDE DEF im
    <2>3. QED
      BY <2>1, <2>2, TotalEmpty
  <1>5. ASSUME NEW n \in Nat, n \in S
        PROVE  n + 1 \in S
    <2> SUFFICES ASSUME NEW Q \in SUBSET K, Cardinality(Q) = n + 1
                 PROVE  Total(v, im(Q)) = Total(w, Q)
      OBVIOUS
    <2> DEFINE e == Some(Q)
    <2>1. Q # {} /\ IsFiniteSet(K)
      BY FS_EmptySet DEF Weights
    <2>2. e \in Q /\ Q \ {e} \in SUBSET K /\ Cardinality(Q \ {e}) = n
      BY <2>1, SomeTaken
    <2> HIDE DEF e
    <2>3. Total(w, Q) = w[e] + Total(w, Q \ {e})
      BY <1>1, <2>2, TotalTakes
    <2>4. Total(v, im(Q \ {e})) = Total(w, Q \ {e})
      BY <1>5, <2>2
    <2>5. im(Q) \in SUBSET J /\ f[e] \in im(Q) /\ im(Q \ {e}) = im(Q) \ {f[e]}
      BY <2>2
    <2> HIDE DEF im
    <2>6. Total(v, im(Q)) = v[f[e]] + Total(v, im(Q) \ {f[e]})
      BY <1>3, <2>5, TotalTakes
    <2>7. v[f[e]] = w[e]
      BY <2>2
    <2>8. QED
      BY <2>3, <2>4, <2>5, <2>6, <2>7
  <1> HIDE DEF S
  <1>6. Nat \subseteq S
    BY <1>4, <1>5, SetInduction
  <1>7. Low(Cardinality(K))
    BY <1>1, <1>6 DEF S
  <1>8. im(K) = J
    OBVIOUS
  <1>9. QED
    BY <1>7, <1>8

(* One more number.                                                        *)
LEMMA TotalAdds ==
  ASSUME NEW K, NEW x, x \notin K, NEW w, Weights(w, K \cup {x})
  PROVE  Total(w, K \cup {x}) = Total(w, K) + w[x]
  <1>1. PICK J : J = K \cup {x}
    OBVIOUS
  <1>2. x \in J /\ J \ {x} = K /\ Weights(w, J) /\ K \in SUBSET J
    BY <1>1
  <1>3. Total(w, J) = w[x] + Total(w, K)
    BY <1>2, TotalTakes
  <1>4. Total(w, K) \in Int /\ w[x] \in Int
    BY <1>2, TotalInt DEF Weights
  <1>5. QED
    BY <1>1, <1>3, <1>4

(* One number that is greater.                                             *)
LEMMA TotalGains ==
  ASSUME NEW K, NEW w, Weights(w, K), NEW x \in K, NEW c \in Int,
         NEW v, v[x] = w[x] + c, \A k \in K : k # x => v[k] = w[k]
  PROVE  Total(v, K) = Total(w, K) + c
  <1> DEFINE J == K \ {x}
  <1>1. J \in SUBSET K /\ IsFiniteSet(J) /\ w[x] \in Int /\ IsFiniteSet(K)
    BY FS_Subset DEF Weights
  <1>2. Weights(w, J)
    BY <1>1 DEF Weights
  <1>3. \A k \in K : v[k] \in Int
    BY <1>1 DEF Weights
  <1>4. Weights(v, K)
    BY <1>1, <1>3 DEF Weights
  <1>5. Total(v, K) = v[x] + Total(v, J) /\ Total(w, K) = w[x] + Total(w, J)
    BY <1>4, TotalTakes
  <1>6. Total(w, J) = Total(v, J)
    <2>1. \A k \in J : w[k] = v[k]
      OBVIOUS
    <2> HIDE DEF J
    <2>2. QED
      BY <1>2, <2>1, TotalSame
  <1>7. Total(w, J) \in Int
    BY <1>1, TotalInt
  <1> HIDE DEF J
  <1>8. QED
    BY <1>1, <1>5, <1>6, <1>7

-----------------------------------------------------------------------------
(* The loads of the edges kids at their ends, as ElmoreDelay adds them up. *)
HeadSum(g, kids) ==
    LET sum[K \in SUBSET kids] ==
            IF K = {} THEN 0
            ELSE LET e == CHOOSE k \in K : TRUE IN g[e[2]] + sum[K \ {e}]
    IN  sum[kids]

EndsOf(E, s) == {s} \cup {e[2] : e \in E}
KidEdges(E, x) == {e \in E : e[1] = x /\ ~rrg.sw[e].buf}

(* Its loads g, and its delays h for the loads g. *)
IsLoad(g, E, s) ==
    g = [x \in EndsOf(E, s) |-> (IF x = s THEN 0 ELSE rrg.cap[x]) + HeadSum(g, KidEdges(E, x))]
DelayBehind(h, g, E, s, x) ==
    (g[x] * rrg.res[x]) \div 2 +
    (IF x = s THEN 0
     ELSE LET e == CHOOSE k \in E : k[2] = x
          IN  h[e[1]] + rrg.sw[e].res * g[x] + rrg.sw[e].delay)
IsDelay(h, g, E, s) == h = [x \in EndsOf(E, s) |-> DelayBehind(h, g, E, s, x)]

(* ElmoreDelay is made of these two functions.                             *)
LEMMA ElmoreIs ==
  ASSUME NEW E, NEW s
  PROVE  ElmoreDelay(rrg, E, s) = CHOOSE h : IsDelay(h, CHOOSE g : IsLoad(g, E, s), E, s)
  BY DEF ElmoreDelay, IsDelay, DelayBehind, IsLoad, HeadSum, EndsOf, KidEdges

(* A load adds up those of the heads.                                      *)
LEMMA HeadSumIs ==
  ASSUME NEW kids, IsFiniteSet(kids), NEW g, \A e \in kids : g[e[2]] \in Int
  PROVE  HeadSum(g, kids) = Total([e \in kids |-> g[e[2]]], kids)
  <1> DEFINE w      == [e \in kids |-> g[e[2]]]
             Def(u) == u = [K \in SUBSET kids |->
                              IF K = {} THEN 0
                              ELSE g[(CHOOSE k \in K : TRUE)[2]] + u[K \ {CHOOSE k \in K : TRUE}]]
             t      == CHOOSE u : Def(u)
  <1>1. HeadSum(g, kids) = t[kids]
    BY DEF HeadSum
  <1>2. Weights(w, kids)
    BY DEF Weights
  <1>3. ASSUME NEW u
        PROVE  Def(u) <=> IsSum(u, w, kids)
    <2>1. ASSUME NEW K \in SUBSET kids
          PROVE  SumStep(u, w, K) = IF K = {} THEN 0
                                    ELSE g[(CHOOSE k \in K : TRUE)[2]] + u[K \ {CHOOSE k \in K : TRUE}]
      <3>1. CASE K = {}
        BY <3>1 DEF SumStep
      <3>2. CASE K # {}
        <4>1. Some(K) \in kids
          BY <3>2 DEF Some
        <4>2. w[Some(K)] = g[Some(K)[2]]
          BY <4>1
        <4> HIDE DEF w
        <4>3. QED
          BY <3>2, <4>2 DEF SumStep, Some
      <3>3. QED
        BY <3>1, <3>2
    <2> HIDE DEF w
    <2>2. QED
      BY <2>1 DEF IsSum
  <1> HIDE DEF w, Def
  <1>4. PICK u : IsSum(u, w, kids)
    BY <1>2, SumExists
  <1>5. Def(t)
    BY <1>3, <1>4
  <1> HIDE DEF t
  <1>6. IsSum(t, w, kids)
    BY <1>3, <1>5
  <1>7. kids \in SUBSET kids /\ t[kids] = Total(w, kids)
    BY <1>2, <1>6, SumIsTotal
  <1>8. QED
    BY <1>1, <1>7 DEF w
-----------------------------------------------------------------------------
(* What the switch that drives node i of T does not shield is its load. *)
Kids(T, i) == {j \in 1..Len(T) : T[j].parent = i /\ ~SwitchTo(rrg, T, j).buf}
Downs(T) == [i \in 1..Len(T) |-> T[i].cdown]
OwnLoad(T, i) == IF T[i].parent = 0 THEN 0 ELSE rrg.cap[T[i].owner]
Weighed(T) == \A i \in 1..Len(T) : T[i].cdown = OwnLoad(T, i) + Total(Downs(T), Kids(T, i))

(* The delay of a node is that of its parent, the switch's and its own. *)
DelayAt(T, i) ==
    IF T[i].parent = 0 THEN HalfRC(rrg, T[i])
    ELSE T[T[i].parent].delay
           + (SwitchTo(rrg, T, i).res * T[i].cdown + SwitchTo(rrg, T, i).delay)
           + HalfRC(rrg, T[i])
Delayed(T) == \A i \in 1..Len(T) : T[i].delay = DelayAt(T, i)

(* A node of the device is in the tree once, and the first is the source s. *)
OnceEach(T) == \A i, j \in 1..Len(T) : T[i].owner = T[j].owner => i = j
RootedAt(T, s) ==
    /\ Len(T) >= 1
    /\ T[1].owner = s
    /\ \A i \in 1..Len(T) : T[i].parent = 0 <=> i = 1

EdgesOf(T) == {<<T[T[i].parent].owner, T[i].owner>> : i \in 2..Len(T)}

Shaped(T, s) == Grows(T) /\ OnceEach(T) /\ RootedAt(T, s)

(* What a node of such a tree is, and the switch to it.                    *)
LEMMA TreeNodeFits ==
  ASSUME Electric, NEW T, NEW s, Shaped(T, s), NEW i \in 1..Len(T)
  PROVE  /\ T[i].owner \in Node /\ T[i].cdown \in Nat /\ T[i].delay \in Int
         /\ rrg.cap[T[i].owner] \in Nat /\ rrg.res[T[i].owner] \in Nat
         /\ HalfRC(rrg, T[i]) \in Int
         /\ i # 1 => /\ i \in 2..Len(T) /\ T[i].parent \in 1..(i - 1) /\ T[i].parent \in 1..Len(T)
                     /\ SwitchTo(rrg, T, i) = rrg.sw[<<T[T[i].parent].owner, T[i].owner>>]
                     /\ SwitchTo(rrg, T, i).res \in Nat /\ SwitchTo(rrg, T, i).delay \in Nat
                     /\ SwitchTo(rrg, T, i).buf \in BOOLEAN
                     /\ SwitchTo(rrg, T, i).res * T[i].cdown \in Int
  <1>1. T \in Seq(TreeNodes) /\ DOMAIN T = 1..Len(T) /\ Len(T) \in Nat
    BY DEF Shaped, Grows
  <1>2. T[i] \in TreeNodes
    BY <1>1
  <1>3. T[i].owner \in Node /\ T[i].cdown \in Nat /\ T[i].delay \in Int
    BY <1>2 DEF TreeNodes
  <1>4. rrg.cap[T[i].owner] \in Nat /\ rrg.res[T[i].owner] \in Nat
    BY <1>3 DEF Electric
  <1>5. HalfRC(rrg, T[i]) \in Int
    <2> DEFINE q == T[i].cdown * rrg.res[T[i].owner]
    <2>1. q \in Nat
      BY <1>3, <1>4, ProductNat
    <2> HIDE DEF q
    <2>2. q \div 2 \in Int
      BY <2>1
    <2>3. QED
      BY <2>2 DEF HalfRC, q
  <1>6. ASSUME i # 1
        PROVE  /\ i \in 2..Len(T) /\ T[i].parent \in 1..(i - 1) /\ T[i].parent \in 1..Len(T)
               /\ SwitchTo(rrg, T, i) = rrg.sw[<<T[T[i].parent].owner, T[i].owner>>]
               /\ SwitchTo(rrg, T, i).res \in Nat /\ SwitchTo(rrg, T, i).delay \in Nat
               /\ SwitchTo(rrg, T, i).buf \in BOOLEAN
               /\ SwitchTo(rrg, T, i).res * T[i].cdown \in Int
    <2>1. T[i].parent # 0 /\ T[i].parent \in 0..(i - 1)
      BY <1>1, <1>6 DEF Shaped, Grows, RootedAt
    <2>2. T[i].owner \in rrg.switches[T[T[i].parent].owner]
      BY <1>1, <2>1 DEF Shaped, Grows
    <2>3. i \in 2..Len(T) /\ T[i].parent \in 1..(i - 1) /\ T[i].parent \in 1..Len(T)
      BY <1>1, <1>6, <2>1
    <2> DEFINE x == T[T[i].parent].owner
               y == T[i].owner
               w == rrg.sw[<<x, y>>]
    <2>4. T[T[i].parent] \in TreeNodes
      BY <1>1, <2>3
    <2>5. x \in Node /\ y \in rrg.switches[x]
      BY <2>2, <2>4 DEF TreeNodes
    <2> HIDE DEF x, y
    <2>6. w.res \in Nat /\ w.delay \in Nat /\ w.buf \in BOOLEAN
      BY <2>5 DEF Electric
    <2>7. SwitchTo(rrg, T, i) = w
      BY DEF SwitchTo, x, y
    <2> HIDE DEF w
    <2>8. w.res * T[i].cdown \in Nat
      BY <1>3, <2>6, ProductNat
    <2>9. QED
      BY <2>3, <2>6, <2>7, <2>8 DEF w, x, y
  <1>7. QED
    BY <1>3, <1>4, <1>5, <1>6

(* What the edges from a node carry is what its children do.               *)
LEMMA KidsCarry ==
  ASSUME Electric, NEW T, NEW s, Shaped(T, s), NEW i \in 1..Len(T),
         NEW g, \A j \in Kids(T, i) : g[T[j].owner] = T[j].cdown
  PROVE  HeadSum(g, KidEdges(EdgesOf(T), T[i].owner)) = Total(Downs(T), Kids(T, i))
  <1> DEFINE x == T[i].owner
             K == Kids(T, i)
             J == KidEdges(EdgesOf(T), x)
             f == [j \in K |-> <<x, T[j].owner>>]
             v == [e \in J |-> g[e[2]]]
             w == Downs(T)
             L == Len(T)
  <1>1. L \in Nat /\ i \in 1..L
    BY DEF Shaped, Grows
  <1>2. \A j \in 1..L : T[j].owner \in Node /\ T[j].cdown \in Nat
    BY TreeNodeFits
  <1>3. \A j \in K : j \in 2..L /\ T[j].parent = i /\ SwitchTo(rrg, T, j) = rrg.sw[<<x, T[j].owner>>]
    <2> TAKE j \in K
    <2>1. j \in 1..L /\ T[j].parent = i
      BY DEF Kids
    <2>2. j # 1
      BY <1>1, <2>1 DEF Shaped, RootedAt
    <2>3. QED
      BY <2>1, <2>2, TreeNodeFits
  <1>4. Weights(w, K)
    <2>1. K \in SUBSET (1..L) /\ IsFiniteSet(1..L)
      BY <1>1, FS_Interval DEF Kids
    <2>2. IsFiniteSet(K)
      BY <2>1, FS_Subset
    <2>3. \A j \in K : w[j] = T[j].cdown
      BY <2>1 DEF Downs
    <2> HIDE DEF K, w
    <2>4. QED
      BY <1>2, <2>1, <2>2, <2>3 DEF Weights
  <1>5. f \in [K -> J]
    <2> SUFFICES ASSUME NEW j \in K
                 PROVE  <<x, T[j].owner>> \in J
      OBVIOUS
    <2>1. <<x, T[j].owner>> \in EdgesOf(T)
      BY <1>3 DEF EdgesOf
    <2>2. ~rrg.sw[<<x, T[j].owner>>].buf
      BY <1>3 DEF Kids
    <2>3. QED
      BY <2>1, <2>2 DEF KidEdges
  <1>6. \A j, k \in K : f[j] = f[k] => j = k
    <2> SUFFICES ASSUME NEW j \in K, NEW k \in K, T[j].owner = T[k].owner
                 PROVE  j = k
      OBVIOUS
    <2>1. j \in 1..L /\ k \in 1..L
      BY DEF Kids
    <2>2. QED
      BY <2>1 DEF Shaped, OnceEach
  <1>7. ASSUME NEW e \in J
        PROVE  \E j \in K : f[j] = e
    <2>1. e \in EdgesOf(T) /\ e[1] = x /\ ~rrg.sw[e].buf
      BY DEF KidEdges
    <2>2. PICK j \in 2..L : e = <<T[T[j].parent].owner, T[j].owner>>
      BY <2>1 DEF EdgesOf
    <2>3. j \in 1..L /\ j # 1
      BY <1>1
    <2>4. /\ T[j].parent \in 1..L
          /\ SwitchTo(rrg, T, j) = rrg.sw[e]
      BY <2>2, <2>3, TreeNodeFits
    <2>5. T[j].parent = i
      <3>1. T[T[j].parent].owner = T[i].owner
        BY <2>1, <2>2
      <3>2. QED
        BY <1>1, <2>4, <3>1 DEF Shaped, OnceEach
    <2>6. j \in K
      BY <2>1, <2>3, <2>4, <2>5 DEF Kids
    <2>7. f[j] = e
      BY <2>2, <2>5, <2>6
    <2>8. QED
      BY <2>6, <2>7
  <1>8. \A j \in K : v[f[j]] = w[j]
    <2> TAKE j \in K
    <2>1. f[j] \in J /\ f[j] = <<x, T[j].owner>>
      BY <1>5
    <2>2. v[f[j]] = g[T[j].owner]
      BY <2>1
    <2>3. w[j] = T[j].cdown
      BY DEF Downs, Kids
    <2>4. QED
      BY <2>2, <2>3
  <1> HIDE DEF f, J, K, w
  <1>9. Total(v, J) = Total(w, K)
    <2> HIDE DEF v
    <2>1. QED
      BY <1>4, <1>5, <1>6, <1>7, <1>8, TotalRenamed
  <1>10. IsFiniteSet(J) /\ \A e \in J : g[e[2]] \in Int
    <2>1. IsFiniteSet(J)
      BY <1>4, <1>5, <1>6, <1>7, CountedBy DEF Weights
    <2>2. ASSUME NEW e \in J
          PROVE  g[e[2]] \in Int
      <3>1. PICK j \in K : f[j] = e
        BY <1>7
      <3>2. v[e] = w[j] /\ w[j] \in Int
        BY <1>4, <1>8, <3>1 DEF Weights
      <3>3. QED
        BY <3>2
    <2>3. QED
      BY <2>1, <2>2
  <1>11. HeadSum(g, J) = Total(v, J)
    BY <1>10, HeadSumIs
  <1> HIDE DEF v
  <1>12. QED
    BY <1>9, <1>11 DEF J, K, w

(* The edges join the nodes of the tree.                                   *)
LEMMA EndsAreNodes ==
  ASSUME Electric, NEW T, NEW s, Shaped(T, s)
  PROVE  EndsOf(EdgesOf(T), s) = {T[i].owner : i \in 1..Len(T)}
  <1>1. Len(T) \in Nat /\ Len(T) >= 1 /\ T[1].owner = s
    BY DEF Shaped, Grows, RootedAt
  <1>2. \A i \in 1..Len(T) : i = 1 \/ i \in 2..Len(T)
    OBVIOUS
  <1>3. \A i \in 2..Len(T) : i \in 1..Len(T)
    OBVIOUS
  <1>4. 1 \in 1..Len(T)
    BY <1>1
  <1>5. {e[2] : e \in EdgesOf(T)} = {T[i].owner : i \in 2..Len(T)}
    <2>1. \A e \in EdgesOf(T) : \E i \in 2..Len(T) : e[2] = T[i].owner
      BY DEF EdgesOf
    <2>2. \A i \in 2..Len(T) : <<T[T[i].parent].owner, T[i].owner>> \in EdgesOf(T)
      BY DEF EdgesOf
    <2>3. \A i \in 2..Len(T) : \E e \in EdgesOf(T) : e[2] = T[i].owner
      BY <2>2
    <2>4. QED
      BY <2>1, <2>3
  <1>6. QED
    BY <1>1, <1>2, <1>3, <1>4, <1>5 DEF EndsOf

(* What the loads say at node i, if they are right at its children.        *)
LEMMA LoadAt ==
  ASSUME Electric, NEW T, NEW s, Shaped(T, s), Weighed(T), NEW i \in 1..Len(T),
         NEW g, \A j \in Kids(T, i) : g[T[j].owner] = T[j].cdown
  PROVE  T[i].cdown = (IF T[i].owner = s THEN 0 ELSE rrg.cap[T[i].owner])
                         + HeadSum(g, KidEdges(EdgesOf(T), T[i].owner))
  <1>1. T[i].cdown = OwnLoad(T, i) + Total(Downs(T), Kids(T, i))
    BY DEF Weighed
  <1>2. HeadSum(g, KidEdges(EdgesOf(T), T[i].owner)) = Total(Downs(T), Kids(T, i))
    BY KidsCarry
  <1>3. T[i].owner = s <=> T[i].parent = 0
    <2>1. 1 \in 1..Len(T) /\ T[1].owner = s /\ (T[i].parent = 0 <=> i = 1)
      BY DEF Shaped, RootedAt, Grows
    <2>2. QED
      BY <2>1 DEF Shaped, OnceEach
  <1>4. QED
    BY <1>1, <1>2, <1>3 DEF OwnLoad

(* There are loads: those that the tree has.                               *)
LEMMA LoadFound ==
  ASSUME Electric, NEW T, NEW s, Shaped(T, s), Weighed(T)
  PROVE  \E g : IsLoad(g, EdgesOf(T), s)
  <1> DEFINE N     == EndsOf(EdgesOf(T), s)
             ix(x) == CHOOSE i \in 1..Len(T) : T[i].owner = x
             g     == [x \in N |-> T[ix(x)].cdown]
  <1>1. N = {T[i].owner : i \in 1..Len(T)}
    BY EndsAreNodes
  <1> HIDE DEF N
  <1>2. \A i \in 1..Len(T) : g[T[i].owner] = T[i].cdown
    <2> TAKE i \in 1..Len(T)
    <2>1. T[i].owner \in N
      BY <1>1
    <2>2. ix(T[i].owner) = i
      BY DEF Shaped, OnceEach
    <2>3. QED
      BY <2>1, <2>2
  <1>3. g = [x \in N |-> g[x]]
    OBVIOUS
  <1> HIDE DEF g
  <1>4. ASSUME NEW x \in N
        PROVE  g[x] = (IF x = s THEN 0 ELSE rrg.cap[x]) + HeadSum(g, KidEdges(EdgesOf(T), x))
    <2>1. PICK i \in 1..Len(T) : x = T[i].owner
      BY <1>1
    <2>2. \A j \in Kids(T, i) : g[T[j].owner] = T[j].cdown
      BY <1>2 DEF Kids
    <2>3. T[i].cdown = (IF T[i].owner = s THEN 0 ELSE rrg.cap[T[i].owner])
                         + HeadSum(g, KidEdges(EdgesOf(T), T[i].owner))
      BY <2>2, LoadAt
    <2>4. g[x] = T[i].cdown
      BY <1>2, <2>1
    <2>5. QED
      BY <2>1, <2>3, <2>4
  <1>5. QED
    BY <1>3, <1>4 DEF IsLoad, N

(* Induction from the leaves to the source. *)
LEMMA LoadsAreDowns ==
  ASSUME Electric, NEW T, NEW s, Shaped(T, s), Weighed(T), NEW g, IsLoad(g, EdgesOf(T), s)
  PROVE  \A i \in 1..Len(T) : g[T[i].owner] = T[i].cdown
  <1> DEFINE L == Len(T)
             S == {k \in 0..L : \A i \in 1..L : i > L - k => g[T[i].owner] = T[i].cdown}
  <1>1. L \in Nat
    BY DEF Shaped, Grows
  <1>2. 0 \in S
    BY <1>1
  <1>3. ASSUME NEW k \in 1..L, k - 1 \in S
        PROVE  k \in S
    <2> SUFFICES ASSUME NEW i \in 1..L, i > L - k
                 PROVE  g[T[i].owner] = T[i].cdown
      BY <1>1
    <2>1. ASSUME NEW j \in Kids(T, i)
          PROVE  g[T[j].owner] = T[j].cdown
      <3>1. j \in 1..L /\ T[j].parent = i
        BY DEF Kids
      <3>2. j # 1
        BY <3>1 DEF Shaped, RootedAt
      <3>3. i \in 1..(j - 1)
        BY <3>1, <3>2, TreeNodeFits
      <3>4. j > L - (k - 1)
        BY <1>1, <3>1, <3>3
      <3>5. QED
        BY <1>3, <3>1, <3>4
    <2>2. T[i].cdown = (IF T[i].owner = s THEN 0 ELSE rrg.cap[T[i].owner])
                         + HeadSum(g, KidEdges(EdgesOf(T), T[i].owner))
      BY <2>1, LoadAt
    <2>3. T[i].owner \in EndsOf(EdgesOf(T), s)
      BY EndsAreNodes
    <2>4. g[T[i].owner] = (IF T[i].owner = s THEN 0 ELSE rrg.cap[T[i].owner])
                             + HeadSum(g, KidEdges(EdgesOf(T), T[i].owner))
      BY <2>3 DEF IsLoad
    <2>5. QED
      BY <2>2, <2>4
  <1>4. 0..L \subseteq S
    <2> HIDE DEF S, L
    <2>1. QED
      BY <1>1, <1>2, <1>3, BoundedInduction
  <1>5. L \in S
    <2> HIDE DEF S
    <2>1. L \in 0..L
      BY <1>1
    <2>2. QED
      BY <1>4, <2>1
  <1>6. QED
    BY <1>1, <1>5
-----------------------------------------------------------------------------
(* The delays say so, too, if they are right at the parent. *)
LEMMA DelayStep ==
  ASSUME Electric, NEW T, NEW s, Shaped(T, s), Delayed(T), NEW i \in 1..Len(T),
         NEW g, g[T[i].owner] = T[i].cdown,
         NEW h, i # 1 => h[T[T[i].parent].owner] = T[T[i].parent].delay
  PROVE  T[i].delay = DelayBehind(h, g, EdgesOf(T), s, T[i].owner)
  <1> DEFINE x == T[i].owner
             e == CHOOSE k \in EdgesOf(T) : k[2] = x
  <1>1. 1 \in 1..Len(T) /\ T[1].owner = s /\ (T[i].parent = 0 <=> i = 1)
    BY DEF Shaped, RootedAt, Grows
  <1>2. x = s <=> i = 1
    BY <1>1 DEF Shaped, OnceEach
  <1>3. /\ HalfRC(rrg, T[i]) = (g[x] * rrg.res[x]) \div 2
        /\ HalfRC(rrg, T[i]) \in Int
    BY TreeNodeFits DEF HalfRC
  <1>4. T[i].delay = DelayAt(T, i)
    BY DEF Delayed
  <1>5. CASE i = 1
    <2>1. T[i].delay = HalfRC(rrg, T[i])
      BY <1>1, <1>4, <1>5 DEF DelayAt
    <2>2. T[i].delay + 0 = T[i].delay
      BY <1>3, <2>1
    <2>3. QED
      BY <1>2, <1>3, <1>5, <2>1, <2>2 DEF DelayBehind
  <1>6. CASE i # 1
    <2> DEFINE p == T[i].parent
               y == T[p].owner
    <2>1. /\ i \in 2..Len(T) /\ p \in 1..Len(T)
          /\ SwitchTo(rrg, T, i) = rrg.sw[<<y, x>>]
          /\ SwitchTo(rrg, T, i).res * T[i].cdown \in Int
          /\ SwitchTo(rrg, T, i).delay \in Nat
      BY <1>6, TreeNodeFits
    <2>2. <<y, x>> \in EdgesOf(T)
      BY <2>1 DEF EdgesOf
    <2>3. e \in EdgesOf(T) /\ e[2] = x
      BY <2>2
    <2>4. PICK j \in 2..Len(T) : e = <<T[T[j].parent].owner, T[j].owner>>
      BY <2>3 DEF EdgesOf
    <2>5. j = i
      BY <2>3, <2>4 DEF Shaped, OnceEach
    <2> HIDE DEF e
    <2>6. e = <<y, x>> /\ e[1] = y
      <3>1. e = <<T[T[i].parent].owner, T[i].owner>>
        BY <2>4, <2>5, Zenon
      <3>2. QED
        BY <3>1
    <2>7. T[p].delay \in Int
      BY <2>1, TreeNodeFits
    <2>8. T[i].delay = T[p].delay
              + (SwitchTo(rrg, T, i).res * T[i].cdown + SwitchTo(rrg, T, i).delay)
              + HalfRC(rrg, T[i])
      BY <1>1, <1>4, <1>6 DEF DelayAt
    <2>9. h[e[1]] = T[p].delay
      BY <1>6, <2>6
    <2> DEFINE a == SwitchTo(rrg, T, i).res * T[i].cdown
               b == SwitchTo(rrg, T, i).delay
               d == T[p].delay
               q == HalfRC(rrg, T[i])
    <2>10. T[i].delay = q + (h[e[1]] + a + b)
      <3>1. a \in Int /\ b \in Int /\ d \in Int /\ q \in Int /\ T[i].delay = d + (a + b) + q /\ h[e[1]] = d
        BY <1>3, <2>1, <2>7, <2>8, <2>9
      <3> HIDE DEF a, b, d, q
      <3>2. QED
        BY <3>1
    <2>11. a = rrg.sw[e].res * g[x] /\ b = rrg.sw[e].delay
      BY <2>1, <2>6
    <2> HIDE DEF a, b
    <2>12. QED
      BY <1>2, <1>3, <1>6, <2>10, <2>11 DEF e, DelayBehind
  <1>7. QED
    BY <1>5, <1>6

(* There are delays: those that the tree has.                              *)
LEMMA DelayFound ==
  ASSUME Electric, NEW T, NEW s, Shaped(T, s), Delayed(T),
         NEW g, \A i \in 1..Len(T) : g[T[i].owner] = T[i].cdown
  PROVE  \E h : IsDelay(h, g, EdgesOf(T), s)
  <1> DEFINE N     == EndsOf(EdgesOf(T), s)
             ix(x) == CHOOSE i \in 1..Len(T) : T[i].owner = x
             h     == [x \in N |-> T[ix(x)].delay]
  <1>1. N = {T[i].owner : i \in 1..Len(T)}
    BY EndsAreNodes
  <1> HIDE DEF N
  <1>2. \A i \in 1..Len(T) : h[T[i].owner] = T[i].delay
    <2> TAKE i \in 1..Len(T)
    <2>1. T[i].owner \in N
      BY <1>1
    <2>2. ix(T[i].owner) = i
      BY DEF Shaped, OnceEach
    <2>3. QED
      BY <2>1, <2>2
  <1>3. h = [x \in N |-> h[x]]
    OBVIOUS
  <1> HIDE DEF h
  <1>4. ASSUME NEW x \in N
        PROVE  h[x] = DelayBehind(h, g, EdgesOf(T), s, x)
    <2>1. PICK i \in 1..Len(T) : x = T[i].owner
      BY <1>1
    <2>2. i # 1 => h[T[T[i].parent].owner] = T[T[i].parent].delay
      BY <1>2, TreeNodeFits
    <2>3. T[i].delay = DelayBehind(h, g, EdgesOf(T), s, T[i].owner)
      BY <1>2, <2>2, DelayStep
    <2>4. QED
      BY <1>2, <2>1, <2>3
  <1>5. h = [x \in N |-> DelayBehind(h, g, EdgesOf(T), s, x)]
    <2>1. QED
      BY <1>3, <1>4
  <1>6. QED
    BY <1>5 DEF IsDelay, N

(* Induction from the source to the leaves. *)
LEMMA DelaysAre ==
  ASSUME Electric, NEW T, NEW s, Shaped(T, s), Delayed(T),
         NEW g, \A i \in 1..Len(T) : g[T[i].owner] = T[i].cdown,
         NEW h, IsDelay(h, g, EdgesOf(T), s)
  PROVE  \A i \in 1..Len(T) : h[T[i].owner] = T[i].delay
  <1> DEFINE L == Len(T)
             S == {k \in 0..L : \A i \in 1..k : h[T[i].owner] = T[i].delay}
  <1>1. L \in Nat
    BY DEF Shaped, Grows
  <1>2. 0 \in S
    BY <1>1
  <1>3. ASSUME NEW k \in 1..L, k - 1 \in S
        PROVE  k \in S
    <2>1. k # 1 => h[T[T[k].parent].owner] = T[T[k].parent].delay
      <3> SUFFICES ASSUME k # 1
                   PROVE  h[T[T[k].parent].owner] = T[T[k].parent].delay
        OBVIOUS
      <3>1. T[k].parent \in 1..(k - 1)
        BY TreeNodeFits
      <3>2. QED
        BY <1>3, <3>1
    <2>2. T[k].delay = DelayBehind(h, g, EdgesOf(T), s, T[k].owner)
      BY <2>1, DelayStep
    <2>3. T[k].owner \in EndsOf(EdgesOf(T), s)
      BY EndsAreNodes
    <2>4. h[T[k].owner] = DelayBehind(h, g, EdgesOf(T), s, T[k].owner)
      BY <2>3 DEF IsDelay
    <2>5. \A i \in 1..k : i = k \/ i \in 1..(k - 1)
      OBVIOUS
    <2>6. h[T[k].owner] = T[k].delay
      BY <2>2, <2>4
    <2>7. QED
      BY <1>1, <1>3, <2>5, <2>6
  <1>4. 0..L \subseteq S
    <2> HIDE DEF S, L
    <2>1. QED
      BY <1>1, <1>2, <1>3, BoundedInduction
  <1>5. L \in S
    <2> HIDE DEF S
    <2>1. L \in 0..L
      BY <1>1
    <2>2. QED
      BY <1>4, <2>1
  <1>6. QED
    BY <1>1, <1>5

(* The delays of a tree whose loads and delays agree node by node are the  *)
(* Elmore delays of its edges.                                             *)
LEMMA ElmoreOfTree ==
  ASSUME Electric, NEW T, NEW s, Shaped(T, s), Weighed(T), Delayed(T)
  PROVE  \A i \in 1..Len(T) : ElmoreDelay(rrg, EdgesOf(T), s)[T[i].owner] = T[i].delay
  <1> DEFINE E == EdgesOf(T)
             g == CHOOSE f : IsLoad(f, E, s)
             h == CHOOSE f : IsDelay(f, g, E, s)
  <1>1. IsLoad(g, E, s)
    BY LoadFound
  <1> HIDE DEF g
  <1>2. \A i \in 1..Len(T) : g[T[i].owner] = T[i].cdown
    BY <1>1, LoadsAreDowns
  <1>3. IsDelay(h, g, E, s)
    BY <1>2, DelayFound
  <1>4. ElmoreDelay(rrg, E, s) = h
    <2> HIDE DEF E
    <2>1. QED
      BY ElmoreIs DEF g
  <1> HIDE DEF h
  <1>5. \A i \in 1..Len(T) : h[T[i].owner] = T[i].delay
    BY <1>2, <1>3, DelaysAre
  <1>6. QED
    BY <1>4, <1>5

-----------------------------------------------------------------------------
(* Where the chain of nodes that no buffer separates ends.                 *)
Stops(T, k) == T[k].parent = 0 \/ SwitchTo(rrg, T, k).buf

(* C is such a chain, from node i up.                                      *)
ChainFrom(C, T, i) ==
    /\ C \subseteq 1..i /\ i \in C
    /\ \A j \in C : ~Stops(T, j) => T[j].parent \in C
    /\ \A j \in C : j # i => \E m \in C : ~Stops(T, m) /\ T[m].parent = j
    /\ \A j, m \in C : ~Stops(T, j) /\ ~Stops(T, m) /\ T[j].parent = T[m].parent => j = m
    /\ \A j, m \in C : Stops(T, j) => j <= m

(* A chain grows at its lower end.                                         *)
LEMMA ChainLonger ==
  ASSUME NEW T, NEW C, NEW i \in Nat, NEW p \in Nat, p < i, T[i].parent = p, ~Stops(T, i),
         ChainFrom(C, T, p), \A j \in C : T[j].parent \in 0..(j - 1)
  PROVE  ChainFrom({i} \cup C, T, i)
  <1> DEFINE D == {i} \cup C
  <1>1. C \subseteq 1..p /\ p \in C /\ i \notin C
    BY DEF ChainFrom
  <1>2. D \subseteq 1..i /\ i \in D
    BY <1>1
  <1>3. \A j \in D : ~Stops(T, j) => T[j].parent \in D
    BY <1>1 DEF ChainFrom
  <1>4. ASSUME NEW j \in D, j # i
        PROVE  \E m \in D : ~Stops(T, m) /\ T[m].parent = j
    <2>1. CASE j = p
      BY <2>1
    <2>2. CASE j # p
      BY <1>4, <2>2 DEF ChainFrom
    <2>3. QED
      BY <2>1, <2>2
  <1>5. \A j \in C : T[j].parent # p
    BY <1>1
  <1>6. ASSUME NEW j \in D, NEW m \in D, ~Stops(T, j), ~Stops(T, m), T[j].parent = T[m].parent
        PROVE  j = m
    <2>1. CASE j = i
      BY <1>5, <1>6, <2>1
    <2>2. CASE m = i
      BY <1>5, <1>6, <2>2
    <2>3. CASE j \in C /\ m \in C
      BY <1>6, <2>3 DEF ChainFrom
    <2>4. QED
      BY <2>1, <2>2, <2>3
  <1>7. ASSUME NEW j \in D, NEW m \in D, Stops(T, j)
        PROVE  j <= m
    <2>1. j \in C
      BY <1>7
    <2>2. CASE m = i
      BY <1>1, <2>1, <2>2
    <2>3. CASE m \in C
      BY <1>7, <2>1, <2>3 DEF ChainFrom
    <2>4. QED
      BY <2>2, <2>3
  <1> HIDE DEF D
  <1>8. ChainFrom(D, T, i)
    BY <1>2, <1>3, <1>4, <1>6, <1>7 DEF ChainFrom
  <1>9. QED
    BY <1>8 DEF D

(* UnbufferedChain climbs it.                                              *)
LEMMA ChainClimbs ==
  ASSUME NEW T, Grows(T), NEW i \in 1..Len(T)
  PROVE  ChainFrom(UnbufferedChain(rrg, T, i), T, i)
  <1> DEFINE L      == Len(T)
             V      == SUBSET (1..L)
             up(k)  == T[k].parent
             end(k) == up(k) = 0 \/ SwitchTo(rrg, T, k).buf
             Def(h) == h = [k \in DOMAIN T |-> IF end(k) THEN {k} ELSE {k} \cup h[up(k)]]
             h      == CHOOSE f : Def(f)
             G      == [k \in 1..L |-> [f \in [1..L -> V] |->
                          IF end(k) THEN {k} ELSE {k} \cup f[up(k)]]]
  <1>1. DOMAIN T = 1..L /\ L \in Nat
    BY DEF Grows
  <1>2. UnbufferedChain(rrg, T, i) = h[i]
    BY DEF UnbufferedChain
  <1>3. \A k \in 1..L : /\ up(k) \in 0..(k - 1)
                        /\ ~end(k) => up(k) # 0 /\ up(k) \in 1..L /\ up(k) \in 1..(k - 1)
    BY <1>1 DEF Grows
  <1> HIDE DEF up, end
  <1>4. G \in [1..L -> [[1..L -> V] -> V]]
    <2> SUFFICES ASSUME NEW k \in 1..L, NEW f \in [1..L -> V]
                 PROVE  (IF end(k) THEN {k} ELSE {k} \cup f[up(k)]) \in V
      OBVIOUS
    <2>1. ~end(k) => f[up(k)] \in V
      BY <1>3
    <2>2. QED
      BY <2>1
  <1>5. LooksBack(G, L, V)
    <2> SUFFICES ASSUME NEW k \in 1..L, NEW f \in [1..L -> V], NEW g \in [1..L -> V],
                        \A j \in 1..(k - 1) : f[j] = g[j]
                 PROVE  G[k][f] = G[k][g]
      BY DEF LooksBack
    <2>1. ~end(k) => f[up(k)] = g[up(k)]
      BY <1>3
    <2>2. QED
      BY <2>1
  <1>6. PICK f : CourseOf(f, G, L, V)
    <2>1. {} \in V
      OBVIOUS
    <2> HIDE DEF G, L, V
    <2>2. QED
      BY <1>1, <1>4, <1>5, <2>1, CourseOfValues
  <1>7. Def(f)
    <2>1. f = [k \in 1..L |-> f[k]]
      BY <1>6 DEF CourseOf
    <2>2. \A k \in 1..L : f[k] = IF end(k) THEN {k} ELSE {k} \cup f[up(k)]
      BY <1>6 DEF CourseOf
    <2>3. QED
      BY <1>1, <2>1, <2>2
  <1>8. Def(h)
    <2> HIDE DEF Def
    <2> QED
      BY <1>7
  <1> HIDE DEF h
  <1>9. \A k \in 1..L : h[k] = IF end(k) THEN {k} ELSE {k} \cup h[up(k)]
    BY <1>1, <1>8
  <1> DEFINE S == {k \in 0..L : \A j \in 1..k : ChainFrom(h[j], T, j)}
  <1>10. 0 \in S
    BY <1>1
  <1>11. ASSUME NEW k \in 1..L, k - 1 \in S
         PROVE  k \in S
    <2>1. ChainFrom(h[k], T, k)
      <3>1. CASE end(k)
        <4>1. h[k] = {k} /\ Stops(T, k)
          BY <1>9, <3>1 DEF end, up, Stops
        <4>2. QED
          BY <4>1 DEF ChainFrom
      <3>2. CASE ~end(k)
        <4>1. h[k] = {k} \cup h[up(k)] /\ up(k) \in 1..(k - 1) /\ ~Stops(T, k) /\ T[k].parent = up(k)
          BY <1>3, <1>9, <3>2 DEF end, up, Stops
        <4>2. ChainFrom(h[up(k)], T, up(k))
          BY <1>11, <4>1
        <4>3. \A j \in h[up(k)] : T[j].parent \in 0..(j - 1)
          <5>1. h[up(k)] \subseteq 1..up(k) /\ up(k) \in 1..L
            BY <1>3, <3>2, <4>2 DEF ChainFrom
          <5>2. QED
            BY <1>3, <5>1 DEF up
        <4>4. k \in Nat /\ up(k) \in Nat /\ up(k) < k
          BY <4>1
        <4>5. ChainFrom({k} \cup h[up(k)], T, k)
          BY <4>1, <4>2, <4>3, <4>4, ChainLonger
        <4>6. QED
          BY <4>1, <4>5
      <3>3. QED
        BY <3>1, <3>2
    <2>2. \A j \in 1..k : j = k \/ j \in 1..(k - 1)
      OBVIOUS
    <2>3. QED
      BY <1>11, <2>1, <2>2
  <1>12. L \in S
    <2> HIDE DEF S, L
    <2>1. 0..L \subseteq S
      BY <1>1, <1>10, <1>11, BoundedInduction
    <2>2. QED
      BY <1>1, <2>1
  <1>13. QED
    BY <1>2, <1>12

(* What it takes for a node to be below node u.                            *)
LEMMA BelowIs ==
  ASSUME NEW T, NEW s, Shaped(T, s), NEW u \in 1..Len(T)
  PROVE  \A i \in 1..Len(T) : Below(T, u)[i] <=> i = u \/ (i > u /\ Below(T, u)[T[i].parent])
  <1> DEFINE L      == Len(T)
             V      == BOOLEAN
             up(i)  == T[i].parent
             Def(h) == h = [i \in DOMAIN T |-> i = u \/ (i > u /\ h[up(i)])]
             h      == CHOOSE f : Def(f)
             G      == [i \in 1..L |-> [f \in [1..L -> V] |-> i = u \/ (i > u /\ f[up(i)])]]
  <1>1. DOMAIN T = 1..L /\ L \in Nat
    BY DEF Shaped, Grows
  <1>2. Below(T, u) = h
    BY DEF Below
  <1>3. \A i \in 1..L : i > u => up(i) \in 1..L /\ up(i) \in 1..(i - 1)
    <2> SUFFICES ASSUME NEW i \in 1..L, i > u
                 PROVE  up(i) \in 1..L /\ up(i) \in 1..(i - 1)
      OBVIOUS
    <2>1. i # 1
      OBVIOUS
    <2>2. up(i) \in 0..(i - 1) /\ up(i) # 0
      BY <1>1, <2>1 DEF Shaped, Grows, RootedAt
    <2>3. QED
      BY <1>1, <2>2
  <1> HIDE DEF up
  <1>4. G \in [1..L -> [[1..L -> V] -> V]]
    OBVIOUS
  <1>5. LooksBack(G, L, V)
    <2> SUFFICES ASSUME NEW i \in 1..L, NEW f \in [1..L -> V], NEW g \in [1..L -> V],
                        \A j \in 1..(i - 1) : f[j] = g[j]
                 PROVE  G[i][f] = G[i][g]
      BY DEF LooksBack
    <2>1. i > u => f[up(i)] = g[up(i)]
      BY <1>3
    <2>2. G[i][f] = (i = u \/ (i > u /\ f[up(i)])) /\ G[i][g] = (i = u \/ (i > u /\ g[up(i)]))
      OBVIOUS
    <2> HIDE DEF G
    <2>3. QED
      BY <2>1, <2>2
  <1>6. PICK f : CourseOf(f, G, L, V)
    <2>1. TRUE \in V
      OBVIOUS
    <2> HIDE DEF G, L, V
    <2>2. QED
      BY <1>1, <1>4, <1>5, <2>1, CourseOfValues
  <1>7. Def(f)
    <2>1. f = [i \in 1..L |-> f[i]]
      BY <1>6 DEF CourseOf
    <2>2. \A i \in 1..L : f[i] = (i = u \/ (i > u /\ f[up(i)]))
      BY <1>6 DEF CourseOf
    <2>3. QED
      BY <1>1, <2>1, <2>2
  <1>8. Def(h)
    <2> HIDE DEF Def
    <2> QED
      BY <1>7
  <1> HIDE DEF h
  <1>9. \A i \in 1..L : h[i] = (i = u \/ (i > u /\ h[up(i)]))
    BY <1>1, <1>8
  <1>10. QED
    BY <1>2, <1>9 DEF up

(* Trees of one shape have the same switches, chains and edges.            *)
LEMMA ShapeIsAll ==
  ASSUME NEW T, NEW s, Shaped(T, s), NEW U, SameShape(T, U)
  PROVE  /\ Shaped(U, s) /\ Len(U) = Len(T)
         /\ EdgesOf(U) = EdgesOf(T)
         /\ \A i \in 1..Len(T) : /\ U[i].owner = T[i].owner /\ U[i].parent = T[i].parent
                                 /\ Kids(U, i) = Kids(T, i)
                                 /\ OwnLoad(U, i) = OwnLoad(T, i)
                                 /\ Stops(U, i) <=> Stops(T, i)
                                 /\ i # 1 => SwitchTo(rrg, U, i) = SwitchTo(rrg, T, i)
  <1>1. /\ Len(U) = Len(T) /\ Len(T) \in Nat /\ Len(T) >= 1 /\ T[1].owner = s
        /\ \A i \in 1..Len(T) : U[i].owner = T[i].owner /\ U[i].parent = T[i].parent
    BY DEF SameShape, Shaped, Grows, RootedAt
  <1>2. Grows(U)
    BY ShapeKept DEF Shaped
  <1>3. OnceEach(U)
    BY <1>1 DEF Shaped, OnceEach
  <1>4. RootedAt(U, s)
    BY <1>1 DEF Shaped, RootedAt
  <1>5. ASSUME NEW i \in 1..Len(T), i # 1
        PROVE  /\ T[i].parent \in 1..Len(T) /\ T[i].parent # 0 /\ U[T[i].parent].owner = T[T[i].parent].owner
               /\ SwitchTo(rrg, U, i) = SwitchTo(rrg, T, i)
    <2>1. T[i].parent \in 0..(i - 1) /\ T[i].parent # 0
      BY <1>1, <1>5 DEF Shaped, Grows, RootedAt
    <2>2. T[i].parent \in 1..Len(T)
      BY <1>1, <2>1
    <2>3. U[T[i].parent].owner = T[T[i].parent].owner
      BY <1>1, <2>2
    <2>4. QED
      BY <1>1, <2>1, <2>2, <2>3 DEF SwitchTo
  <1>6. ASSUME NEW i \in 1..Len(T)
        PROVE  /\ Kids(U, i) = Kids(T, i)
               /\ OwnLoad(U, i) = OwnLoad(T, i)
               /\ Stops(U, i) <=> Stops(T, i)
    <2>1. T[1].parent = 0 /\ U[1].parent = 0
      BY <1>1 DEF Shaped, RootedAt
    <2>2. \A j \in 1..Len(T) : T[j].parent = i => j # 1
      BY <2>1
    <2>3. Kids(U, i) = Kids(T, i)
      BY <1>1, <1>5, <2>2 DEF Kids
    <2>4. OwnLoad(U, i) = OwnLoad(T, i)
      BY <1>1 DEF OwnLoad
    <2>5. Stops(U, i) <=> Stops(T, i)
      BY <1>1, <1>5, <2>1 DEF Stops
    <2>6. QED
      BY <2>3, <2>4, <2>5
  <1>7. EdgesOf(U) = EdgesOf(T)
    <2>1. \A i \in 2..Len(T) : i \in 1..Len(T) /\ i # 1
      OBVIOUS
    <2>2. \A i \in 2..Len(T) : <<U[U[i].parent].owner, U[i].owner>> = <<T[T[i].parent].owner, T[i].owner>>
      BY <1>1, <1>5, <2>1
    <2>3. QED
      BY <1>1, <2>2 DEF EdgesOf
  <1>8. QED
    BY <1>1, <1>2, <1>3, <1>4, <1>5, <1>6, <1>7 DEF Shaped

-----------------------------------------------------------------------------
(* All of a chain is below its highest node u.                             *)
LEMMA ChainBelow ==
  ASSUME NEW T, NEW s, Shaped(T, s), NEW i \in 1..Len(T), NEW C, ChainFrom(C, T, i),
         NEW u \in C, \A j \in C : u <= j
  PROVE  /\ u \in 1..Len(T)
         /\ \A j \in C : Below(T, u)[j]
  <1> DEFINE L == Len(T)
             S == {k \in 0..L : \A j \in 1..k : j \in C => Below(T, u)[j]}
  <1>1. L \in Nat /\ C \subseteq 1..i /\ C \subseteq 1..L /\ u \in 1..L
    BY DEF Shaped, Grows, ChainFrom
  <1>2. 0 \in S
    BY <1>1
  <1>3. ASSUME NEW k \in 1..L, k - 1 \in S
        PROVE  k \in S
    <2>1. ASSUME k \in C
          PROVE  Below(T, u)[k]
      <3>1. CASE k = u
        BY <1>1, <3>1, BelowIs
      <3>2. CASE k # u
        <4>1. k > u
          BY <1>1, <2>1, <3>2
        <4>2. ~Stops(T, k)
          BY <1>1, <2>1, <4>1 DEF ChainFrom
        <4>3. T[k].parent \in C
          BY <2>1, <4>2 DEF ChainFrom
        <4>4. T[k].parent \in 1..(k - 1)
          <5>1. T[k].parent \in 0..(k - 1)
            BY DEF Shaped, Grows
          <5>2. QED
            BY <1>1, <4>3, <5>1
        <4>5. Below(T, u)[T[k].parent]
          BY <1>3, <4>3, <4>4
        <4>6. QED
          BY <1>1, <4>1, <4>5, BelowIs
      <3>3. QED
        BY <3>1, <3>2
    <2>2. \A j \in 1..k : j = k \/ j \in 1..(k - 1)
      OBVIOUS
    <2>3. QED
      BY <1>3, <2>1, <2>2
  <1>4. L \in S
    <2> HIDE DEF S, L
    <2>1. 0..L \subseteq S
      BY <1>1, <1>2, <1>3, BoundedInduction
    <2>2. QED
      BY <1>1, <2>1
  <1>5. QED
    BY <1>1, <1>4

(* There is a highest node. *)
LEMMA ChainTop ==
  ASSUME NEW T, NEW i, NEW C, ChainFrom(C, T, i)
  PROVE  /\ (CHOOSE j \in C : \A k \in C : j <= k) \in C
         /\ \A k \in C : (CHOOSE j \in C : \A m \in C : j <= m) <= k
  <1>1. C \subseteq Nat /\ C # {}
    BY DEF ChainFrom
  <1>2. \E j \in C : \A k \in C : j <= k
    BY <1>1, LeastNat
  <1>3. QED
    BY <1>2

(* Weighed would be T if node p carried c more.                            *)
WeighedBut(T, p, c) ==
    \A i \in 1..Len(T) :
       T[i].cdown + (IF i = p THEN c ELSE 0) = OwnLoad(T, i) + Total(Downs(T), Kids(T, i))

(* L is H with c added to the loads of the nodes of D.                     *)
Loads(H, L, D, c) ==
    \A i \in 1..Len(H) : L[i].cdown = H[i].cdown + (IF i \in D THEN c ELSE 0)

(* What is added all along a chain is added where it was missing.          *)
LEMMA ChainWeighs ==
  ASSUME Electric, NEW H, NEW s, Shaped(H, s), NEW i \in 1..Len(H), NEW C, ChainFrom(C, H, i),
         NEW c \in Nat, NEW p, p = IF Stops(H, i) THEN 0 ELSE H[i].parent,
         WeighedBut(H, p, c), NEW L, SameShape(H, L), Loads(H, L, C \ {i}, c)
  PROVE  Weighed(L)
  <1> DEFINE N == 1..Len(H)
             w == Downs(H)
             v == Downs(L)
  <1>1. Len(H) \in Nat /\ Len(L) = Len(H) /\ C \subseteq 1..i /\ i \in C /\ C \subseteq N
    BY DEF Shaped, Grows, SameShape, ChainFrom
  <1>2. \A k \in N : w[k] = H[k].cdown /\ v[k] = L[k].cdown /\ w[k] \in Nat
    BY <1>1, TreeNodeFits DEF Downs
  <1>3. \A k \in N : v[k] = w[k] + (IF k \in C \ {i} THEN c ELSE 0)
    BY <1>2 DEF Loads
  <1>4. \A k \in N : Weights(w, Kids(H, k))
    <2> TAKE k \in N
    <2>1. Kids(H, k) \in SUBSET N /\ IsFiniteSet(N)
      BY <1>1, FS_Interval DEF Kids
    <2>2. IsFiniteSet(Kids(H, k))
      BY <2>1, FS_Subset
    <2>3. QED
      BY <1>2, <2>1, <2>2 DEF Weights
  <1> HIDE DEF w, v
  <1> SUFFICES ASSUME NEW k \in N
               PROVE  L[k].cdown = OwnLoad(L, k) + Total(v, Kids(L, k))
    BY <1>1 DEF Weighed, v
  <1>5. Kids(L, k) = Kids(H, k) /\ OwnLoad(L, k) = OwnLoad(H, k)
    BY ShapeIsAll
  <1>6. w[k] + (IF k = p THEN c ELSE 0) = OwnLoad(H, k) + Total(w, Kids(H, k))
    BY <1>2 DEF WeighedBut, w
  <1> DEFINE K == Kids(H, k)
             t == Total(w, K)
             o == OwnLoad(H, k)
  <1>7. \A j \in K : j \in N /\ H[j].parent = k /\ ~Stops(H, j)
    BY DEF Kids, Stops
  <1>8. \A j \in C : ~Stops(H, j) /\ H[j].parent = k => j \in K
    BY <1>1 DEF Kids, Stops
  <1>9. t \in Int
    BY <1>4, TotalInt
  <1>10. o \in Nat
    BY TreeNodeFits DEF OwnLoad
  <1>11. w[k] \in Nat /\ L[k].cdown = v[k]
    BY <1>2
  <1>12. CASE \E j \in K : j \in C \ {i}
    <2>1. PICK j \in K : j \in C \ {i}
      BY <1>12
    <2>2. k \in C /\ k # i
      <3>1. k \in C
        BY <1>7, <2>1 DEF ChainFrom
      <3>2. H[j].parent \in 0..(j - 1) /\ j \in 1..i
        BY <1>1, <1>7, <2>1 DEF Shaped, Grows
      <3>3. QED
        BY <1>7, <3>1, <3>2
    <2>3. k # p
      <3> SUFFICES ASSUME k = p
                   PROVE  FALSE
        OBVIOUS
      <3>1. ~Stops(H, i) /\ H[i].parent = k
        OBVIOUS
      <3>2. H[j].parent = k /\ ~Stops(H, j)
        BY <1>7
      <3>3. QED
        BY <1>1, <2>1, <3>1, <3>2 DEF ChainFrom
    <2>4. \A m \in K : m # j => v[m] = w[m]
      <3> SUFFICES ASSUME NEW m \in K, m # j
                   PROVE  v[m] = w[m]
        OBVIOUS
      <3>1. m \notin C
        BY <1>7, <2>1 DEF ChainFrom
      <3>2. m \in N /\ w[m] \in Nat
        BY <1>2, <1>7
      <3>3. QED
        BY <1>3, <3>1, <3>2
    <2>5. v[j] = w[j] + c
      BY <1>3, <1>7, <2>1
    <2> HIDE DEF K
    <2>6. Total(v, K) = t + c
      BY <1>4, <2>1, <2>4, <2>5, TotalGains DEF K
    <2>7. v[k] = w[k] + c
      BY <1>3, <2>2
    <2> HIDE DEF t, o
    <2>8. w[k] + 0 = o + t
      BY <1>6, <2>3 DEF t, o, K
    <2>9. QED
      BY <1>5, <1>9, <1>10, <1>11, <2>6, <2>7, <2>8 DEF o, K
  <1>13. CASE ~\E j \in K : j \in C \ {i}
    <2>1. k \in C \ {i} <=> k = p
      <3>1. ASSUME k \in C, k # i
            PROVE  k = p
        <4>1. PICK m \in C : ~Stops(H, m) /\ H[m].parent = k
          BY <3>1 DEF ChainFrom
        <4>2. m \in K
          BY <1>8, <4>1
        <4>3. m = i
          BY <1>13, <4>1, <4>2
        <4>4. QED
          BY <4>1, <4>3
      <3>2. ASSUME k = p
            PROVE  k \in C /\ k # i
        <4>1. ~Stops(H, i) /\ H[i].parent = k
          BY <3>2
        <4>2. k \in C
          BY <1>1, <4>1 DEF ChainFrom
        <4>3. H[i].parent \in 0..(i - 1)
          BY DEF Shaped, Grows
        <4>4. QED
          BY <4>1, <4>2, <4>3
      <3>3. QED
        BY <3>1, <3>2
    <2>2. \A m \in K : w[m] = v[m]
      <3> TAKE m \in K
      <3>1. m \in N /\ w[m] \in Nat /\ m \notin C \ {i}
        BY <1>2, <1>7, <1>13
      <3>2. QED
        BY <1>3, <3>1
    <2> HIDE DEF K
    <2>3. Total(w, K) = Total(v, K)
      BY <1>4, <2>2, TotalSame DEF K
    <2>4. v[k] = w[k] + (IF k = p THEN c ELSE 0)
      BY <1>3, <2>1
    <2>5. v[k] = o + t
      BY <1>6, <2>4 DEF t, o, K
    <2>6. QED
      BY <1>5, <1>11, <2>3, <2>5 DEF t, o, K
  <1>14. QED
    BY <1>12, <1>13
-----------------------------------------------------------------------------
(* The nodes that branch b reaches are new to the tree T.                  *)
NewTo(T, b) ==
    /\ \A k \in 2..Len(b) : \A i \in 1..Len(T) : T[i].owner # b[k]
    /\ \A j, k \in 2..Len(b) : b[j] = b[k] => j = k

StepsOf(b) == {<<b[k], b[k + 1]>> : k \in 1..(Len(b) - 1)}

(* What T is followed by.                                                  *)
HungOn(T, b, H) ==
    /\ Len(H) = Len(T) + (Len(b) - 1)
    /\ \A i \in 1..Len(T) : H[i] = T[i]
    /\ HungAs(T, b, H)
    /\ TreeNodeOf(T, b[1]) \in 1..Len(T)
    /\ T[TreeNodeOf(T, b[1])].owner = b[1]

(* Node by node. *)
LEMMA HungAt ==
  ASSUME NEW T, Grows(T), NEW b, Along(b), NEW H, HungOn(T, b, H), NEW i \in 1..Len(H)
  PROVE  /\ Len(T) \in Nat /\ Len(b) \in Nat /\ Len(b) >= 2
         /\ Len(H) \in Nat /\ Len(H) = Len(T) + (Len(b) - 1)
         /\ i \in 1..Len(T) => H[i] = T[i]
         /\ i \notin 1..Len(T) =>
              /\ (i - Len(T)) + 1 \in 2..Len(b)
              /\ H[i].owner = b[(i - Len(T)) + 1]
              /\ H[i].parent = IF i = Len(T) + 1 THEN TreeNodeOf(T, b[1]) ELSE i - 1
              /\ H[i].cdown = NewLoads(rrg, b)[(i - Len(T)) + 1]
              /\ H[i].parent \in 1..(i - 1) /\ H[i].parent # 0
              /\ H[H[i].parent].owner = b[i - Len(T)]
  <1>1. /\ Len(T) \in Nat /\ Len(b) \in Nat /\ Len(b) >= 2
        /\ Len(H) = Len(T) + (Len(b) - 1)
        /\ \A j \in 1..Len(T) : H[j] = T[j]
    BY DEF Grows, Along, HungOn
  <1>2. ASSUME i \notin 1..Len(T)
        PROVE  /\ (i - Len(T)) + 1 \in 2..Len(b)
               /\ H[i].owner = b[(i - Len(T)) + 1]
               /\ H[i].parent = IF i = Len(T) + 1 THEN TreeNodeOf(T, b[1]) ELSE i - 1
               /\ H[i].cdown = NewLoads(rrg, b)[(i - Len(T)) + 1]
               /\ H[i].parent \in 1..(i - 1) /\ H[i].parent # 0
               /\ H[H[i].parent].owner = b[i - Len(T)]
    <2> DEFINE L == Len(T)
               k == i - L
               p == TreeNodeOf(T, b[1])
    <2>1. k \in 1..(Len(b) - 1) /\ L + k = i
      BY <1>1, <1>2
    <2>2. /\ H[L + k].owner = b[k + 1]
          /\ H[L + k].parent = IF k = 1 THEN p ELSE L + k - 1
          /\ H[L + k].cdown = NewLoads(rrg, b)[k + 1]
      BY <2>1 DEF HungOn, HungAs
    <2>3. p \in 1..L /\ T[p].owner = b[1]
      BY DEF HungOn
    <2> HIDE DEF p
    <2>4. k = 1 <=> i = L + 1
      BY <1>1
    <2>5. H[i].parent = IF i = L + 1 THEN p ELSE i - 1
      BY <2>1, <2>2, <2>4
    <2>6. H[i].parent \in 1..(i - 1) /\ H[i].parent # 0 /\ H[H[i].parent].owner = b[k]
      <3>1. CASE k = 1
        BY <1>1, <2>1, <2>3, <2>4, <2>5, <3>1
      <3>2. CASE k # 1
        <4>1. k - 1 \in 1..(Len(b) - 1) /\ L + (k - 1) = i - 1 /\ (k - 1) + 1 = k
          BY <1>1, <2>1, <3>2
        <4>2. H[L + (k - 1)].owner = b[(k - 1) + 1]
          BY <4>1 DEF HungOn, HungAs
        <4>3. i - 1 \in 1..(i - 1) /\ i - 1 # 0
          BY <1>1, <4>1
        <4> HIDE DEF k, L
        <4>4. H[i - 1].owner = b[k]
          BY <4>1, <4>2
        <4>5. QED
          BY <2>4, <2>5, <3>2, <4>3, <4>4
      <3>3. QED
        BY <3>1, <3>2
    <2>7. k + 1 \in 2..Len(b)
      BY <1>1, <2>1
    <2>8. QED
      BY <2>1, <2>2, <2>5, <2>6, <2>7 DEF p
  <1>3. QED
    BY <1>1, <1>2

-----------------------------------------------------------------------------
(* The nodes of the device that are in the tree. *)
OwnersOf(T) == {T[i].owner : i \in 1..Len(T)}

(* The tree with the branch is one, and has the branch's edges.            *)
LEMMA HungIsShaped ==
  ASSUME NEW T, NEW s, Shaped(T, s), NEW b, Along(b), NEW H, Grows(H), HungOn(T, b, H), NewTo(T, b)
  PROVE  /\ Shaped(H, s)
         /\ EdgesOf(H) = EdgesOf(T) \cup StepsOf(b)
         /\ OwnersOf(H) = OwnersOf(T) \cup ElemsOf(b)
  <1> DEFINE L == Len(T)
             B == Len(b)
             N == Len(H)
  <1>1. /\ L \in Nat /\ L >= 1 /\ T[1].owner = s /\ Grows(T)
        /\ \A i \in 1..L : T[i].parent = 0 <=> i = 1
    BY DEF Shaped, RootedAt, Grows
  <1>2. B \in Nat /\ B >= 2 /\ N = L + (B - 1) /\ N \in Nat
    BY <1>1 DEF Along, HungOn
  <1>3. \A i \in 1..L : i \in 1..N /\ H[i] = T[i]
    BY <1>1, <1>2 DEF HungOn
  <1>4. \A i \in 1..N : i \notin 1..L =>
          /\ (i - L) + 1 \in 2..B /\ i - L \in 1..(B - 1)
          /\ H[i].owner = b[(i - L) + 1] /\ H[i].parent # 0
          /\ H[H[i].parent].owner = b[i - L]
    <2> TAKE i \in 1..N
    <2>1. i \notin 1..L => i - L \in 1..(B - 1)
      BY <1>1, <1>2
    <2>2. Grows(T)
      BY <1>1
    <2>3. i \notin 1..L =>
            /\ (i - L) + 1 \in 2..B
            /\ H[i].owner = b[(i - L) + 1] /\ H[i].parent # 0
            /\ H[H[i].parent].owner = b[i - L]
      BY <2>2, HungAt
    <2>4. QED
      BY <2>1, <2>3
  <1>5. OnceEach(H)
    <2> SUFFICES ASSUME NEW i \in 1..N, NEW j \in 1..N, H[i].owner = H[j].owner
                 PROVE  i = j
      BY DEF OnceEach
    <2>1. CASE i \in 1..L /\ j \in 1..L
      BY <1>3, <2>1 DEF Shaped, OnceEach
    <2>2. CASE i \in 1..L /\ j \notin 1..L
      <3>1. (j - L) + 1 \in 2..B /\ H[j].owner = b[(j - L) + 1]
        BY <1>4, <2>2
      <3>2. H[i] = T[i]
        BY <1>3, <2>2
      <3>3. T[i].owner # b[(j - L) + 1]
        BY <2>2, <3>1 DEF NewTo
      <3>4. QED
        BY <3>1, <3>2, <3>3
    <2>3. CASE i \notin 1..L /\ j \in 1..L
      <3>1. (i - L) + 1 \in 2..B /\ H[i].owner = b[(i - L) + 1]
        BY <1>4, <2>3
      <3>2. H[j] = T[j]
        BY <1>3, <2>3
      <3>3. T[j].owner # b[(i - L) + 1]
        BY <2>3, <3>1 DEF NewTo
      <3>4. QED
        BY <3>1, <3>2, <3>3
    <2>4. CASE i \notin 1..L /\ j \notin 1..L
      <3>1. (i - L) + 1 = (j - L) + 1
        <4>1. b[(i - L) + 1] = b[(j - L) + 1] /\ (i - L) + 1 \in 2..B /\ (j - L) + 1 \in 2..B
          BY <1>4, <2>4
        <4>2. QED
          BY <4>1 DEF NewTo
      <3>2. QED
        BY <1>1, <1>2, <3>1
    <2>5. QED
      BY <2>1, <2>2, <2>3, <2>4
  <1>6. RootedAt(H, s)
    <2>1. N >= 1 /\ 1 \in 1..L
      BY <1>1, <1>2
    <2>2. H[1].owner = s
      BY <1>1, <1>3, <2>1
    <2>3. ASSUME NEW i \in 1..N
          PROVE  H[i].parent = 0 <=> i = 1
      <3>1. CASE i \in 1..L
        BY <1>1, <1>3, <3>1
      <3>2. CASE i \notin 1..L
        BY <1>4, <2>1, <3>2
      <3>3. QED
        BY <3>1, <3>2
    <2>4. QED
      BY <2>1, <2>2, <2>3 DEF RootedAt
  <1>7. \A i \in 2..L : H[H[i].parent].owner = T[T[i].parent].owner /\ H[i].owner = T[i].owner
    <2> TAKE i \in 2..L
    <2>1. i \in 1..L /\ i # 1 /\ DOMAIN T = 1..L
      BY <1>1 DEF Grows
    <2>2. T[i].parent \in 0..(i - 1) /\ T[i].parent # 0
      BY <1>1, <2>1 DEF Grows
    <2>3. T[i].parent \in 1..L
      BY <1>1, <2>2
    <2>4. QED
      BY <1>3, <2>1, <2>3
  <1>8. EdgesOf(H) = EdgesOf(T) \cup StepsOf(b)
    <2> DEFINE eh(i) == <<H[H[i].parent].owner, H[i].owner>>
               et(i) == <<T[T[i].parent].owner, T[i].owner>>
               eb(k) == <<b[k], b[k + 1]>>
    <2>1. /\ EdgesOf(H) = {eh(i) : i \in 2..N}
          /\ EdgesOf(T) = {et(i) : i \in 2..L}
          /\ StepsOf(b) = {eb(k) : k \in 1..(B - 1)}
      BY DEF EdgesOf, StepsOf
    <2>2. \A i \in 2..L : i \in 2..N /\ eh(i) = et(i)
      BY <1>2, <1>7
    <2>3. \A k \in 1..(B - 1) : L + k \in 2..N /\ eh(L + k) = eb(k)
      <3> TAKE k \in 1..(B - 1)
      <3>1. L + k \in 1..N /\ L + k \notin 1..L /\ L + k \in 2..N /\ (L + k) - L = k
        BY <1>1, <1>2
      <3>2. H[L + k].owner = b[((L + k) - L) + 1] /\ H[H[L + k].parent].owner = b[(L + k) - L]
        BY <1>4, <3>1
      <3>3. QED
        BY <3>1, <3>2
    <2>4. \A i \in 2..N : i \in 2..L \/ (i - L \in 1..(B - 1) /\ eh(i) = eb(i - L))
      <3> TAKE i \in 2..N
      <3>1. i \in 2..L \/ (i - L \in 1..(B - 1) /\ L + (i - L) = i)
        BY <1>1, <1>2
      <3> HIDE DEF eh, eb, L, N
      <3>2. QED
        BY <2>3, <3>1
    <2> HIDE DEF eh, et, eb
    <2>5. QED
      BY <2>1, <2>2, <2>3, <2>4
  <1>9. {H[i].owner : i \in 1..N} = {T[i].owner : i \in 1..L} \cup {b[k] : k \in 1..B}
    <2> DEFINE oh(i) == H[i].owner
               ot(i) == T[i].owner
    <2>1. \A i \in 1..L : i \in 1..N /\ oh(i) = ot(i)
      BY <1>3
    <2>2. \A i \in 1..N : i \in 1..L \/ ((i - L) + 1 \in 1..B /\ oh(i) = b[(i - L) + 1])
      <3> TAKE i \in 1..N
      <3>1. i \notin 1..L => (i - L) + 1 \in 2..B /\ oh(i) = b[(i - L) + 1]
        BY <1>4
      <3>2. \A k \in 2..B : k \in 1..B
        OBVIOUS
      <3>3. QED
        BY <3>1, <3>2
    <2>3. \A k \in 1..B : k = 1 \/ (L + (k - 1) \in 1..N /\ oh(L + (k - 1)) = b[k])
      <3> TAKE k \in 1..B
      <3>1. k # 1 => /\ L + (k - 1) \in 1..N /\ L + (k - 1) \notin 1..L
                     /\ ((L + (k - 1)) - L) + 1 = k
        BY <1>1, <1>2
      <3>2. k # 1 => oh(L + (k - 1)) = b[((L + (k - 1)) - L) + 1]
        BY <1>4, <3>1
      <3> HIDE DEF oh
      <3>3. QED
        BY <3>1, <3>2
    <2>4. \E i \in 1..L : b[1] = ot(i)
      BY DEF HungOn
    <2>5. \A i \in 1..L : \E j \in 1..N : oh(j) = ot(i)
      BY <2>1
    <2>6. \A k \in 1..B : \E j \in 1..N : oh(j) = b[k]
      BY <2>1, <2>3, <2>4
    <2> HIDE DEF oh, ot
    <2>7. {oh(i) : i \in 1..N} = {ot(i) : i \in 1..L} \cup {b[k] : k \in 1..B}
      BY <2>1, <2>2, <2>5, <2>6
    <2>8. QED
      BY <2>7 DEF oh, ot
  <1>10. OwnersOf(H) = OwnersOf(T) \cup ElemsOf(b)
    <2>1. ElemsOf(b) = {b[k] : k \in 1..B}
      BY DEF ElemsOf, Along
    <2>2. QED
      BY <1>9, <2>1 DEF OwnersOf
  <1>11. QED
    BY <1>5, <1>6, <1>8, <1>10 DEF Shaped

(* The new nodes have the loads that they are given; what hangs on the old *)
(* tree now is missing there.                                              *)
LEMMA HungWeighs ==
  ASSUME Electric, NEW T, NEW s, Shaped(T, s), Weighed(T), NEW b, Along(b),
         NEW H, Shaped(H, s), HungOn(T, b, H), NEW f, f = Len(T) + 1, NEW p,
         p = IF Stops(H, f) THEN 0 ELSE H[f].parent
  PROVE  /\ f \in 1..Len(H) /\ H[f].cdown \in Nat
         /\ WeighedBut(H, p, H[f].cdown)
  <1> DEFINE L == Len(T)
             B == Len(b)
             N == Len(H)
             w == Downs(H)
             load == NewLoads(rrg, b)
  <1>1. L \in Nat /\ B \in Nat /\ B >= 2 /\ N = L + (B - 1) /\ Grows(T)
    BY DEF Shaped, Grows, Along, HungOn
  <1>2. f \in 1..N /\ f \notin 1..L
    BY <1>1
  <1>3. \A i \in 1..N : w[i] = H[i].cdown /\ w[i] \in Nat
    BY TreeNodeFits DEF Downs
  <1>4. \A i \in 1..L : i \in 1..N /\ H[i] = T[i]
    BY <1>1 DEF HungOn
  <1>5. \A i \in 1..N : i \notin 1..L =>
              /\ (i - L) + 1 \in 2..B
              /\ H[i].owner = b[(i - L) + 1]
              /\ H[i].parent = IF i = f THEN TreeNodeOf(T, b[1]) ELSE i - 1
              /\ H[i].cdown = load[(i - L) + 1]
              /\ H[i].parent # 0
              /\ SwitchTo(rrg, H, i) = rrg.sw[<<b[i - L], b[(i - L) + 1]>>]
    <2> TAKE i \in 1..N
    <2> HIDE DEF load
    <2>1. i \notin 1..L =>
              /\ (i - L) + 1 \in 2..B
              /\ H[i].owner = b[(i - L) + 1]
              /\ H[i].parent = IF i = f THEN TreeNodeOf(T, b[1]) ELSE i - 1
              /\ H[i].cdown = load[(i - L) + 1]
              /\ H[i].parent # 0
              /\ H[H[i].parent].owner = b[i - L]
      <3>1. Grows(T) /\ i \in 1..Len(H)
        BY <1>1
      <3>2. i \notin 1..Len(T) =>
              /\ (i - Len(T)) + 1 \in 2..Len(b)
              /\ H[i].owner = b[(i - Len(T)) + 1]
              /\ H[i].parent = IF i = Len(T) + 1 THEN TreeNodeOf(T, b[1]) ELSE i - 1
              /\ H[i].cdown = NewLoads(rrg, b)[(i - Len(T)) + 1]
              /\ H[i].parent # 0
              /\ H[H[i].parent].owner = b[i - Len(T)]
        BY <3>1, HungAt, SMTT(30)
      <3>3. QED
        BY <3>2 DEF load
    <2>2. QED
      BY <2>1 DEF SwitchTo
  <1>6. TreeNodeOf(T, b[1]) \in 1..L
    BY DEF HungOn
  <1>7. AddUp(load, b) /\ \A j \in 2..B : load[j] \in Nat
    BY LoadsNat
  <1> HIDE DEF load
  <1>8. H[f].cdown \in Nat
    BY <1>2, <1>3
  <1> SUFFICES ASSUME NEW i \in 1..N
               PROVE  H[i].cdown + (IF i = p THEN H[f].cdown ELSE 0)
                         = OwnLoad(H, i) + Total(w, Kids(H, i))
    BY <1>2, <1>8 DEF WeighedBut
  <1>9. \A K \in SUBSET (1..N) : Weights(w, K)
    <2> TAKE K \in SUBSET (1..N)
    <2>1. IsFiniteSet(1..N)
      BY <1>1, FS_Interval
    <2>2. IsFiniteSet(K)
      BY <2>1, FS_Subset
    <2> HIDE DEF w, N
    <2>3. QED
      BY <1>3, <2>2 DEF Weights
  <1>10. CASE i \in 1..L
    <2> DEFINE K == Kids(T, i)
    <2>1. OwnLoad(H, i) = OwnLoad(T, i) /\ H[i].cdown = T[i].cdown
      BY <1>4, <1>10 DEF OwnLoad
    <2>2. T[i].cdown = OwnLoad(T, i) + Total(Downs(T), K)
      BY <1>10 DEF Weighed
    <2>3. K \in SUBSET (1..N) /\ f \notin K /\ K \subseteq 1..L
      BY <1>1, <1>2, <1>4 DEF Kids
    <2>4. Total(w, K) = Total(Downs(T), K)
      <3>1. \A k \in K : w[k] = Downs(T)[k]
        <4> TAKE k \in K
        <4>1. k \in 1..L /\ k \in 1..N
          BY <1>4, <2>3
        <4>2. w[k] = H[k].cdown /\ H[k] = T[k]
          BY <1>3, <1>4, <4>1
        <4>3. Downs(T)[k] = T[k].cdown
          BY <4>1 DEF Downs
        <4>4. QED
          BY <4>2, <4>3
      <3> HIDE DEF K, w
      <3>2. QED
        BY <1>9, <2>3, <3>1, TotalSame
    <2>5. OwnLoad(H, i) \in Nat
      BY TreeNodeFits DEF OwnLoad
    <2>6. Total(w, K) \in Int
      <3> HIDE DEF K, w
      <3>1. K \in SUBSET K
        OBVIOUS
      <3>2. QED
        BY <1>9, <2>3, <3>1, TotalInt
    <2>7. \A j \in 1..L : j \in Kids(H, i) <=> j \in K
      <3> TAKE j \in 1..L
      <3>1. H[j] = T[j] /\ j \in 1..N
        BY <1>4
      <3>2. CASE j = 1
        <4>1. T[j].parent = 0
          BY <3>2 DEF Shaped, RootedAt
        <4>2. QED
          BY <1>10, <3>1, <4>1 DEF Kids
      <3>3. CASE j # 1
        <4>1. T[j].parent \in 1..L
          <5>1. T[j].parent \in 0..(j - 1) /\ T[j].parent # 0
            BY <1>1, <3>3 DEF Shaped, Grows, RootedAt
          <5>2. QED
            BY <1>1, <5>1
        <4>2. SwitchTo(rrg, H, j) = SwitchTo(rrg, T, j)
          BY <1>4, <3>1, <4>1 DEF SwitchTo
        <4>3. QED
          BY <3>1, <4>2 DEF Kids
      <3>4. QED
        BY <3>2, <3>3
    <2>8. \A j \in 1..N : j \notin 1..L => (j \in Kids(H, i) <=> j = f /\ i = p)
      <3> TAKE j \in 1..N
      <3> SUFFICES ASSUME j \notin 1..L
                   PROVE  j \in Kids(H, i) <=> j = f /\ i = p
        OBVIOUS
      <3>1. CASE j = f
        <4>1. H[f].parent # 0
          BY <1>2, <1>5
        <4>2. Stops(H, f) <=> SwitchTo(rrg, H, f).buf
          BY <4>1 DEF Stops
        <4>3. i # 0
          BY <1>10
        <4>4. QED
          BY <3>1, <4>1, <4>2, <4>3, <1>2 DEF Kids
      <3>2. CASE j # f
        <4>1. H[j].parent = j - 1
          BY <1>5, <3>2
        <4>2. j - 1 \notin 1..L
          BY <1>1, <3>2
        <4>3. QED
          BY <1>10, <3>2, <4>1, <4>2 DEF Kids
      <3>3. QED
        BY <3>1, <3>2
    <2>9. Kids(H, i) = IF i = p THEN K \cup {f} ELSE K
      <3>1. Kids(H, i) \subseteq 1..N
        BY DEF Kids
      <3> HIDE DEF K, N, L
      <3>2. QED
        BY <1>2, <1>4, <2>3, <2>7, <2>8, <3>1
    <2> HIDE DEF K
    <2>10. CASE i = p
      <3>1. Weights(w, K \cup {f})
        BY <1>2, <1>9, <2>3
      <3>2. Total(w, K \cup {f}) = Total(w, K) + w[f]
        BY <2>3, <3>1, TotalAdds
      <3>3. w[f] = H[f].cdown
        BY <1>2, <1>3
      <3> DEFINE o == OwnLoad(H, i)
                 t == Total(w, K)
      <3>4. o \in Nat /\ t \in Int /\ H[i].cdown = o + t /\ Total(w, Kids(H, i)) = t + H[f].cdown
        BY <2>1, <2>2, <2>4, <2>5, <2>6, <2>9, <2>10, <3>2, <3>3
      <3> HIDE DEF o, t, w
      <3>5. H[i].cdown + H[f].cdown = o + Total(w, Kids(H, i))
        BY <1>8, <3>4
      <3>6. QED
        BY <2>10, <3>5 DEF o
    <2>11. CASE i # p
      <3>1. H[i].cdown + 0 = H[i].cdown
        BY <1>3
      <3>2. QED
        BY <2>1, <2>2, <2>4, <2>9, <2>11, <3>1
    <2>12. QED
      BY <2>10, <2>11
  <1>11. CASE i \notin 1..L
    <2> DEFINE k == (i - L) + 1
    <2>1. k \in 2..B /\ H[i].owner = b[k] /\ H[i].cdown = load[k] /\ H[i].parent # 0
      BY <1>5, <1>11
    <2>2. i # p
      <3>1. f = i \/ f # i
        OBVIOUS
      <3>2. H[f].parent \in 1..L
        BY <1>2, <1>5, <1>6
      <3>3. QED
        BY <1>11, <3>2
    <2>3. OwnLoad(H, i) = rrg.cap[b[k]]
      BY <2>1 DEF OwnLoad
    <2>4. load[k] = IF k = B \/ rrg.sw[<<b[k], b[k + 1]>>].buf THEN rrg.cap[b[k]]
                                                              ELSE rrg.cap[b[k]] + load[k + 1]
      BY <1>7, <2>1 DEF AddUp
    <2>5. \A j \in Kids(H, i) : j = i + 1 /\ j \in 1..N /\ j \notin 1..L
      <3> TAKE j \in Kids(H, i)
      <3>1. j \in 1..N /\ H[j].parent = i
        BY DEF Kids
      <3>2. j \notin 1..L
        <4> SUFFICES ASSUME j \in 1..L
                     PROVE  FALSE
          OBVIOUS
        <4>1. T[j].parent = i
          BY <1>4, <3>1
        <4>2. T[j].parent \in 0..(j - 1)
          BY DEF Shaped, Grows
        <4>3. QED
          BY <1>1, <1>11, <4>1, <4>2
      <3>3. j # f
        BY <1>2, <1>5, <1>6, <1>11, <3>1
      <3>4. H[j].parent = j - 1
        BY <1>5, <3>1, <3>2, <3>3
      <3>5. j = i + 1
        BY <1>1, <3>1, <3>4
      <3>6. QED
        BY <3>1, <3>2, <3>5
    <2>6. \A m \in Nat : m = i + 1 => (m \in Kids(H, i) <=> k # B /\ ~rrg.sw[<<b[k], b[k + 1]>>].buf)
      <3> SUFFICES ASSUME NEW m \in Nat, m = i + 1
                   PROVE  m \in Kids(H, i) <=> k # B /\ ~rrg.sw[<<b[k], b[k + 1]>>].buf
        OBVIOUS
      <3>1. m \in 1..N <=> k # B
        BY <1>1, <2>1
      <3>2. CASE m \in 1..N
        <4>1. m \notin 1..L /\ m # f /\ m - 1 = i /\ m - L = k
          BY <1>1, <1>11
        <4> HIDE DEF k
        <4>2. H[m].parent = i /\ SwitchTo(rrg, H, m) = rrg.sw[<<b[k], b[k + 1]>>]
          BY <1>5, <3>2, <4>1
        <4>3. QED
          BY <3>1, <3>2, <4>2 DEF Kids
      <3>3. CASE m \notin 1..N
        BY <3>1, <3>3 DEF Kids
      <3>4. QED
        BY <3>2, <3>3
    <2>7. rrg.cap[b[k]] \in Nat
      BY <2>1, AlongFits
    <2>8. CASE k # B /\ ~rrg.sw[<<b[k], b[k + 1]>>].buf
      <3>1. PICK m \in Nat : m = i + 1
        BY <1>1
      <3>2. Kids(H, i) = {m} /\ m \in 1..N /\ m \notin 1..L /\ (m - L) + 1 = k + 1
        <4>1. m \in Kids(H, i)
          BY <2>6, <2>8, <3>1
        <4>2. m \in 1..N /\ m \notin 1..L
          BY <2>5, <4>1
        <4>3. (m - L) + 1 = k + 1
          BY <1>1, <3>1
        <4>4. Kids(H, i) = {m}
          BY <2>5, <3>1, <4>1
        <4>5. QED
          BY <4>2, <4>3, <4>4
      <3> HIDE DEF k
      <3>3. w[m] = load[k + 1] /\ w[m] \in Nat
        BY <1>3, <1>5, <3>2
      <3>4. Total(w, {m}) = w[m]
        <4>1. Weights(w, {} \cup {m})
          BY <1>9, <3>2
        <4> HIDE DEF w
        <4>2. Total(w, {} \cup {m}) = Total(w, {}) + w[m]
          BY <4>1, TotalAdds
        <4>3. Total(w, {}) = 0
          BY TotalEmpty
        <4>4. {} \cup {m} = {m}
          OBVIOUS
        <4>5. QED
          BY <3>3, <4>2, <4>3, <4>4
      <3>5. H[i].cdown = rrg.cap[b[k]] + load[k + 1]
        BY <2>1, <2>4, <2>8
      <3> HIDE DEF w
      <3>6. H[i].cdown + 0 = rrg.cap[b[k]] + w[m]
        BY <2>7, <3>3, <3>5
      <3>7. QED
        BY <2>2, <2>3, <3>2, <3>4, <3>6
    <2>9. CASE ~(k # B /\ ~rrg.sw[<<b[k], b[k + 1]>>].buf)
      <3>1. Kids(H, i) = {}
        <4>1. i + 1 \in Nat
          BY <1>1
        <4>2. i + 1 \notin Kids(H, i)
          BY <2>6, <2>9, <4>1
        <4>3. QED
          BY <2>5, <4>2
      <3> HIDE DEF w
      <3>2. Total(w, Kids(H, i)) = 0
        BY <3>1, TotalEmpty
      <3>3. H[i].cdown = rrg.cap[b[k]]
        BY <2>1, <2>4, <2>9
      <3>4. QED
        BY <2>2, <2>3, <2>7, <3>2, <3>3
    <2>10. QED
      BY <2>8, <2>9
  <1>12. QED
    BY <1>10, <1>11

-----------------------------------------------------------------------------
(* Loads and delays of the tree are right, node by node.                   *)
Exact(T, s) == Shaped(T, s) /\ Weighed(T) /\ Delayed(T)

(* Of the new nodes, all are below what is above the first of them.        *)
LEMMA NewAreBelow ==
  ASSUME NEW H, NEW s, Shaped(H, s), NEW f \in 1..Len(H), NEW u \in 1..f, Below(H, u)[f],
         \A i \in 1..Len(H) : i > f => H[i].parent = i - 1
  PROVE  \A i \in 1..Len(H) : i >= f => Below(H, u)[i]
  <1> DEFINE N == Len(H)
             S == {k \in 0..N : \A i \in 1..k : i >= f => Below(H, u)[i]}
  <1>1. N \in Nat /\ u \in 1..N
    BY DEF Shaped, Grows
  <1>2. 0 \in S
    BY <1>1
  <1>3. ASSUME NEW k \in 1..N, k - 1 \in S
        PROVE  k \in S
    <2>1. ASSUME k >= f
          PROVE  Below(H, u)[k]
      <3>1. CASE k = f
        BY <3>1
      <3>2. CASE k # f
        <4>1. k > f /\ k > u /\ k - 1 \in 1..(k - 1) /\ k - 1 >= f
          BY <2>1, <3>2
        <4>2. H[k].parent = k - 1 /\ Below(H, u)[k - 1]
          BY <1>3, <4>1
        <4>3. QED
          BY <1>1, <4>1, <4>2, BelowIs
      <3>3. QED
        BY <3>1, <3>2
    <2>2. \A j \in 1..k : j = k \/ j \in 1..(k - 1)
      OBVIOUS
    <2>3. QED
      BY <1>3, <2>1, <2>2
  <1>4. N \in S
    <2> HIDE DEF S, N
    <2>1. 0..N \subseteq S
      BY <1>1, <1>2, <1>3, BoundedInduction
    <2>2. QED
      BY <1>1, <2>1
  <1>5. QED
    BY <1>4

(* Delays are right but for the nodes of bl. *)
DelayedBut(T, bl) == \A i \in 1..Len(T) : ~bl[i] => T[i].delay = DelayAt(T, i)

(* Delays that are right but for what is below u are right when this is    *)
(* done anew.                                                              *)
LEMMA RedelayedIs ==
  ASSUME Electric, NEW L, NEW s, Shaped(L, s), NEW u \in 1..Len(L),
         DelayedBut(L, Below(L, u)), NEW U, SameShape(L, U), Redelayed(L, U, Below(L, u))
  PROVE  Delayed(U)
  <1> DEFINE bl == Below(L, u)
  <1>1. Len(U) = Len(L) /\ Len(L) \in Nat
    BY DEF SameShape, Shaped, Grows
  <1>2. \A i \in 1..Len(L) : bl[i] <=> i = u \/ (i > u /\ bl[L[i].parent])
    BY BelowIs
  <1> HIDE DEF bl
  <1> SUFFICES ASSUME NEW i \in 1..Len(L)
               PROVE  U[i].delay = DelayAt(U, i)
    BY <1>1 DEF Delayed
  <1>3. /\ U[i].owner = L[i].owner /\ U[i].parent = L[i].parent
        /\ i # 1 => SwitchTo(rrg, U, i) = SwitchTo(rrg, L, i)
    BY ShapeIsAll
  <1>4. /\ U[i].cdown = L[i].cdown
        /\ U[i].delay = IF ~bl[i] THEN L[i].delay
                        ELSE IF L[i].parent = 0 THEN HalfRC(rrg, L[i])
                        ELSE U[L[i].parent].delay
                               + (SwitchTo(rrg, L, i).res * L[i].cdown + SwitchTo(rrg, L, i).delay)
                               + HalfRC(rrg, L[i])
    BY DEF Redelayed, bl
  <1>5. HalfRC(rrg, U[i]) = HalfRC(rrg, L[i])
    BY <1>3, <1>4 DEF HalfRC
  <1>6. L[i].parent = 0 <=> i = 1
    BY DEF Shaped, RootedAt
  <1>7. CASE bl[i]
    <2>1. CASE i = 1
      BY <1>3, <1>4, <1>5, <1>6, <1>7, <2>1 DEF DelayAt
    <2>2. CASE i # 1
      BY <1>3, <1>4, <1>5, <1>6, <1>7, <2>2 DEF DelayAt
    <2>3. QED
      BY <2>1, <2>2
  <1>8. CASE ~bl[i]
    <2>1. U[i].delay = L[i].delay /\ L[i].delay = DelayAt(L, i)
      BY <1>4, <1>8 DEF DelayedBut, bl
    <2>2. CASE i = 1
      BY <1>3, <1>5, <1>6, <2>1, <2>2 DEF DelayAt
    <2>3. CASE i # 1
      <3>1. L[i].parent \in 1..(i - 1)
        <4>1. L[i].parent \in 0..(i - 1)
          BY DEF Shaped, Grows
        <4>2. QED
          BY <1>6, <2>3, <4>1
      <3>2. PICK q \in 1..Len(L) : q = L[i].parent /\ q < i
        BY <1>1, <3>1
      <3>3. ~bl[q]
        <4> SUFFICES ASSUME bl[q]
                     PROVE  FALSE
          OBVIOUS
        <4>1. q = u \/ q > u
          BY <1>2
        <4>2. i > u /\ bl[L[i].parent]
          BY <3>2, <4>1
        <4>3. QED
          BY <1>2, <1>8, <4>2
      <3>4. U[q].delay = L[q].delay
        BY <3>3 DEF Redelayed, bl
      <3>5. QED
        BY <1>3, <1>4, <1>5, <1>6, <2>1, <2>3, <3>2, <3>4 DEF DelayAt
    <2>4. QED
      BY <2>2, <2>3
  <1>9. QED
    BY <1>7, <1>8

(* A branch added leaves the tree exact.                                   *)
LEMMA BranchIsExact ==
  ASSUME Electric, NEW T, NEW s, Exact(T, s), NEW b, Along(b),
         \E i \in DOMAIN T : T[i].owner = b[1], NewTo(T, b),
         NEW U, U = UpdateRouteTree(rrg, T, b)
  PROVE  /\ Exact(U, s)
         /\ EdgesOf(U) = EdgesOf(T) \cup StepsOf(b)
         /\ OwnersOf(U) = OwnersOf(T) \cup ElemsOf(b)
  <1> DEFINE H     == Hung(rrg, T, b)
             f     == Len(T) + 1
             chain == UnbufferedChain(rrg, H, f)
             L     == [i \in DOMAIN H |->
                         IF i \in chain \ {f}
                           THEN [H[i] EXCEPT !.cdown = @ + H[f].cdown] ELSE H[i]]
             u     == CHOOSE i \in chain : \A j \in chain : i <= j
  <1>1. U = WithDelays(rrg, L, u)
    BY DEF UpdateRouteTree
  <1>2. Shaped(T, s) /\ Weighed(T) /\ Delayed(T) /\ Grows(T) /\ Len(T) \in Nat /\ DOMAIN T = 1..Len(T)
    BY DEF Exact, Shaped, Grows
  <1>3. Len(b) \in Nat /\ Len(b) >= 2
    BY DEF Along
  <1>4. Grows(H) /\ HungOn(T, b, H)
    <2> HIDE DEF H
    <2>1. /\ Grows(H)
          /\ Len(H) = Len(T) + (Len(b) - 1)
          /\ \A i \in 1..Len(T) : H[i] = T[i]
          /\ HungAs(T, b, H)
      BY <1>2, HungGrows DEF H
    <2>2. T \in Seq(TreeNodes)
      BY <1>2 DEF Grows
    <2>3. TreeNodeOf(T, b[1]) \in DOMAIN T /\ T[TreeNodeOf(T, b[1])].owner = b[1]
      BY <2>2, LatestNode
    <2>4. QED
      BY <1>2, <2>1, <2>3 DEF HungOn
  <1> HIDE DEF H
  <1>5. /\ Shaped(H, s)
        /\ EdgesOf(H) = EdgesOf(T) \cup StepsOf(b)
        /\ OwnersOf(H) = OwnersOf(T) \cup ElemsOf(b)
    BY <1>2, <1>4, HungIsShaped
  <1>6. PICK p : p = IF Stops(H, f) THEN 0 ELSE H[f].parent
    OBVIOUS
  <1>7. f \in 1..Len(H) /\ H[f].cdown \in Nat /\ WeighedBut(H, p, H[f].cdown)
    <2> HIDE DEF f
    <2>1. f = Len(T) + 1
      BY DEF f
    <2>2. QED
      BY <1>2, <1>4, <1>5, <1>6, <2>1, HungWeighs
  <1>8. ChainFrom(chain, H, f)
    <2> HIDE DEF f
    <2>1. QED
      BY <1>4, <1>7, ChainClimbs
  <1> HIDE DEF chain
  <1>9. u \in chain /\ \A j \in chain : u <= j
    <2> HIDE DEF f
    <2>1. /\ (CHOOSE j \in chain : \A k \in chain : j <= k) \in chain
          /\ \A k \in chain : (CHOOSE j \in chain : \A m \in chain : j <= m) <= k
      BY <1>8, ChainTop
    <2>2. QED
      BY <2>1
  <1> HIDE DEF u
  <1>10. SameShape(H, L)
    <2> HIDE DEF f
    <2>1. QED
      BY <1>4, <1>7, LoadsKeepShape
  <1>11. Loads(H, L, chain \ {f}, H[f].cdown) /\ \A i \in 1..Len(H) : i \notin chain => L[i] = H[i]
    <2>1. DOMAIN H = 1..Len(H) /\ \A i \in 1..Len(H) : H[i] \in TreeNodes
      BY <1>4 DEF Grows
    <2>2. ASSUME NEW i \in 1..Len(H)
          PROVE  /\ L[i].cdown = H[i].cdown + (IF i \in chain \ {f} THEN H[f].cdown ELSE 0)
                 /\ i \notin chain => L[i] = H[i]
      <3> DEFINE n == H[i]
                 c == H[f].cdown
      <3>1. n \in TreeNodes /\ n.cdown \in Nat
        BY <2>1 DEF TreeNodes
      <3>2. L[i] = IF i \in chain \ {f} THEN [n EXCEPT !.cdown = n.cdown + c] ELSE n
        BY <2>1
      <3> HIDE DEF n, c, L, f
      <3>3. [n EXCEPT !.cdown = n.cdown + c].cdown = n.cdown + c
        BY <3>1 DEF TreeNodes
      <3>4. CASE i \in chain \ {f}
        BY <3>2, <3>3, <3>4 DEF n, c
      <3>5. CASE i \notin chain \ {f}
        BY <3>1, <3>2, <3>5 DEF n, c
      <3>6. QED
        BY <3>4, <3>5
    <2> HIDE DEF L, f
    <2>3. QED
      BY <2>2 DEF Loads
  <1> HIDE DEF L
  <1>12. Weighed(L)
    <2> HIDE DEF f
    <2>1. QED
      BY <1>5, <1>6, <1>7, <1>8, <1>10, <1>11, ChainWeighs
  <1>13. Shaped(L, s) /\ Len(L) = Len(H) /\ EdgesOf(L) = EdgesOf(H)
         /\ \A i \in 1..Len(H) : /\ L[i].owner = H[i].owner /\ L[i].parent = H[i].parent
                                 /\ Stops(L, i) <=> Stops(H, i)
                                 /\ i # 1 => SwitchTo(rrg, L, i) = SwitchTo(rrg, H, i)
    BY <1>5, <1>10, ShapeIsAll
  <1>14. ChainFrom(chain, L, f)
    <2>1. \A j \in chain : j \in 1..Len(H)
      BY <1>7, <1>8 DEF ChainFrom
    <2>2. \A j \in chain : L[j].parent = H[j].parent /\ (Stops(L, j) <=> Stops(H, j))
      BY <1>13, <2>1
    <2> HIDE DEF f
    <2>3. QED
      BY <1>8, <2>2 DEF ChainFrom
  <1>15. /\ u \in 1..Len(L)
         /\ \A j \in chain : Below(L, u)[j]
    <2> HIDE DEF f
    <2>1. f \in 1..Len(L)
      BY <1>7, <1>13
    <2>2. QED
      BY <1>9, <1>13, <1>14, <2>1, ChainBelow
  <1>16. \A i \in 1..Len(L) : i >= f => Below(L, u)[i]
    <2>1. \A i \in 1..Len(L) : i > f => L[i].parent = i - 1
      <3> TAKE i \in 1..Len(L)
      <3>1. i > f => i \in 1..Len(H) /\ i \notin 1..Len(T) /\ i # Len(T) + 1
        BY <1>2, <1>13
      <3>2. i > f => H[i].parent = i - 1
        <4> HIDE DEF f
        <4>1. QED
          BY <1>2, <1>4, <3>1, HungAt
      <3>3. QED
        BY <1>13, <3>1, <3>2
    <2>2. f \in 1..Len(L) /\ u \in 1..f /\ Below(L, u)[f]
      BY <1>7, <1>8, <1>9, <1>13, <1>15 DEF ChainFrom
    <2> HIDE DEF f
    <2>3. QED
      BY <1>13, <2>1, <2>2, NewAreBelow
  <1>17. DelayedBut(L, Below(L, u))
    <2> SUFFICES ASSUME NEW i \in 1..Len(L), ~Below(L, u)[i]
                 PROVE  L[i].delay = DelayAt(L, i)
      BY DEF DelayedBut
    <2>1. i \notin chain /\ ~(i >= f) /\ i \in 1..Len(H)
      BY <1>13, <1>15, <1>16
    <2>2. i \in 1..Len(T)
      BY <1>2, <1>13, <2>1
    <2>3. L[i] = T[i]
      BY <1>4, <1>11, <2>1, <2>2 DEF HungOn
    <2>4. T[i].delay = DelayAt(T, i)
      BY <1>2, <2>2 DEF Delayed
    <2>5. T[i].parent = 0 <=> i = 1
      BY <1>2, <2>2 DEF Shaped, RootedAt
    <2>6. CASE i = 1
      BY <2>3, <2>4, <2>5, <2>6 DEF DelayAt
    <2>7. CASE i # 1
      <3>1. T[i].parent \in 0..(i - 1) /\ T[i].parent # 0
        BY <1>2, <2>2, <2>5, <2>7 DEF Grows
      <3>2. PICK q \in 1..Len(T) : q = T[i].parent /\ q < i
        BY <1>2, <2>2, <3>1
      <3>3. q \in 1..Len(L) /\ i > q
        <4>1. Len(L) >= Len(T) /\ Len(L) \in Nat
          BY <1>2, <1>3, <1>4, <1>13 DEF HungOn
        <4>2. QED
          BY <1>2, <3>2, <4>1
      <3>4. ~Below(L, u)[q]
        <4> SUFFICES ASSUME Below(L, u)[q]
                     PROVE  FALSE
          OBVIOUS
        <4>1. q = u \/ q > u
          BY <1>13, <1>15, <3>3, BelowIs
        <4>2. i > u /\ Below(L, u)[L[i].parent]
          BY <1>15, <2>3, <3>2, <3>3, <4>1
        <4>3. QED
          BY <1>13, <1>15, <4>2, BelowIs
      <3>5. q \notin chain /\ q \in 1..Len(H)
        BY <1>13, <1>15, <3>3, <3>4
      <3>6. L[q] = T[q]
        BY <1>4, <1>11, <3>2, <3>5 DEF HungOn
      <3>7. SwitchTo(rrg, L, i) = SwitchTo(rrg, T, i)
        BY <2>3, <3>2, <3>6 DEF SwitchTo
      <3>8. QED
        BY <2>3, <2>4, <2>5, <2>7, <3>2, <3>6, <3>7 DEF DelayAt
    <2>8. QED
      BY <2>6, <2>7
  <1>18. SameShape(L, U) /\ Redelayed(L, U, Below(L, u))
    <2>1. Grows(L)
      BY <1>13 DEF Shaped
    <2>2. SameShape(L, WithDelays(rrg, L, u)) /\ Redelayed(L, WithDelays(rrg, L, u), Below(L, u))
      BY <2>1, DelaysKeepShape, Zenon
    <2>3. QED
      BY <1>1, <2>2
  <1>19. Delayed(U)
    BY <1>13, <1>15, <1>17, <1>18, RedelayedIs
  <1>20. /\ Shaped(U, s) /\ Len(U) = Len(L) /\ EdgesOf(U) = EdgesOf(L)
         /\ \A i \in 1..Len(L) : /\ U[i].owner = L[i].owner /\ U[i].parent = L[i].parent
                                 /\ Kids(U, i) = Kids(L, i)
                                 /\ OwnLoad(U, i) = OwnLoad(L, i)
    BY <1>13, <1>18, ShapeIsAll
  <1>21. Weighed(U)
    <2>1. \A i \in 1..Len(L) : U[i].cdown = L[i].cdown
      BY <1>18 DEF Redelayed
    <2>2. Downs(U) = Downs(L)
      BY <1>20, <2>1 DEF Downs
    <2>3. QED
      BY <1>12, <1>20, <2>1, <2>2 DEF Weighed
  <1>22. OwnersOf(U) = OwnersOf(H)
    BY <1>13, <1>20 DEF OwnersOf
  <1>23. QED
    BY <1>5, <1>13, <1>19, <1>20, <1>21, <1>22 DEF Exact

-----------------------------------------------------------------------------
(* A list that is a route with its last branch is one without it, and the  *)
(* branch is new to a tree of it.                                          *)
LEMMA RouteBefore ==
  ASSUME NEW s \in Node, NEW p, p = <<>> \/ IsWalk(p, s), NEW b, Leaves(p, b, s),
         IsRoute(p \o b, s)
  PROVE  /\ p = <<>> \/ IsRoute(p, s)
         /\ \A T : OwnersOf(T) = {s} \cup ElemsOf(p) => NewTo(T, b)
  <1> DEFINE q == p \o b
             P == Len(p)
             B == Len(b)
  <1>1. /\ p \in Seq(Node) /\ b \in Seq(Node) /\ P \in Nat /\ B \in Nat /\ B >= 2
        /\ \A i \in 1..P : q[i] = p[i]
        /\ \A i \in 1..B : q[P + i] = b[i]
        /\ p = <<>> <=> P = 0
    BY AppendedAt
  <1>2. \A i : i \in Fresh(q) <=> i \in Fresh(p) \/ i \in BranchStart(P)..(P + B)
    BY FreshAppended
  <1>3. \A i, j \in Fresh(q) : q[i] = q[j] => i = j
    BY DEF IsRoute
  <1> HIDE DEF q
  <1>4. \A i \in Fresh(p) : i \in 1..P /\ i \in Fresh(q) /\ q[i] = p[i]
    BY <1>1, <1>2 DEF Fresh
  <1>5. p = <<>> \/ IsRoute(p, s)
    <2> SUFFICES ASSUME IsWalk(p, s), NEW i \in Fresh(p), NEW j \in Fresh(p), p[i] = p[j]
                 PROVE  i = j
      BY DEF IsRoute
    <2>1. i \in Fresh(q) /\ j \in Fresh(q) /\ q[i] = q[j]
      BY <1>4
    <2>2. QED
      BY <1>3, <2>1
  <1>6. ASSUME NEW k \in 2..B
        PROVE  P + k \in Fresh(q) /\ q[P + k] = b[k]
    <2>1. P + k \in BranchStart(P)..(P + B) /\ k \in 1..B
      BY <1>1 DEF BranchStart
    <2>2. QED
      BY <1>1, <1>2, <2>1
  <1>7. ASSUME NEW k \in 2..B
        PROVE  b[k] \notin ElemsOf(p) /\ b[k] # s
    <2>1. b[k] \notin ElemsOf(p)
      <3> SUFFICES ASSUME b[k] \in ElemsOf(p)
                   PROVE  FALSE
        OBVIOUS
      <3>1. p # <<>>
        BY DEF ElemsOf
      <3>2. IsWalk(p, s)
        BY <3>1
      <3>3. PICK i \in Fresh(p) : p[i] = b[k]
        BY <3>2, FreshSomewhere
      <3>4. i \in 1..P /\ i \in Fresh(q) /\ q[i] = q[P + k] /\ P + k \in Fresh(q)
        BY <1>4, <1>6, <3>3
      <3>5. i = P + k
        BY <1>3, <3>4
      <3>6. QED
        BY <1>1, <3>4, <3>5
    <2>2. CASE p = <<>>
      <3>1. b[1] = s
        BY <2>2 DEF Leaves
      <3>2. P = 0 /\ 1 \in BranchStart(P)..(P + B) /\ 1 \in 1..B
        BY <1>1, <2>2 DEF BranchStart
      <3>3. 1 \in Fresh(q) /\ q[1] = b[1]
        <4>1. q[P + 1] = b[1]
          BY <1>1, <3>2
        <4>2. P + 1 = 1
          BY <3>2
        <4>3. QED
          BY <1>2, <3>2, <4>1, <4>2
      <3>4. P + k # 1
        BY <1>1
      <3>5. q[P + k] # q[1]
        BY <1>3, <1>6, <3>3, <3>4
      <3>6. QED
        BY <1>6, <2>1, <3>1, <3>3, <3>5
    <2>3. CASE p # <<>>
      <3>1. s \in ElemsOf(p)
        <4>1. IsWalk(p, s) /\ 1 \in DOMAIN p
          BY <1>1, <2>3 DEF IsWalk, NonEmpty
        <4>2. QED
          BY <4>1 DEF IsWalk, ElemsOf
      <3>2. QED
        BY <2>1, <3>1
    <2>4. QED
      BY <2>1, <2>2, <2>3
  <1>9. ASSUME NEW j \in 2..B, NEW k \in 2..B, b[j] = b[k]
        PROVE  j = k
    <2>1. P + j = P + k
      BY <1>3, <1>6, <1>9
    <2>2. QED
      BY <1>1, <2>1
  <1>10. ASSUME NEW T, OwnersOf(T) = {s} \cup ElemsOf(p)
         PROVE  NewTo(T, b)
    <2>1. \A k \in 2..B : \A i \in 1..Len(T) : T[i].owner # b[k]
      BY <1>7, <1>10 DEF OwnersOf
    <2>2. QED
      BY <1>9, <2>1 DEF NewTo
  <1>11. QED
    BY <1>5, <1>10

(* The pips of a list with a branch are those of both.                     *)
LEMMA PipsAppended ==
  ASSUME NEW s \in Node, NEW p, p = <<>> \/ IsWalk(p, s), NEW b, Leaves(p, b, s)
  PROVE  Pips(p \o b) = Pips(p) \cup StepsOf(b)
  <1> DEFINE q == p \o b
             P == Len(p)
             B == Len(b)
  <1>1. /\ p \in Seq(Node) /\ b \in Seq(Node) /\ P \in Nat /\ B \in Nat /\ B >= 2
        /\ Len(q) = P + B
        /\ \A i \in 1..P : q[i] = p[i]
        /\ \A i \in 1..B : q[P + i] = b[i]
        /\ P > 0 => IsSink(p[P])
    BY AppendedAt
  <1>2. \A i \in 1..(B - 1) : ~IsSink(b[i])
    BY DEF Leaves
  <1> HIDE DEF q
  <1>3. ASSUME NEW e \in Pips(q)
        PROVE  e \in Pips(p) \cup StepsOf(b)
    <2>1. PICK i \in 1..(Len(q) - 1) : ~IsSink(q[i]) /\ e = <<q[i], q[i + 1]>>
      BY DEF Pips
    <2>2. CASE i < P
      <3>1. i \in 1..(P - 1) /\ i \in 1..P /\ i + 1 \in 1..P
        BY <1>1, <2>1, <2>2
      <3>2. q[i] = p[i] /\ q[i + 1] = p[i + 1]
        BY <1>1, <3>1
      <3>3. QED
        BY <2>1, <3>1, <3>2 DEF Pips
    <2>3. CASE i = P
      <3>1. i \in 1..P /\ P > 0
        BY <1>1, <2>1, <2>3
      <3>2. QED
        BY <1>1, <2>1, <2>3, <3>1
    <2>4. CASE i > P
      <3>1. /\ i - P \in 1..(B - 1) /\ i - P \in 1..B /\ (i - P) + 1 \in 1..B
            /\ P + (i - P) = i /\ P + ((i - P) + 1) = i + 1
        BY <1>1, <2>1, <2>4
      <3>2. q[P + (i - P)] = b[i - P] /\ q[P + ((i - P) + 1)] = b[(i - P) + 1]
        <4> DEFINE k == i - P
                   l == (i - P) + 1
        <4>1. k \in 1..B /\ l \in 1..B
          BY <3>1
        <4> HIDE DEF k, l
        <4>2. q[P + k] = b[k] /\ q[P + l] = b[l]
          BY <1>1, <4>1
        <4>3. QED
          BY <4>2 DEF k, l
      <3>3. QED
        BY <2>1, <3>1, <3>2 DEF StepsOf
    <2>5. QED
      BY <1>1, <2>1, <2>2, <2>3, <2>4
  <1>4. ASSUME NEW e \in Pips(p)
        PROVE  e \in Pips(q)
    <2>1. PICK i \in 1..(P - 1) : ~IsSink(p[i]) /\ e = <<p[i], p[i + 1]>>
      BY DEF Pips
    <2>2. i \in 1..P /\ i + 1 \in 1..P /\ i \in 1..(Len(q) - 1)
      BY <1>1
    <2>3. q[i] = p[i] /\ q[i + 1] = p[i + 1]
      BY <1>1, <2>2
    <2>4. QED
      BY <2>1, <2>2, <2>3 DEF Pips
  <1>5. ASSUME NEW e \in StepsOf(b)
        PROVE  e \in Pips(q)
    <2>1. PICK k \in 1..(B - 1) : e = <<b[k], b[k + 1]>>
      BY DEF StepsOf
    <2>2. k \in 1..B /\ k + 1 \in 1..B /\ P + k \in 1..(Len(q) - 1) /\ P + (k + 1) = (P + k) + 1
      BY <1>1
    <2>3. q[P + k] = b[k] /\ q[(P + k) + 1] = b[k + 1]
      BY <1>1, <2>2
    <2>4. QED
      BY <1>2, <2>1, <2>2, <2>3 DEF Pips
  <1>6. QED
    BY <1>3, <1>4, <1>5 DEF q

(* A list that takes up no node twice is a route.                          *)
LEMMA OnceIsRoute ==
  ASSUME NEW n \in Net, path[n] # <<>>, IsWalk(path[n], nets[n].src), ~Rejoined(n)
  PROVE  IsRoute(path[n], nets[n].src)
  <1> DEFINE p == path[n]
  <1>1. IsWalk(p, nets[n].src) /\ p \in Seq(Node)
    BY DEF IsWalk, NonEmpty
  <1>2. ASSUME NEW i \in Fresh(p), NEW j \in Fresh(p), p[i] = p[j]
        PROVE  i = j
    <2>1. i \in DOMAIN p
      BY <1>1 DEF Fresh
    <2> DEFINE x == p[i]
               V == PlacesIn(p, x)
    <2>2. x \in ElemsOf(p) /\ x \in Node
      BY <1>1, <2>1 DEF ElemsOf
    <2>3. i \in V /\ j \in V
      BY <1>2 DEF PlacesIn
    <2>4. IsFiniteSet(V) /\ Cardinality(V) \in Nat
      BY <1>1, PlacesFinite
    <2>5. ~(VisitCounts(p)[x] > 1)
      BY <2>2 DEF Rejoined, Rejoins
    <2>6. VisitCounts(p)[x] = Cardinality(V)
      BY <1>1, <2>2, PlacesVisited
    <2>7. Cardinality(V) <= 1
      BY <2>4, <2>5, <2>6
    <2> HIDE DEF V
    <2>8. QED
      BY <2>3, <2>4, <2>7, AtMostOne
  <1>3. QED
    BY <1>1, <1>2 DEF IsRoute

(* Tree T is that of list p, with the delays of its pips. *)
TreeIs(T, p, s) ==
    /\ Exact(T, s)
    /\ EdgesOf(T) = Pips(p)
    /\ OwnersOf(T) = {s} \cup ElemsOf(p)

(* The root alone is the tree of no list.                                  *)
LEMMA RootIs ==
  ASSUME Electric, NEW s \in Node, ~IsSink(s)
  PROVE  TreeIs(RootTree(s), <<>>, s)
  <1> DEFINE r == [owner |-> s, parent |-> 0, cdown |-> 0, rup |-> 0, delay |-> 0, open |-> TRUE]
  <1>1. PICK T : T = RootTree(s)
    OBVIOUS
  <1>2. r.owner = s /\ r.parent = 0 /\ r.cdown = 0 /\ r.delay = 0
    OBVIOUS
  <1>3. T = <<r>>
    BY <1>1 DEF RootTree
  <1> HIDE DEF r
  <1>4. Len(T) = 1 /\ T[1] = r /\ 1..Len(T) = {1} /\ 2..Len(T) = {}
    BY <1>3
  <1>5. Grows(T)
    BY <1>1, RootGrows
  <1>6. Shaped(T, s)
    BY <1>2, <1>4, <1>5 DEF Shaped, OnceEach, RootedAt
  <1>7. Kids(T, 1) = {}
    BY <1>2, <1>4 DEF Kids
  <1>8. Weighed(T)
    <2>1. OwnLoad(T, 1) = 0 /\ Total(Downs(T), Kids(T, 1)) = 0
      BY <1>2, <1>4, <1>7, TotalEmpty DEF OwnLoad
    <2>2. QED
      BY <1>2, <1>4, <2>1 DEF Weighed
  <1>9. HalfRC(rrg, T[1]) = 0
    <2>1. rrg.res[s] \in Nat
      BY DEF Electric
    <2>2. (0 * rrg.res[s]) \div 2 = 0
      BY <2>1
    <2>3. QED
      BY <1>2, <1>4, <2>2 DEF HalfRC
  <1>10. Delayed(T)
    BY <1>2, <1>4, <1>9 DEF Delayed, DelayAt
  <1>11. EdgesOf(T) = {} /\ OwnersOf(T) = {s}
    BY <1>2, <1>4 DEF EdgesOf, OwnersOf
  <1>12. Pips(<<>>) = {} /\ ElemsOf(<<>>) = {}
    BY DEF Pips, ElemsOf
  <1>13. QED
    BY <1>1, <1>6, <1>8, <1>10, <1>11, <1>12 DEF TreeIs, Exact

(* The tree of a route without its last branch becomes that of the route.  *)
LEMMA BranchIs ==
  ASSUME Electric, NEW s \in Node, NEW p, p = <<>> \/ IsWalk(p, s), NEW b, Leaves(p, b, s),
         Along(b), NEW T, \E i \in DOMAIN T : T[i].owner = b[1],
         (p = <<>> \/ IsRoute(p, s)) => TreeIs(T, p, s), IsRoute(p \o b, s),
         NEW U, U = UpdateRouteTree(rrg, T, b)
  PROVE  TreeIs(U, p \o b, s)
  <1>1. p = <<>> \/ IsRoute(p, s)
    BY RouteBefore
  <1>2. /\ Exact(T, s) /\ EdgesOf(T) = Pips(p)
        /\ OwnersOf(T) = {s} \cup ElemsOf(p) /\ NewTo(T, b)
    BY <1>1, RouteBefore DEF TreeIs
  <1>3. /\ Exact(U, s)
        /\ EdgesOf(U) = EdgesOf(T) \cup StepsOf(b)
        /\ OwnersOf(U) = OwnersOf(T) \cup ElemsOf(b)
    BY <1>2, BranchIsExact
  <1>4. Pips(p \o b) = Pips(p) \cup StepsOf(b)
    BY PipsAppended
  <1>5. p \in Seq(Node) /\ b \in Seq(Node)
    BY AppendedAt
  <1>6. ElemsOf(p \o b) = ElemsOf(p) \cup ElemsOf(b)
    BY <1>5, ElemsAppended
  <1>7. QED
    BY <1>2, <1>3, <1>4, <1>6 DEF TreeIs

-----------------------------------------------------------------------------
(* Every sink of a net has a pin of its own. *)
PinsApart ==
    \A m, n \in Net : \A x \in Sinks(m), y \in Sinks(n) :
        nets[m].pinOf[x] = nets[n].pinOf[y] => m = n /\ x = y

(* While a net is routed, its tree is that of its list. *)
TreeFits ==
    pc = "search" =>
        LET p == path[Cur]
            s == nets[Cur].src
        IN  (p = <<>> \/ IsRoute(p, s)) => TreeIs(tree, p, s)

(* The delays d of the sinks of net n are those of list p. *)
DelaysOf(n, p, d) ==
    \A x \in Sinks(n) :
        Lookup(d, nets[n].pinOf[x]) = ElmoreDelay(rrg, Pips(p), nets[n].src)[x]

DelaysFit ==
    \A n \in Net :
        Finished(n) /\ IsRoute(path[n], nets[n].src) => DelaysOf(n, path[n], delayOf)

(* The strengthening of TreeDelayIsElmore. *)
DelayInv == PinsApart /\ TreeFits /\ DelaysFit

(* What the inputs say of trees and delays stays.                          *)
LEMMA DelaysStay ==
  ASSUME UNCHANGED inputs
  PROVE  /\ nets' = nets /\ rrg' = rrg
         /\ PinsApart => PinsApart'
         /\ \A p, s : IsRoute(p, s)' <=> IsRoute(p, s)
         /\ \A T, p, s : TreeIs(T, p, s)' <=> TreeIs(T, p, s)
         /\ \A n, p, d : DelaysOf(n, p, d)' <=> DelaysOf(n, p, d)
  <1>1. /\ nets' = nets /\ rrg' = rrg /\ (\A x : IsSink(x)' <=> IsSink(x))
        /\ \A p, s : IsRoute(p, s)' <=> IsRoute(p, s)
    BY RouteKept
  <1>2. \A n : Sinks(n)' = Sinks(n)
    BY ShapesStay
  <1>3. PinsApart => PinsApart'
    BY <1>1, <1>2 DEF PinsApart
  <1>4. \A p : Pips(p)' = Pips(p)
    BY <1>1 DEF Pips
  <1>5. \A T, s : Shaped(T, s)' <=> Shaped(T, s)
    <2>1. \A T : Grows(T)' <=> Grows(T)
      BY ShapesStay
    <2>2. QED
      BY <2>1 DEF Shaped, OnceEach, RootedAt
  <1>6. ASSUME NEW T
        PROVE  (Weighed(T)' <=> Weighed(T)) /\ (Delayed(T)' <=> Delayed(T))
    <2>1. \A i : SwitchTo(rrg', T, i) = SwitchTo(rrg, T, i)
      BY <1>1
    <2>2. \A i : Kids(T, i)' = Kids(T, i) /\ OwnLoad(T, i)' = OwnLoad(T, i)
      BY <1>1 DEF Kids, OwnLoad
    <2>3. \A i : DelayAt(T, i)' = DelayAt(T, i)
      BY <1>1 DEF DelayAt
    <2>4. Downs(T)' = Downs(T)
      BY DEF Downs
    <2>5. QED
      BY <2>2, <2>3, <2>4 DEF Weighed, Delayed
  <1>7. \A T, p, s : TreeIs(T, p, s)' <=> TreeIs(T, p, s)
    BY <1>4, <1>5, <1>6 DEF TreeIs, Exact, EdgesOf, OwnersOf
  <1>8. \A n, p, d : DelaysOf(n, p, d)' <=> DelaysOf(n, p, d)
    BY <1>1, <1>2, <1>4 DEF DelaysOf
  <1>9. QED
    BY <1>1, <1>3, <1>7, <1>8

(* A step that routes nothing keeps trees and delays.                      *)
LEMMA DelaysAlone ==
  ASSUME DelayInv, UNCHANGED inputs, tree' = tree, path' = path, delayOf' = delayOf,
         pc' = "search" => pc = "search" /\ Cur' = Cur,
         \A n \in Net : Finished(n)' => Finished(n)
  PROVE  DelayInv'
  <1>1. PICK T, P, d, c : T = tree /\ P = path /\ d = delayOf /\ c = Cur
    OBVIOUS
  <1>2. T = tree' /\ P = path' /\ d = delayOf'
    BY <1>1
  <1>3. TreeFits'
    <2> SUFFICES ASSUME pc' = "search"
                 PROVE  (P[c] = <<>> \/ IsRoute(P[c], nets[c].src)') =>
                          TreeIs(T, P[c], nets[c].src)'
      BY <1>1, <1>2 DEF TreeFits
    <2>1. (P[c] = <<>> \/ IsRoute(P[c], nets[c].src)) => TreeIs(T, P[c], nets[c].src)
      BY <1>1 DEF DelayInv, TreeFits
    <2>2. QED
      BY <2>1, DelaysStay
  <1>4. DelaysFit'
    <2> SUFFICES ASSUME NEW n \in Net, Finished(n)', IsRoute(P[n], nets[n].src)'
                 PROVE  DelaysOf(n, P[n], d)'
      BY <1>2 DEF DelaysFit
    <2>1. IsRoute(P[n], nets[n].src)
      BY DelaysStay
    <2>2. DelaysOf(n, P[n], d)
      BY <1>1, <2>1 DEF DelayInv, DelaysFit
    <2>3. QED
      BY <2>2, DelaysStay
  <1>5. QED
    BY <1>3, <1>4, DelaysStay DEF DelayInv

(* What is said of a net that the step leaves alone.                       *)
LEMMA OthersFit ==
  ASSUME DelaysFit, UNCHANGED inputs, delayOf' = delayOf,
         \A n \in Net : Finished(n)' => Finished(n) /\ path'[n] = path[n]
  PROVE  DelaysFit'
  <1> SUFFICES ASSUME NEW n \in Net, Finished(n)', IsRoute(path[n], nets[n].src)'
               PROVE  DelaysOf(n, path[n], delayOf)'
    BY DEF DelaysFit
  <1>1. PICK p, d : p = path[n] /\ d = delayOf /\ p = path'[n] /\ d = delayOf'
    OBVIOUS
  <1>2. IsRoute(p, nets[n].src)'
    BY <1>1
  <1>3. DelaysOf(n, p, d)
    BY <1>1, <1>2, DelaysStay DEF DelaysFit
  <1>4. DelaysOf(n, p, d)'
    BY <1>3, DelaysStay
  <1>5. QED
    BY <1>1, <1>4

(* The tree fits after a step that gives the net in hand list p and tree T. *)
LEMMA TreeMade ==
  ASSUME UNCHANGED inputs, Cur' = Cur, NEW T, T = tree', NEW p, p = path'[Cur],
         NEW s, s = nets[Cur].src, (p = <<>> \/ IsRoute(p, s)) => TreeIs(T, p, s)
  PROVE  TreeFits'
  <1>1. nets' = nets
    BY DelaysStay
  <1>2. (p = <<>> \/ IsRoute(p, s)') => TreeIs(T, p, s)'
    BY DelaysStay
  <1>3. p = path'[Cur'] /\ s = nets'[Cur'].src
    BY <1>1
  <1>4. QED
    BY <1>2, <1>3 DEF TreeFits

(* A net begins with the root, and the others are finished or not as they  *)
(* were.                                                                   *)
LEMMA BeginFits ==
  ASSUME TDInv, DelayInv, TDBegin
  PROVE  DelayInv'
  <1>1. /\ pc = "net" /\ idx <= Len(NetSeq) /\ ~IsIgnored(Cur)
        /\ path' = [path EXCEPT ![Cur] = <<>>]
        /\ tree' = RootTree(nets[Cur].src)
        /\ UNCHANGED <<inputs, idx, delayOf>> /\ Cur' = Cur
    BY DEF TDBegin, engine, tvars, Cur
  <1>2. spc = "idle"
    BY <1>1 DEF TDInv, TDPhases
  <1>3. Cur \in Net
    BY <1>1, CurIsNet DEF TDInv
  <1>4. nets[Cur].src \in Node /\ ~IsSink(nets[Cur].src)
    BY <1>1, <1>3, NetlistAssumption DEF TDInv, TDGiven, Given, Posed, WellPosed
  <1>5. /\ path \in [Net -> Seq(Node)] /\ path'[Cur] = <<>>
        /\ \A n \in Net : n # Cur => path'[n] = path[n]
    BY <1>1, <1>3 DEF TDInv, TDLists
  <1>6. TreeFits'
    <2>1. PICK T, p, s : T = tree' /\ p = path'[Cur] /\ s = nets[Cur].src
      OBVIOUS
    <2>2. TreeIs(T, p, s)
      BY <1>1, <1>4, <1>5, <2>1, RootIs DEF TDInv, TDGiven
    <2>3. QED
      BY <1>1, <2>1, <2>2, TreeMade
  <1>7. DelaysFit'
    <2>1. \A n \in Net : Finished(n)' => Finished(n) /\ path'[n] = path[n]
      BY <1>2, <1>5 DEF Finished
    <2>2. QED
      BY <1>1, <2>1, OthersFit DEF DelayInv
  <1>8. QED
    BY <1>1, <1>6, <1>7, DelaysStay DEF DelayInv

(* The branch to a sink goes into list and tree.                           *)
LEMMA ReachSinkFits ==
  ASSUME TDInv, DelayInv, TDReachSink
  PROVE  DelayInv'
  <1>1. PICK e, b, q : TDReached(e, b, q)
    BY TDReachSinkDoes
  <1> DEFINE p == path[Cur]
             s == nets[Cur].src
  <1>2. /\ spc = "pop" /\ spc' = "sink"
        /\ UNCHANGED <<inputs, pc, idx, delayOf>> /\ Cur' = Cur
    BY DEF TDReachSink, engine, tvars, loopVars, Cur
  <1>3. /\ Cur \in Net /\ s \in Node /\ pc = "search"
        /\ path \in [Net -> Seq(Node)]
        /\ p = <<>> \/ IsWalk(p, s)
    BY <1>2, TDSearching
  <1>4. /\ e \in heap /\ e.owner = Target
        /\ prev' = [prev EXCEPT ![e.owner] = e.prev] /\ b = BranchTo(e.owner, prev')
        /\ q = p \o b /\ path' = [path EXCEPT ![Cur] = q]
        /\ tree' = UpdateRouteTree(rrg, tree, b)
    BY <1>1 DEF TDReached
  <1>5. Leaves(p, b, s) /\ Along(b) /\ \E i \in DOMAIN tree : tree[i].owner = b[1]
    <2>1. PICK pv : pv = prev'
      OBVIOUS
    <2>2. pv = [prev EXCEPT ![e.owner] = e.prev] /\ b = BranchTo(e.owner, pv)
      BY <1>4, <2>1
    <2>3. QED
      BY <1>2, <1>4, <2>2, TDBranchLeaves
  <1>6. (p = <<>> \/ IsRoute(p, s)) => TreeIs(tree, p, s)
    BY <1>3 DEF DelayInv, TreeFits
  <1> HIDE DEF p, s
  <1>7. q \in Seq(Node)
    <2>1. p \in Seq(Node) /\ b \in Seq(Node)
      BY <1>3, <1>5, AppendedAt
    <2>2. p \o b \in Seq(Node)
      BY <2>1
    <2>3. QED
      BY <1>4, <2>2
  <1>8. path'[Cur] = q /\ \A n \in Net : n # Cur => path'[n] = path[n]
    BY <1>3, <1>4
  <1>9. TreeFits'
    <2>1. PICK U, T : U = tree' /\ T = tree
      OBVIOUS
    <2>2. q # <<>>
      <3>1. p \o b \in NonEmpty
        BY <1>3, <1>5, AppendedAt
      <3>2. QED
        BY <1>4, <3>1 DEF NonEmpty
    <2>3. ASSUME IsRoute(q, s)
          PROVE  TreeIs(U, q, s)
      <3>1. U = UpdateRouteTree(rrg, T, b)
        BY <1>4, <2>1
      <3>2. Electric /\ IsRoute(p \o b, s) /\ (\E i \in DOMAIN T : T[i].owner = b[1])
        BY <1>4, <1>5, <2>1, <2>3 DEF TDInv, TDGiven
      <3>3. (p = <<>> \/ IsRoute(p, s)) => TreeIs(T, p, s)
        BY <1>6, <2>1
      <3>4. TreeIs(U, p \o b, s)
        BY <1>3, <1>5, <3>1, <3>2, <3>3, BranchIs
      <3>5. QED
        BY <1>4, <3>4
    <2>4. QED
      BY <1>2, <1>8, <2>1, <2>2, <2>3, TreeMade DEF s
  <1>10. DelaysFit'
    <2>1. \A n \in Net : Finished(n)' => Finished(n) /\ path'[n] = path[n]
      BY <1>2, <1>8 DEF Finished
    <2>2. QED
      BY <1>2, <2>1, OthersFit DEF DelayInv
  <1>11. QED
    BY <1>2, <1>9, <1>10, DelaysStay DEF DelayInv

(* The tree of a net gives its sinks the delays of its route.              *)
LEMMA TreeDelaysFit ==
  ASSUME Electric, PinsApart, Cur \in Net, ElemsOf(order) = Sinks(Cur),
         Sinks(Cur) \subseteq ElemsOf(path[Cur]),
         TreeIs(tree, path[Cur], nets[Cur].src), NEW d, d = Over(TreeDelays, delayOf)
  PROVE  DelaysOf(Cur, path[Cur], d)
  <1> DEFINE T == tree
             s == nets[Cur].src
             E == Pips(path[Cur])
             c(p) == CHOOSE x \in ElemsOf(order) : nets[Cur].pinOf[x] = p
  <1>1. Exact(T, s) /\ EdgesOf(T) = E /\ Sinks(Cur) \subseteq OwnersOf(T)
    BY DEF TreeIs
  <1>2. \A i \in 1..Len(T) : ElmoreDelay(rrg, E, s)[T[i].owner] = T[i].delay
    <2>1. \A i \in 1..Len(T) : ElmoreDelay(rrg, EdgesOf(T), s)[T[i].owner] = T[i].delay
      BY <1>1, ElmoreOfTree DEF Exact
    <2>2. QED
      BY <1>1, <2>1
  <1>3. T \in Seq(TreeNodes) /\ DOMAIN T = 1..Len(T)
    BY <1>1 DEF Exact, Shaped, Grows
  <1> SUFFICES ASSUME NEW x \in Sinks(Cur)
               PROVE  Lookup(d, nets[Cur].pinOf[x]) = ElmoreDelay(rrg, E, s)[x]
    BY DEF DelaysOf
  <1>4. c(nets[Cur].pinOf[x]) = x
    <2>1. \A y \in ElemsOf(order) : nets[Cur].pinOf[y] = nets[Cur].pinOf[x] => y = x
      BY DEF PinsApart
    <2>2. QED
      BY <2>1
  <1>5. /\ nets[Cur].pinOf[x] \in DOMAIN TreeDelays
        /\ TreeDelays[nets[Cur].pinOf[x]] = T[TreeNodeOf(T, c(nets[Cur].pinOf[x]))].delay
    BY DEF TreeDelays
  <1> HIDE DEF c, T
  <1>6. Lookup(d, nets[Cur].pinOf[x]) = T[TreeNodeOf(T, x)].delay
    <2>1. /\ nets[Cur].pinOf[x] \in DOMAIN d
          /\ d[nets[Cur].pinOf[x]] = TreeDelays[nets[Cur].pinOf[x]]
      BY <1>5 DEF Over
    <2>2. QED
      BY <1>4, <1>5, <2>1 DEF Lookup
  <1>7. \E i \in DOMAIN T : T[i].owner = x
    BY <1>1, <1>3 DEF OwnersOf
  <1>8. TreeNodeOf(T, x) \in DOMAIN T /\ T[TreeNodeOf(T, x)].owner = x
    BY <1>3, <1>7, LatestNode
  <1>9. ElmoreDelay(rrg, E, s)[x] = T[TreeNodeOf(T, x)].delay
    BY <1>2, <1>3, <1>8
  <1>10. QED
    BY <1>6, <1>9

(* The delays of a net that is finished are those of its route, and the    *)
(* other nets keep theirs.                                                 *)
LEMMA FinishFits ==
  ASSUME TDInv, DelayInv, TDFinish
  PROVE  DelayInv'
  <1>1. /\ pc = "search" /\ spc = "sink" /\ sinkIdx > Len(order)
        /\ spc' = "idle" /\ pc' = "net"
        /\ delayOf' = Over(TreeDelays, delayOf)
        /\ UNCHANGED inputs /\ path' = path
    BY DEF TDFinish
  <1>2. /\ Cur \in Net /\ order \in Seq(Node) /\ Len(order) \in Nat
        /\ ElemsOf(order) = Sinks(Cur)
        /\ sinkIdx = Len(order) + 1
    BY <1>1, TDSearching
  <1>3. Sinks(Cur) \subseteq ElemsOf(path[Cur])
    <2>1. \A i \in 1..Len(order) : order[i] \in ElemsOf(path[Cur])
      BY <1>1, <1>2 DEF TDInv, Aims
    <2>2. DOMAIN order = 1..Len(order)
      BY <1>2
    <2>3. QED
      BY <1>2, <2>1, <2>2 DEF ElemsOf
  <1>4. TreeFits'
    BY <1>1 DEF TreeFits
  <1>5. PICK P, d, o, c : P = path /\ d = delayOf' /\ o = delayOf /\ c = Cur
    OBVIOUS
  <1>6. P = path' /\ c \in Net /\ d = Over(TreeDelays, o)
    BY <1>1, <1>2, <1>5
  <1>7. ASSUME NEW n \in Net, Finished(n)', IsRoute(P[n], nets[n].src)
        PROVE  DelaysOf(n, P[n], d)
    <2>1. CASE n = c
      <3>1. TreeIs(tree, path[Cur], nets[Cur].src)
        BY <1>1, <1>5, <1>7, <2>1 DEF DelayInv, TreeFits
      <3>2. DelaysOf(Cur, path[Cur], d)
        BY <1>1, <1>2, <1>3, <1>5, <3>1, TreeDelaysFit DEF DelayInv, TDInv, TDGiven
      <3>3. QED
        BY <1>5, <2>1, <3>2
    <2>2. CASE n # c
      <3>1. Finished(n)
        BY <1>1, <1>5, <1>7, <2>2 DEF Finished
      <3>2. DelaysOf(n, P[n], o)
        BY <1>5, <1>7, <3>1 DEF DelayInv, DelaysFit
      <3>3. ASSUME NEW x \in Sinks(n)
            PROVE  Lookup(d, nets[n].pinOf[x]) = Lookup(o, nets[n].pinOf[x])
        <4>1. \A y \in ElemsOf(order) : nets[Cur].pinOf[y] # nets[n].pinOf[x]
          BY <1>2, <1>5, <2>2 DEF DelayInv, PinsApart
        <4>2. nets[n].pinOf[x] \notin DOMAIN TreeDelays
          BY <4>1 DEF TreeDelays
        <4>3. QED
          BY <1>6, <4>2 DEF Lookup, Over
      <3>4. QED
        BY <3>2, <3>3 DEF DelaysOf
    <2>3. QED
      BY <2>1, <2>2
  <1>8. DelaysFit'
    <2> SUFFICES ASSUME NEW n \in Net, Finished(n)', IsRoute(P[n], nets[n].src)'
                 PROVE  DelaysOf(n, P[n], d)'
      BY <1>5, <1>6 DEF DelaysFit
    <2>1. DelaysOf(n, P[n], d)
      BY <1>1, <1>7, DelaysStay
    <2>2. QED
      BY <1>1, <2>1, DelaysStay
  <1>9. QED
    BY <1>1, <1>4, <1>8, DelaysStay DEF DelayInv

(* The other steps of the loop and of the search leave tree and delays.    *)
LEMMA OtherStepsFit ==
  ASSUME TDInv, DelayInv,
         \/ BuildGraph \/ FirstAnalysis \/ TDSkipNet \/ TDBeginSink \/ TDPopStale \/ TDPopExpand
         \/ TDFail \/ TDSucceed \/ TDNextIteration \/ TDReturned \/ UNCHANGED tdvars
  PROVE  DelayInv'
  <1>1. /\ UNCHANGED inputs /\ tree' = tree /\ path' = path
        /\ delayOf' = delayOf
    BY DEF BuildGraph, CreateTGraph, TopoVisit, TopoLeave, FirstAnalysis, TDSkipNet, SkipNet,
           TDBeginSink, TDPopStale, TDPopExpand, TDFail, TDSucceed, Succeed, TDNextIteration,
           TDReturned, tdvars, vars, svars, loopVars, searchVars, engine, tvars
  <1>2. pc = "net" => spc = "idle"
    BY DEF TDInv, TDPhases
  <1>3. /\ pc' = "search" => pc = "search" /\ Cur' = Cur
        /\ \/ spc' = "idle" /\ spc = "idle"
           \/ spc' # "idle" /\ spc # "idle" /\ Cur' = Cur
           \/ spc' = spc /\ Cur' = Cur
    BY <1>2
       DEF BuildGraph, FirstAnalysis, TDSkipNet, SkipNet,
           TDBeginSink, TDPopStale, TDPopExpand, TDFail, TDSucceed, Succeed, TDNextIteration,
           TDReturned, tdvars, vars, svars, loopVars, searchVars, Cur
  <1>4. \A n \in Net : Finished(n)' => Finished(n)
    BY <1>1, <1>3 DEF Finished
  <1>5. QED
    BY <1>1, <1>3, <1>4, DelaysAlone

(* Whatever the step: trees and delays stay right.                         *)
LEMMA DelayInvStep == TDInv /\ DelayInv /\ [TDNext]_tdvars => DelayInv'
  <1> SUFFICES ASSUME TDInv, DelayInv, [TDNext]_tdvars
               PROVE  DelayInv'
    OBVIOUS
  <1>1. QED
    BY BeginFits, ReachSinkFits, FinishFits, OtherStepsFit DEF TDNext

(* Pins belong to one sink.  The delays that a finished net hands to the   *)
(* timing engine are the Elmore delays of its whole route, although a      *)
(* branch only adds its load up to the nearest buffer and corrects the     *)
(* delays behind it.                                                       *)
THEOREM DelaysAreElmore ==
  TDSpec /\ Posed /\ Bare /\ Electric /\ Timable /\ PinsApart => []TreeDelayIsElmore
  <1>1. TDInit /\ PinsApart => DelayInv
    <2>1. TDInit => pc = "net" /\ path = [n \in Net |-> <<>>]
      BY DEF TDInit, Init, SearchInit
    <2>2. QED
      BY <2>1 DEF DelayInv, TreeFits, DelaysFit, Finished
  <1>2. TDInv /\ DelayInv => TreeDelayIsElmore
    <2> SUFFICES ASSUME TDInv, DelayInv, NEW n \in Net, Finished(n), ~Rejoined(n)
                 PROVE  DelaysOf(n, path[n], delayOf)
      BY DEF TreeDelayIsElmore, DelaysOf
    <2>1. path[n] # <<>> /\ IsWalk(path[n], nets[n].src)
      BY DEF Finished, TDInv, TDLists
    <2>2. IsRoute(path[n], nets[n].src)
      BY <2>1, OnceIsRoute
    <2>3. QED
      BY <2>2 DEF DelayInv, DelaysFit
  <1>3. TDSpec /\ Posed /\ Bare /\ Electric /\ Timable /\ PinsApart => []DelayInv
    <2>1. (TDInv /\ EngInv) /\ DelayInv /\ [TDNext]_tdvars => DelayInv'
      BY DelayInvStep
    <2>2. QED
      BY <1>1, <2>1, TDInvariance, PTL DEF TDSpec
  <1>4. QED
    BY <1>2, <1>3, TDInvariance, PTL
=============================================================================
