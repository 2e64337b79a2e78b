----------------------------- MODULE OneNet_proofs -----------------------------
(***************************************************************************)
(* What a search promises its caller, for every device, netlist and set of *)
(* options that the assumptions of OneNet admit.                           *)
(***************************************************************************)
EXTENDS OneNet, NetSearch_proofs

(* The costs of this module: no congestion.                                *)
FlatCosts ==
    /\ pres = [x \in Node |-> 2]
    /\ hist = [x \in Node |-> 2]
    /\ rrg.base \in [Node -> Nat]
    /\ rrg.fromPos \in [Node -> [x : Int, y : Int]]
    /\ rrg.toPos \in [Node -> [x : Int, y : Int]]

(* The inputs of OneNet are those of a search.                             *)
LEMMA InitInputs == Init => FlatCosts /\ InputsFit(TheNet)
  <1> SUFFICES ASSUME Init
               PROVE  FlatCosts /\ InputsFit(TheNet)
    OBVIOUS
  <1>1. PICK c \in Cases, d \in Devices :
          nets = c[1] /\ params = c[2] /\ rrg = Initialized(d, params.bcost)
    BY DEF Init
  <1>2. /\ rrg.switches = d.switches /\ rrg.fromPos = d.fromPos /\ rrg.toPos = d.toPos
        /\ rrg.base = Initialized(d, c[2].bcost).base
    BY <1>1 DEF Initialized
  <1>3. FlatCosts
    BY <1>2, DeviceAssumption DEF Init, SearchInit, FlatCosts
  <1>4. \A x \in Node : CongCost(x) \in Nat
    BY <1>3 DEF FlatCosts, CongCost
  <1>5. \A u, v \in Node : Distance(u, v) \in Nat
    BY <1>3, DistanceNat DEF FlatCosts, Located
  <1>6. rrg.switches \in [Node -> SUBSET Node]
    BY <1>2, DeviceAssumption
  <1>7. /\ nets[TheNet].src \in Node /\ nets[TheNet].sinks \in Seq(Node)
        /\ nets[TheNet].fixed \in Seq(Node) /\ params.astar \in Nat /\ TheNet \in Net
    BY <1>1, NetAssumption
  <1>8. InputsFit(TheNet)
    BY <1>4, <1>5, <1>6, <1>7 DEF InputsFit
  <1>9. QED
    BY <1>3, <1>8

(* The nodes and nets as initialize() leaves them are a clean slate.       *)
LEMMA InitSearchInv == Init => SearchInv(TheNet)
  <1> SUFFICES ASSUME Init
               PROVE  SearchInv(TheNet)
    OBVIOUS
  <1>1. Len(nets[TheNet].sinks) \in Nat
    BY InitInputs DEF InputsFit
  <1>2. Types(TheNet)
    <2>1. \A x \in Node : 0 \in Int /\ Huge \in Int
      BY HugeAssumption
    <2>2. path \in [Net -> Seq(Node)]
      BY DEF Init, SearchInit
    <2>3. QED
      BY <1>1, <2>1, <2>2 DEF Init, SearchInit, Types, Marks
  <1>3. Slate(TheNet)
    BY HugeAssumption DEF Init, SearchInit, Slate
  <1>4. Flags(TheNet)
    BY DEF Init, SearchInit, Flags
  <1>5. QED
    BY <1>2, <1>3, <1>4 DEF SearchInv

(* A step is a step of the search with the same inputs, or none.           *)
LEMMA StepCases ==
  ASSUME [Next]_svars
  PROVE  \/ Kept /\ (BeginNet(TheNet, occ) \/ SearchStep(TheNet))
         \/ UNCHANGED svars
  BY DEF Next, Returned, Kept

(* What holds whenever a search is under way.                              *)
Inv == FlatCosts /\ InputsFit(TheNet) /\ SearchInv(TheNet)

(* The invariant holds at the start.                                       *)
LEMMA InvInit == Init => Inv
  BY InitInputs, InitSearchInv DEF Inv

(* Every step of the search keeps it.                                      *)
LEMMA InvStep == Inv /\ [Next]_svars => Inv'
  <1> SUFFICES ASSUME Inv, [Next]_svars
               PROVE  Inv'
    OBVIOUS
  <1>1. CASE Kept /\ (BeginNet(TheNet, occ) \/ SearchStep(TheNet))
    <2>1. FlatCosts'
      BY <1>1 DEF Inv, FlatCosts, Kept, inputs
    <2>2. InputsFit(TheNet)'
      BY <1>1, InputsKept DEF Inv
    <2>3. SearchInv(TheNet)'
      <3>1. CASE BeginNet(TheNet, occ)
        <4>1. SearchInv(TheNet) /\ spc = "idle"
          BY <3>1 DEF Inv, BeginNet
        <4>2. Resting
          BY <4>1, IdleRests
        <4>3. UNCHANGED inputs
          BY <1>1 DEF Kept
        <4>4. QED
          BY <3>1, <4>2, <4>3, BeginNetKeeps DEF Inv
      <3>2. CASE SearchStep(TheNet)
        BY <1>1, <3>2, SearchStepKeeps DEF Inv
      <3>3. QED
        BY <1>1, <3>1, <3>2
    <2>4. QED
      BY <2>1, <2>2, <2>3 DEF Inv
  <1>2. CASE UNCHANGED svars
    <2>1. FlatCosts' /\ InputsFit(TheNet)'
      BY <1>2, InputsKept DEF Inv, FlatCosts, svars, inputs, Kept
    <2>2. SearchInv(TheNet)'
      BY <1>2, StutterKeeps DEF Inv
    <2>3. QED
      BY <2>1, <2>2 DEF Inv
  <1>3. QED
    BY <1>1, <1>2, StepCases

(* It holds throughout the search of a net.                                *)
THEOREM Invariance == Spec => []Inv
  BY InvInit, InvStep, PTL DEF Spec

(* Every search starts from a clean slate and a routed net leaves one: of  *)
(* what reset_modify_nodes, reset_is_path_nodes and the flags have to take *)
(* back, nothing stays behind.                                             *)
THEOREM SlateIsClean == Spec => []CleanSlate
  <1>1. Inv => CleanSlate
    <2> SUFFICES ASSUME Inv
                 PROVE  CleanSlate
      OBVIOUS
    <2>1. \A x \in Node : pathCost[x] \in Int /\ pathCost[x] <= Huge
                           /\ (x \in mdf <=> pathCost[x] < Huge)
      BY DEF Inv, SearchInv, Types, Marks, Slate
    <2>2. mdf = {} => \A x \in Node : pathCost[x] = Huge
      BY <2>1, HugeAssumption
    <2>3. QED
      BY <2>2 DEF Inv, SearchInv, Slate, Flags, CleanSlate
  <1>2. QED
    BY <1>1, Invariance, PTL
-----------------------------------------------------------------------------
(* What holds whenever a net that fits its device is searched for.         *)
RouteInv == Inv /\ WellPosed(TheNet) /\ TreeInv(TheNet)

(* A net that is still to be searched for has no route yet.                *)
LEMMA RouteInvInit == Init /\ WellPosed(TheNet) => RouteInv
  <1> SUFFICES ASSUME Init, WellPosed(TheNet)
               PROVE  RouteInv
    OBVIOUS
  <1>1. TreeInv(TheNet)
    BY DEF Init, SearchInit, TreeInv, Forest, RouteSoFar, RouteDone
  <1>2. QED
    BY <1>1, InvInit DEF RouteInv

(* Every step of the search keeps its forest and the route so far.         *)
LEMMA RouteInvStep == RouteInv /\ [Next]_svars => RouteInv'
  <1> SUFFICES ASSUME RouteInv, [Next]_svars
               PROVE  RouteInv'
    OBVIOUS
  <1>1. Inv'
    BY InvStep DEF RouteInv
  <1>2. Kept
    BY StepCases DEF Kept, svars, inputs
  <1>3. WellPosed(TheNet)'
    BY <1>2, WellPosedKept DEF RouteInv, Kept
  <1>4. TreeInv(TheNet)'
    <2>1. CASE BeginNet(TheNet, occ) \/ SearchStep(TheNet)
      <3>1. CASE BeginNet(TheNet, occ)
        <4>1. SearchInv(TheNet) /\ spc = "idle"
          BY <3>1 DEF RouteInv, Inv, BeginNet
        <4>2. Resting
          BY <4>1, IdleRests
        <4>3. UNCHANGED inputs
          BY <1>2 DEF Kept
        <4>4. QED
          BY <3>1, <4>2, <4>3, BeginNetGrows DEF RouteInv, Inv
      <3>2. CASE SearchStep(TheNet)
        BY <1>2, <3>2, SearchStepGrows DEF RouteInv, Inv
      <3>3. QED
        BY <2>1, <3>1, <3>2
    <2>2. CASE UNCHANGED svars
      BY <2>2, StutterKeeps DEF RouteInv
    <2>3. QED
      BY <2>1, <2>2, StepCases
  <1>5. QED
    BY <1>1, <1>3, <1>4 DEF RouteInv

(* A list built branch by branch is what save_path and the counting of     *)
(* occupancy take it for.                                                  *)
LEMMA RouteInvTree == RouteInv => RouteIsTree
  <1> SUFFICES ASSUME RouteInv, spc = "routed"
               PROVE  /\ PipsExist(TheNet) /\ IsTree(TheNet) /\ SinksConnected(TheNet)
                      /\ CountedOnce(TheNet)
    BY DEF RouteIsTree
  <1> DEFINE p == path[TheNet]
             s == nets[TheNet].src
  <1>1. IsRoute(p, s) /\ ElemsOf(nets[TheNet].sinks) \subseteq ElemsOf(p)
    BY DEF RouteInv, TreeInv, RouteDone
  <1>2. PipsExist(TheNet) <=> Pips(p) \subseteq Switches
    BY DEF PipsExist
  <1>3. IsTree(TheNet) <=> /\ ElemsOf(p) = ReachedBy(Pips(p), s)
                           /\ Cardinality(Pips(p)) = Cardinality(ElemsOf(p)) - 1
    BY DEF IsTree
  <1>4. SinksConnected(TheNet) <=> ElemsOf(nets[TheNet].sinks) \subseteq ReachedBy(Pips(p), s)
    BY DEF SinksConnected
  <1>5. CountedOnce(TheNet) <=> \A x \in ElemsOf(p) : VisitCounts(p)[x] = 1
    BY DEF CountedOnce
  <1> HIDE DEF p, s
  <1>6. /\ Cardinality(Pips(p)) = Cardinality(ElemsOf(p)) - 1
        /\ Pips(p) \in SUBSET (ElemsOf(p) \X ElemsOf(p))
        /\ \A e \in Pips(p) : e[2] \in rrg.switches[e[1]]
    BY <1>1, RoutePips
  <1>7. ReachedBy(Pips(p), s) = ElemsOf(p)
    BY <1>1, RouteReached
  <1>8. ElemsOf(p) \subseteq Node
    BY <1>1, ElemsFit DEF IsRoute, IsWalk, NonEmpty
  <1>9. Pips(p) \subseteq Switches
    BY <1>6, <1>8 DEF Switches
  <1>10. \A x \in ElemsOf(p) : VisitCounts(p)[x] = 1
    BY <1>1, RouteCounted
  <1>11. QED
    BY <1>1, <1>2, <1>3, <1>4, <1>5, <1>6, <1>7, <1>9, <1>10

(* The route of a net that fits its device is a tree of existing switches  *)
(* from the source to every sink, each node of which is counted once.      *)
THEOREM RouteTree == Spec /\ WellPosed(TheNet) => []RouteIsTree
  BY RouteInvInit, RouteInvStep, RouteInvTree, PTL DEF Spec
-----------------------------------------------------------------------------
(* The nodes next to y that the net's box lets through. *)
Onward(y) == InBox(TheNet, rrg.switches[y])

(* The paths of P and those that are one switch longer. *)
Longer(P) ==
    P \cup UNION {{<<y, e[2] + CongCost(y)>> : y \in InBox(TheNet, Node) \cap rrg.switches[e[1]]}
                    : e \in P}

(* w[k] holds the paths of at most k switches. *)
IsWalks(w) ==
    /\ w \in [0..(Cardinality(Node) - 1) -> SUBSET (Node \X Nat)]
    /\ w[0] = {<<nets[TheNet].src, CongCost(nets[TheNet].src)>>}
    /\ \A k \in 1..(Cardinality(Node) - 1) : w[k] = Longer(w[k - 1])
    /\ PathCosts = w[Cardinality(Node) - 1]

(* There are such paths, for every number of switches below that of nodes. *)
LEMMA WalksExist ==
  ASSUME InputsFit(TheNet)
  PROVE  Cardinality(Node) - 1 \in Nat /\ \E w : IsWalks(w)
  <1> DEFINE N      == Cardinality(Node) - 1
             D      == SUBSET (Node \X Nat)
             Up(P)  == Longer(P)
             G      == [k \in Nat |-> [P \in D |-> Up(P)]]
             a      == {<<nets[TheNet].src, CongCost(nets[TheNet].src)>>}
             Def(h) == h = [k \in 0..N |-> IF k = 0 THEN a ELSE Up(h[k - 1])]
             h      == CHOOSE g : Def(g)
  <1>1. N \in Nat
    <2>1. Cardinality(Node) \in Nat
      BY NodeAssumption, FS_CardinalityType
    <2>2. Cardinality(Node) # 0
      BY NodeAssumption, FS_EmptySet DEF InputsFit
    <2>3. QED
      BY <2>1, <2>2
  <1>2. \A P \in D : Up(P) \in D
    <2> SUFFICES ASSUME NEW P \in D, NEW q \in Up(P)
                 PROVE  q \in Node \X Nat
      OBVIOUS
    <2>1. CASE q \in P
      BY <2>1
    <2>2. CASE q \notin P
      <3>1. PICK e \in P, y \in InBox(TheNet, Node) : q = <<y, e[2] + CongCost(y)>>
        BY <2>2 DEF Longer
      <3>2. y \in Node /\ e[2] \in Nat
        BY <3>1 DEF InBox
      <3>3. CongCost(y) \in Nat
        BY <3>2 DEF InputsFit
      <3>4. QED
        BY <3>1, <3>2, <3>3
    <2>3. QED
      BY <2>1, <2>2
  <1>3. a \in D
    BY DEF InputsFit
  <1>4. PathCosts = h[N]
    BY DEF PathCosts, Longer
  <1> HIDE DEF Up, a, N, D
  <1>5. G \in [Nat -> [D -> D]]
    BY <1>2
  <1>6. \E f : Iterates(f, D, a, G, N)
    <2> HIDE DEF G, Def, h
    <2> QED
      BY <1>5, <1>3, <1>1, IterateExists
  <1>7. PICK f \in [0..N -> D] : f[0] = a /\ \A k \in 1..N : f[k] = Up(f[k - 1])
    <2>1. \A k \in 1..N : k \in Nat /\ k - 1 \in 0..N
      BY <1>1
    <2>2. QED
      BY <1>6, <2>1 DEF Iterates
  <1>8. Def(f)
    <2>1. f = [k \in 0..N |-> f[k]]
      OBVIOUS
    <2>2. \A k \in 0..N : f[k] = (IF k = 0 THEN a ELSE Up(f[k - 1]))
      BY <1>7, <1>1
    <2>3. QED
      BY <2>1, <2>2
  <1>9. Def(h)
    <2> HIDE DEF Def
    <2> QED
      BY <1>8
  <1> HIDE DEF h
  <1>10. h[0] = a /\ \A k \in 1..N : h[k] = Up(h[k - 1])
    BY <1>9, <1>1
  <1>11. \A k \in 0..N : h[k] \in D
    <2> DEFINE S == {k \in 0..N : h[k] \in D}
    <2>1. 0 \in S
      BY <1>10, <1>1, <1>3
    <2>2. \A k \in 1..N : k - 1 \in S => k \in S
      BY <1>10, <1>2
    <2> HIDE DEF S
    <2>3. 0..N \subseteq S
      BY <2>1, <2>2, BoundedInduction, <1>1
    <2>4. QED
      BY <2>3 DEF S
  <1>12. h \in [0..N -> D]
    BY <1>9, <1>11
  <1>13. IsWalks(h)
    BY <1>4, <1>10, <1>12 DEF IsWalks, Up, a, N, D
  <1>14. QED
    BY <1>1, <1>13 DEF N

(* A set with the source and all that the box lets through from its        *)
(* members has every node that can be reached.                             *)
LEMMA ReachableLeast ==
  ASSUME InputsFit(TheNet), NEW S, nets[TheNet].src \in S, \A y \in S : Onward(y) \subseteq S,
         NEW x, Reachable(x)
  PROVE  x \in S
  <1> DEFINE N == Cardinality(Node) - 1
  <1>1. N \in Nat
    BY WalksExist
  <1>2. PICK w : IsWalks(w)
    BY WalksExist
  <1> HIDE DEF N
  <1>3. /\ w[0] = {<<nets[TheNet].src, CongCost(nets[TheNet].src)>>}
        /\ \A k \in 1..N : w[k] = Longer(w[k - 1])
        /\ PathCosts = w[N]
    BY <1>2 DEF IsWalks, N
  <1> DEFINE T == {k \in 0..N : \A e \in w[k] : e[1] \in S}
  <1>4. 0 \in T
    BY <1>1, <1>3
  <1>5. ASSUME NEW k \in 1..N, k - 1 \in T
        PROVE  k \in T
    <2> SUFFICES ASSUME NEW q \in Longer(w[k - 1])
                 PROVE  q[1] \in S
      BY <1>3
    <2>1. CASE q \in w[k - 1]
      BY <1>5, <2>1
    <2>2. CASE q \notin w[k - 1]
      <3>1. PICK e \in w[k - 1], y \in InBox(TheNet, Node) :
              y \in rrg.switches[e[1]] /\ q = <<y, e[2] + CongCost(y)>>
        BY <2>2 DEF Longer
      <3>2. e[1] \in S
        BY <1>5
      <3>3. y \in Onward(e[1])
        BY <3>1 DEF Onward, InBox
      <3>4. q[1] = y
        BY <3>1
      <3>5. QED
        BY <3>2, <3>3, <3>4
    <2>3. QED
      BY <2>1, <2>2
  <1>6. N \in T
    <2> HIDE DEF T
    <2>1. 0..N \subseteq T
      BY <1>1, <1>4, <1>5, BoundedInduction
    <2>2. QED
      BY <2>1, <1>1
  <1>7. QED
    BY <1>3, <1>6 DEF Reachable
-----------------------------------------------------------------------------
(* What a neighbour costs when it is offered to the heap. *)
Toll(x) ==
    CongCost(x) + (IF params.astar = 0 THEN 0
                   ELSE params.astar * Distance(x, CurSink(TheNet)))

(* Huge is above the cost of every path, and of one switch more than the   *)
(* longest has: no switch costs more than M.                               *)
CostsBelow(M) ==
    /\ M \in Nat
    /\ M * (Cardinality(Node) + 1) < Huge
    /\ \A x \in Node : CongCost(x) <= M
    /\ \A x, y \in Node :
         CongCost(x) + (IF params.astar = 0 THEN 0 ELSE params.astar * Distance(x, y)) <= M

(* Node z has been reached at cost c, or can be. *)
Covered(z, c) ==
    \/ z \in mdf /\ pathCost[z] <= c
    \/ \E e \in heap : e.owner = z /\ e.cost <= c

(* The search has gone on from every node that it has reached, and its     *)
(* costs stay below Huge.                                                  *)
Spread(M) ==
    spc = "pop" =>
        /\ \A e \in heap : e.cost <= M * (Cardinality(mdf) + 1)
        /\ \A y \in mdf : pathCost[y] <= M * Cardinality(mdf)
        /\ \A y \in mdf : ~Ends(y, CurSink(TheNet))
        /\ Covered(nets[TheNet].src, CongCost(nets[TheNet].src))
        /\ \A y \in mdf : \A z \in Onward(y) : Covered(z, pathCost[y] + Toll(z))

(* What the search of a net has shown when it fails. *)
Failed == spc = "unroutable" => \E x \in ElemsOf(nets[TheNet].sinks) : ~Reachable(x)

(* The multiples of a natural, which the arithmetic backend needs to be    *)
(* told about.                                                             *)
LEMMA Multiples ==
  ASSUME NEW M \in Nat, NEW j \in Nat, NEW k \in Nat, j <= k
  PROVE  /\ M * j \in Nat /\ M * k \in Nat
         /\ M * j <= M * k
         /\ M * (j + 1) = M * j + M
  <1>1. M * (j + 1) = M * j + M /\ M * j \in Nat /\ M * k \in Nat
    BY ProductNat
  <1>2. k - j \in Nat /\ M * k = M * j + M * (k - j)
    OBVIOUS
  <1>3. M * (k - j) \in Nat
    BY <1>2, ProductNat
  <1>4. QED
    BY <1>1, <1>2, <1>3

(* What expand_neighbours offers: every neighbour in the box, at its toll. *)
LEMMA OffersSpread ==
  ASSUME InputsFit(TheNet), Types(TheNet), spc = "pop", NEW e \in EntrySet
  PROVE  /\ \A f \in Offers(TheNet, e, CurSink(TheNet)) :
              f.owner \in Onward(e.owner) /\ f.cost = e.cost + Toll(f.owner)
         /\ \A z \in Onward(e.owner) : \E f \in Offers(TheNet, e, CurSink(TheNet)) :
              f.owner = z /\ f.cost = e.cost + Toll(z)
  <1> DEFINE snk  == CurSink(TheNet)
             F(x) == Entry(x, IF isPath[x] THEN NULL ELSE e.owner,
                           e.cost + CongCost(x)
                             + (IF params.astar = 0 THEN 0 ELSE params.astar * Distance(x, snk)))
  <1>1. Offers(TheNet, e, snk) = {F(x) : x \in Onward(e.owner)}
    BY DEF Offers, Onward
  <1>2. snk \in Node /\ e.cost \in Int /\ e.owner \in Node
    BY DEF Types, Marks, InputsFit, CurSink, EntrySet
  <1>3. ASSUME NEW x \in Onward(e.owner)
        PROVE  F(x).owner = x /\ F(x).cost = e.cost + Toll(x)
    <2> DEFINE d == IF params.astar = 0 THEN 0 ELSE params.astar * Distance(x, snk)
    <2>1. x \in Node
      BY <1>2 DEF Onward, InBox, InputsFit
    <2>2. CongCost(x) \in Nat /\ d \in Nat
      BY <1>2, <2>1, ProductNat DEF InputsFit
    <2>3. Toll(x) = CongCost(x) + d
      BY DEF Toll
    <2>4. F(x).owner = x /\ F(x).cost = e.cost + CongCost(x) + d
      BY EntryFits
    <2> HIDE DEF d, F
    <2>5. QED
      BY <1>2, <2>2, <2>3, <2>4
  <1> HIDE DEF F, snk
  <1>4. QED
    BY <1>1, <1>3 DEF snk

(* What a search is measured by depends on its inputs alone.               *)
LEMMA MeasuresKept ==
  ASSUME Kept
  PROVE  /\ nets' = nets /\ rrg' = rrg /\ params' = params
         /\ \A x : CongCost(x)' = CongCost(x)
         /\ \A y : Onward(y)' = Onward(y)
         /\ \A M : CostsBelow(M)' <=> CostsBelow(M)
         /\ \A x : Reachable(x)' <=> Reachable(x)
         /\ \A w : IsWalks(w)' <=> IsWalks(w)
         /\ sinkIdx' = sinkIdx => \A x : Toll(x)' = Toll(x)
  <1>1. nets' = nets /\ rrg' = rrg /\ params' = params /\ pres' = pres /\ hist' = hist
    BY DEF Kept, inputs
  <1>2. \A x : CongCost(x)' = CongCost(x)
    BY <1>1 DEF CongCost
  <1>3. /\ \A y : Onward(y)' = Onward(y)
        /\ \A n, S : InBox(n, S)' = InBox(n, S)
        /\ \A x, y : Distance(x, y)' = Distance(x, y)
    BY <1>1 DEF Onward, InBox, BBox, Distance
  <1>4. \A M : CostsBelow(M)' <=> CostsBelow(M)
    BY <1>1, <1>2, <1>3 DEF CostsBelow
  <1>5. PathCosts' = PathCosts
    BY <1>1, SMT DEF PathCosts, CongCost, InBox, BBox
  <1>6. \A P : Longer(P)' = Longer(P)
    BY <1>1, <1>2, <1>3 DEF Longer
  <1>7. sinkIdx' = sinkIdx => \A x : Toll(x)' = Toll(x)
    BY <1>1, <1>2, <1>3 DEF Toll, CurSink
  <1>8. \A w : IsWalks(w)' <=> IsWalks(w)
    BY <1>1, <1>2, <1>5, <1>6 DEF IsWalks
  <1>9. \A x : Reachable(x)' <=> Reachable(x)
    BY <1>5 DEF Reachable
  <1>10. QED
    BY <1>1, <1>2, <1>3, <1>4, <1>7, <1>8, <1>9

(* The costs in the heap are below Huge, whatever has been reached.        *)
LEMMA CostsStayBelow ==
  ASSUME NEW M, CostsBelow(M), NEW S \in SUBSET Node
  PROVE  /\ Cardinality(S) \in Nat
         /\ M * Cardinality(S) \in Nat
         /\ M * (Cardinality(S) + 1) = M * Cardinality(S) + M
         /\ M * (Cardinality(S) + 1) < Huge
         /\ M < Huge
  <1> DEFINE j == Cardinality(S)
             k == Cardinality(Node)
  <1>1. j \in Nat /\ k \in Nat /\ j <= k /\ M \in Nat /\ M * (k + 1) < Huge /\ Huge \in Nat
    BY NodeAssumption, HugeAssumption, FS_Subset, FS_CardinalityType DEF CostsBelow
  <1> HIDE DEF j, k
  <1>2. M * (j + 1) <= M * (k + 1) /\ M * (j + 1) \in Nat /\ M * (k + 1) \in Nat
    BY <1>1, Multiples, j + 1 \in Nat, k + 1 \in Nat, j + 1 <= k + 1
  <1>3. M * j \in Nat /\ M * (j + 1) = M * j + M
    BY <1>1, Multiples
  <1>4. QED
    BY <1>1, <1>2, <1>3 DEF j

(* Tolls are naturals.                                                     *)
LEMMA TollNat ==
  ASSUME InputsFit(TheNet), Types(TheNet), spc = "pop", NEW z \in Node
  PROVE  Toll(z) \in Nat
  <1>1. CurSink(TheNet) \in Node
    BY DEF Types, Marks, InputsFit, CurSink
  <1> DEFINE d == params.astar * Distance(z, CurSink(TheNet))
  <1>2. d \in Nat /\ CongCost(z) \in Nat
    BY <1>1, ProductNat DEF InputsFit
  <1> HIDE DEF d
  <1>3. Toll(z) = CongCost(z) + (IF params.astar = 0 THEN 0 ELSE d)
    BY DEF Toll, d
  <1>4. QED
    BY <1>2, <1>3

(* A search begins with the source, at its own cost.                       *)
LEMMA BeginSinkSpreads ==
  ASSUME NEW M, CostsBelow(M), Kept, Inv, BeginSink(TheNet)
  PROVE  Spread(M)'
  <1> DEFINE src == nets[TheNet].src
  <1>1. mdf = {} /\ mdf' = {} /\ \A x \in Node : pathCost[x] = Huge
    <2>1. mdf = {} /\ mdf' = {} /\ \A x \in Node : pathCost[x] \in Int /\ pathCost[x] <= Huge
                                                 /\ ~(pathCost[x] < Huge)
      BY DEF BeginSink, Inv, SearchInv, Slate, Types, Marks
    <2>2. QED
      BY <2>1, HugeAssumption
  <1>2. Cardinality({}) = 0 /\ M \in Nat /\ M < Huge /\ M * (0 + 1) = M
    <2>1. M \in Nat /\ {} \in SUBSET Node
      BY DEF CostsBelow
    <2>2. M < Huge
      BY <2>1, CostsStayBelow
    <2>3. QED
      BY <2>1, <2>2, FS_EmptySet
  <1>3. src \in Node /\ CongCost(src) \in Nat /\ CongCost(src) <= M
    BY DEF Inv, InputsFit, CostsBelow
  <1>4. \A x, c : Entry(x, NULL, c).owner = x /\ Entry(x, NULL, c).cost = c
    BY EntryFits
  <1>5. \A e \in heap' : e.cost <= M
    <2>1. \A e \in heap' : e.cost = CongCost(src) \/ e.cost = NO_PREVIOUS
      BY <1>4 DEF BeginSink, Added
    <2>2. NO_PREVIOUS <= M
      BY <1>2 DEF NO_PREVIOUS
    <2>3. QED
      BY <1>3, <2>1, <2>2
  <1>6. Entry(src, NULL, CongCost(src)) \in heap'
    <2> DEFINE s == Entry(src, NULL, CongCost(src))
    <2>1. s.cost <= pathCost[s.owner]
      BY <1>1, <1>2, <1>3, <1>4, HugeAssumption
    <2> HIDE DEF s
    <2>2. s \in heap'
      BY <2>1 DEF BeginSink, Added, s
    <2>3. QED
      BY <2>2 DEF s
  <1>7. \E e \in heap' : e.owner = src /\ e.cost <= CongCost(src)
    BY <1>3, <1>4, <1>6
  <1>8. Covered(nets[TheNet].src, CongCost(nets[TheNet].src))'
    BY <1>7, MeasuresKept DEF Covered
  <1>9. QED
    BY <1>1, <1>2, <1>5, <1>8 DEF Spread

(* An entry that is passed over has an owner that was reached more         *)
(* cheaply.                                                                *)
LEMMA PopStaleSpreads ==
  ASSUME NEW M, CostsBelow(M), Kept, Inv, Spread(M), PopStale(TheNet)
  PROVE  Spread(M)'
  <1>1. PICK e \in heap : pathCost[e.owner] <= e.cost /\ heap' = heap \ {e}
    BY DEF PopStale, Popped
  <1>2. /\ spc = "pop" /\ mdf' = mdf /\ pathCost' = pathCost /\ tarflg' = tarflg
        /\ sinkIdx' = sinkIdx
    BY DEF PopStale, nodeMarks
  <1>3. e.owner \in Node /\ e.cost \in Int /\ mdf \in SUBSET Node
        /\ \A f \in heap : f.cost \in Int
    BY DEF Inv, SearchInv, Types, Marks, EntrySet
  <1>4. e.owner \in mdf
    <2>1. e.cost < Huge
      <3>1. e.cost <= M * (Cardinality(mdf) + 1)
        BY <1>2 DEF Spread
      <3> DEFINE B == M * (Cardinality(mdf) + 1)
      <3>2. B < Huge /\ B \in Int /\ Huge \in Int
        BY <1>3, CostsStayBelow, HugeAssumption DEF CostsBelow
      <3> HIDE DEF B
      <3>3. e.cost <= B
        BY <3>1 DEF B
      <3>4. QED
        BY <1>3, <3>2, <3>3
    <2>2. pathCost[e.owner] \in Int
      BY <1>3 DEF Inv, SearchInv, Types, Marks
    <2>3. pathCost[e.owner] < Huge
      BY <1>1, <1>3, <2>1, <2>2, HugeAssumption
    <2>4. QED
      BY <1>3, <2>3 DEF Inv, SearchInv, Slate
  <1>5. ASSUME NEW z, NEW c \in Int, Covered(z, c)
        PROVE  Covered(z, c)'
    <2>1. CASE e.owner = z /\ e.cost <= c
      <3>1. pathCost[e.owner] \in Int
        BY <1>3 DEF Inv, SearchInv, Types, Marks
      <3>2. z \in mdf /\ pathCost[z] <= c
        BY <2>1, <3>1, <1>1, <1>3, <1>4
      <3>3. QED
        BY <3>2, <1>2 DEF Covered
    <2>2. CASE ~(e.owner = z /\ e.cost <= c)
      BY <2>2, <1>1, <1>2, <1>5 DEF Covered
    <2>3. QED
      BY <2>1, <2>2
  <1>6. Covered(nets[TheNet].src, CongCost(nets[TheNet].src))'
    <2>1. CongCost(nets[TheNet].src) \in Int
      BY DEF Inv, InputsFit
    <2>2. Covered(nets[TheNet].src, CongCost(nets[TheNet].src))
      BY <1>2 DEF Spread
    <2> DEFINE z == nets[TheNet].src
               c == CongCost(nets[TheNet].src)
    <2>3. Covered(z, c)'
      BY <2>1, <2>2, <1>5, MeasuresKept
    <2>4. QED
      BY <2>3
  <1>7. ASSUME NEW y \in mdf', NEW z \in Onward(y)'
        PROVE  Covered(z, pathCost[y] + Toll(z))'
    <2>1. y \in mdf /\ y \in Node /\ z \in Onward(y) /\ z \in Node
      BY <1>2, <1>3, MeasuresKept DEF Onward, InBox, Inv, InputsFit
    <2>2. Covered(z, pathCost[y] + Toll(z))
      BY <2>1, <1>2 DEF Spread
    <2>3. pathCost[y] + Toll(z) \in Int
      BY <2>1, <1>2, TollNat DEF Inv, SearchInv, Types, Marks
    <2>4. (pathCost[y] + Toll(z))' = pathCost[y] + Toll(z)
      BY <1>2, MeasuresKept
    <2> DEFINE c == pathCost[y] + Toll(z)
    <2>5. Covered(z, c)'
      BY <2>2, <2>3, <2>4, <1>5
    <2>6. QED
      BY <2>5
  <1>8. \A y : Ends(y, CurSink(TheNet))' <=> Ends(y, CurSink(TheNet))
    BY <1>2, MeasuresKept DEF Ends, CurSink
  <1>9. QED
    BY <1>1, <1>2, <1>6, <1>7, <1>8 DEF Spread

(* What is known of the entry with which a node is reached.                *)
Taken(e) ==
    /\ e \in heap
    /\ Smallest(e)
    /\ ~Ends(e.owner, CurSink(TheNet))
    /\ pathCost[e.owner] > e.cost
    /\ prev' = [prev EXCEPT ![e.owner] = e.prev]
    /\ pathCost' = [pathCost EXCEPT ![e.owner] = e.cost]
    /\ mdf' = Modified(e.owner)
    /\ heap' = Popped(e) \cup Added(Offers(TheNet, e, CurSink(TheNet)), pathCost')
    /\ UNCHANGED <<tarflg, sinkIdx>>

(* The costs and the list of reached nodes after such a step.              *)
LEMMA TakenFits ==
  ASSUME Inv, spc = "pop", NEW e, Taken(e)
  PROVE  /\ e \in EntrySet /\ e.owner \in Node /\ e.cost \in Int
         /\ mdf \in SUBSET Node /\ mdf' = mdf \cup {e.owner}
         /\ \A x \in Node : /\ pathCost[x] \in Int /\ pathCost[x] <= Huge
                            /\ x \in mdf <=> pathCost[x] < Huge
                            /\ pathCost'[x] = IF x = e.owner THEN e.cost ELSE pathCost[x]
                            /\ pathCost'[x] <= pathCost[x]
  <1>1. e \in EntrySet /\ e.owner \in Node /\ e.cost \in Int
    BY DEF Taken, Inv, SearchInv, Types, Marks, EntrySet
  <1>2. pathCost \in [Node -> Int] /\ mdf \in SUBSET Node
    BY DEF Inv, SearchInv, Types, Marks
  <1>3. \A x \in Node : /\ pathCost[x] \in Int /\ pathCost[x] <= Huge
                        /\ x \in mdf <=> pathCost[x] < Huge
    BY <1>2 DEF Inv, SearchInv, Slate
  <1>4. pathCost[e.owner] > e.cost /\ pathCost' = [pathCost EXCEPT ![e.owner] = e.cost]
        /\ mdf' = Modified(e.owner)
    BY DEF Taken
  <1>5. \A x \in Node : pathCost'[x] = IF x = e.owner THEN e.cost ELSE pathCost[x]
    BY <1>1, <1>2, <1>4
  <1>6. \A x \in Node : pathCost'[x] <= pathCost[x]
    BY <1>1, <1>3, <1>4, <1>5
  <1>7. mdf' = mdf \cup {e.owner}
    BY <1>1, <1>3, <1>4, HugeAssumption DEF Modified
  <1>8. QED
    BY <1>1, <1>2, <1>3, <1>5, <1>6, <1>7

(* It costs no more than as many switches as nodes have been reached.      *)
LEMMA TakenIsBounded ==
  ASSUME NEW M, CostsBelow(M), Inv, Spread(M), spc = "pop", NEW e, Taken(e)
  PROVE  /\ Cardinality(mdf) \in Nat /\ Cardinality(mdf') \in Nat
         /\ M * Cardinality(mdf) <= M * Cardinality(mdf')
         /\ e.cost <= M * Cardinality(mdf')
  <1> DEFINE j == Cardinality(mdf)
             k == Cardinality(mdf')
  <1>1. /\ e.owner \in Node /\ e.cost \in Int /\ e \in heap
        /\ mdf \in SUBSET Node /\ mdf' = mdf \cup {e.owner}
        /\ pathCost[e.owner] \in Int /\ pathCost[e.owner] > e.cost
    BY TakenFits DEF Taken
  <1>2. mdf \in SUBSET mdf' /\ mdf' \in SUBSET Node
    BY <1>1
  <1>3. IsFiniteSet(mdf) /\ IsFiniteSet(mdf') /\ j <= k /\ j \in Nat /\ k \in Nat
    BY <1>2, NodeAssumption, FS_Subset, FS_CardinalityType
  <1>4. /\ e.cost <= M * (j + 1)
        /\ e.owner \in mdf => pathCost[e.owner] <= M * j
    BY <1>1 DEF Spread
  <1>5. e.owner \notin mdf => k = j + 1
    BY <1>1, <1>3, FS_AddElement
  <1>6. M \in Nat
    BY DEF CostsBelow
  <1> HIDE DEF j, k
  <1>7. M * j <= M * k /\ M * j \in Nat /\ M * k \in Nat
    BY <1>3, <1>6, Multiples
  <1>8. e.cost <= M * k
    <2>1. CASE e.owner \in mdf
      BY <2>1, <1>1, <1>4, <1>7
    <2>2. CASE e.owner \notin mdf
      <3>1. k = j + 1
        BY <2>2, <1>5
      <3>2. QED
        BY <3>1, <1>4
    <2>3. QED
      BY <2>1, <2>2
  <1>9. QED
    BY <1>3, <1>7, <1>8 DEF j, k

(* What is covered stays so, and the owner's neighbours are covered.       *)
LEMMA TakenCovers ==
  ASSUME NEW M, CostsBelow(M), Kept, Inv, Spread(M), spc = "pop", NEW e, Taken(e)
  PROVE  /\ \A z : \A c \in Int : Covered(z, c) => Covered(z, c)'
         /\ \A z \in Onward(e.owner) : Covered(z, e.cost + Toll(z))'
  <1> DEFINE offers == Offers(TheNet, e, CurSink(TheNet))
  <1>1. /\ e \in EntrySet /\ e.owner \in Node /\ e.cost \in Int
        /\ mdf \in SUBSET Node /\ mdf' = mdf \cup {e.owner}
        /\ \A x \in Node : /\ pathCost[x] \in Int /\ pathCost[x] <= Huge
                           /\ x \in mdf <=> pathCost[x] < Huge
                           /\ pathCost'[x] = IF x = e.owner THEN e.cost ELSE pathCost[x]
                           /\ pathCost'[x] <= pathCost[x]
    BY TakenFits
  <1>2. heap' = (heap \ {e}) \cup {f \in offers : f.cost <= pathCost'[f.owner]}
    BY DEF Taken, Popped, Added
  <1>3. ASSUME NEW z, NEW c \in Int, Covered(z, c)
        PROVE  Covered(z, c)'
    <2>1. CASE z \in mdf /\ pathCost[z] <= c
      <3>1. z \in mdf' /\ pathCost'[z] <= c
        BY <2>1, <1>1
      <3>2. QED
        BY <3>1 DEF Covered
    <2>2. CASE ~(z \in mdf /\ pathCost[z] <= c)
      <3>1. PICK f \in heap : f.owner = z /\ f.cost <= c
        BY <2>2, <1>3 DEF Covered
      <3>2. CASE f = e
        <4>1. z \in mdf' /\ pathCost'[z] <= c
          BY <3>1, <3>2, <1>1
        <4>2. QED
          BY <4>1 DEF Covered
      <3>3. CASE f # e
        BY <3>1, <3>3, <1>2 DEF Covered
      <3>4. QED
        BY <3>2, <3>3
    <2>3. QED
      BY <2>1, <2>2
  <1>4. ASSUME NEW z \in Onward(e.owner)
        PROVE  Covered(z, e.cost + Toll(z))'
    <2> DEFINE c == e.cost + Toll(z)
    <2>1. z \in Node
      BY <1>1 DEF Onward, InBox, Inv, InputsFit
    <2>2. Toll(z) \in Nat /\ Toll(z) <= M
      <3>1. CurSink(TheNet) \in Node
        BY DEF Inv, SearchInv, Types, Marks, InputsFit, CurSink
      <3>2. QED
        BY <2>1, <3>1, TollNat DEF Toll, CostsBelow, Inv, SearchInv
    <2>3. c \in Int /\ c < Huge
      <3> DEFINE B == M * Cardinality(mdf')
      <3>1. mdf' \in SUBSET Node
        BY <1>1
      <3>2. B \in Nat /\ B + M < Huge
        BY <3>1, CostsStayBelow
      <3>3. e.cost <= B
        BY TakenIsBounded
      <3>4. M \in Nat /\ Huge \in Nat
        BY HugeAssumption DEF CostsBelow
      <3> HIDE DEF B
      <3>5. QED
        BY <1>1, <2>2, <3>2, <3>3, <3>4
    <2>4. PICK f \in offers : f.owner = z /\ f.cost = c
      BY <1>1, OffersSpread DEF Inv, SearchInv
    <2> HIDE DEF c, offers
    <2>5. Toll(z)' = Toll(z)
      BY MeasuresKept DEF Taken
    <2>6. CASE c <= pathCost'[z]
      <3>1. f \in heap' /\ f.cost <= c
        BY <1>2, <2>3, <2>4, <2>6
      <3>2. QED
        BY <2>4, <2>5, <3>1 DEF Covered, c
    <2>7. CASE ~(c <= pathCost'[z])
      <3>1. pathCost'[z] < c /\ pathCost'[z] \in Int
        BY <1>1, <2>1, <2>3, <2>7
      <3>2. z \in mdf'
        BY <1>1, <2>1, <2>3, <3>1, HugeAssumption
      <3>3. pathCost'[z] <= c
        BY <3>1, <2>3
      <3>4. QED
        BY <2>5, <3>2, <3>3 DEF Covered, c
    <2>8. QED
      BY <2>6, <2>7
  <1>5. QED
    BY <1>3, <1>4

(* A step that reaches a node is such a step.                              *)
LEMMA PopExpandTakes ==
  ASSUME PopExpand(TheNet)
  PROVE  spc = "pop" /\ spc' = "pop" /\ \E e : Taken(e)
  BY DEF PopExpand, Taken

(* The search goes on from the node that it reaches.                       *)
LEMMA PopExpandSpreads ==
  ASSUME NEW M, CostsBelow(M), Kept, Inv, Spread(M), PopExpand(TheNet)
  PROVE  Spread(M)'
  <1>1. spc = "pop" /\ spc' = "pop"
    BY PopExpandTakes
  <1>2. PICK e : Taken(e)
    BY PopExpandTakes
  <1>3. /\ e \in EntrySet /\ e.owner \in Node /\ e.cost \in Int
        /\ mdf \in SUBSET Node /\ mdf' = mdf \cup {e.owner}
        /\ \A x \in Node : /\ pathCost[x] \in Int
                           /\ pathCost'[x] = IF x = e.owner THEN e.cost ELSE pathCost[x]
    BY <1>1, <1>2, TakenFits
  <1>4. /\ \A z : \A c \in Int : Covered(z, c) => Covered(z, c)'
        /\ \A z \in Onward(e.owner) : Covered(z, e.cost + Toll(z))'
    BY <1>1, <1>2, TakenCovers
  <1>5. tarflg' = tarflg /\ sinkIdx' = sinkIdx
    BY <1>2 DEF Taken
  <1>6. \A y : Ends(y, CurSink(TheNet))' <=> Ends(y, CurSink(TheNet))
    BY <1>5, MeasuresKept DEF Ends, CurSink
  <1> DEFINE B == M * Cardinality(mdf')
             A == M * Cardinality(mdf)
  <1>7. /\ A \in Nat /\ B \in Nat /\ M \in Nat /\ A <= B /\ e.cost <= B
        /\ M * (Cardinality(mdf') + 1) = B + M
        /\ M * (Cardinality(mdf) + 1) = A + M
    <2>1. mdf \in SUBSET Node /\ mdf' \in SUBSET Node
      BY <1>3
    <2>2. QED
      BY <1>1, <1>2, <2>1, CostsStayBelow, TakenIsBounded DEF CostsBelow
  <1> HIDE DEF A, B
  <1>8. \A f \in heap' : f.cost <= B + M
    <2> TAKE f \in heap'
    <2>1. CASE f \in heap
      <3>1. f.cost <= A + M /\ f.cost \in Int
        BY <2>1, <1>1, <1>7 DEF Spread, Inv, SearchInv, Types, Marks, EntrySet
      <3>2. QED
        BY <3>1, <1>7
    <2>2. CASE f \notin heap
      <3>1. f \in Offers(TheNet, e, CurSink(TheNet))
        BY <2>2, <1>2 DEF Taken, Popped, Added
      <3>2. f.owner \in Onward(e.owner) /\ f.cost = e.cost + Toll(f.owner)
        BY <3>1, <1>1, <1>3, OffersSpread DEF Inv, SearchInv
      <3>3. f.owner \in Node
        BY <3>2, <1>3 DEF Onward, InBox, Inv, InputsFit
      <3>4. CurSink(TheNet) \in Node
        BY <1>1 DEF Inv, SearchInv, Types, Marks, InputsFit, CurSink
      <3>5. Toll(f.owner) \in Nat /\ Toll(f.owner) <= M
        BY <1>1, <3>3, <3>4, TollNat DEF Toll, CostsBelow, Inv, SearchInv
      <3>6. QED
        BY <1>3, <1>7, <3>2, <3>5
    <2>3. QED
      BY <2>1, <2>2
  <1>9. \A y \in mdf' : pathCost'[y] <= B
    <2> TAKE y \in mdf'
    <2>1. CASE y = e.owner
      BY <2>1, <1>3, <1>7
    <2>2. CASE y # e.owner
      <3>1. y \in mdf /\ pathCost'[y] = pathCost[y] /\ pathCost[y] \in Int
        BY <2>2, <1>3
      <3>2. pathCost[y] <= A
        BY <3>1, <1>1 DEF Spread, A
      <3>3. QED
        BY <3>1, <3>2, <1>7
    <2>3. QED
      BY <2>1, <2>2
  <1>10. \A y \in mdf' : ~Ends(y, CurSink(TheNet))'
    BY <1>1, <1>2, <1>3, <1>6 DEF Taken, Spread
  <1>11. Covered(nets[TheNet].src, CongCost(nets[TheNet].src))'
    <2>1. CongCost(nets[TheNet].src) \in Int
      BY DEF Inv, InputsFit
    <2>2. Covered(nets[TheNet].src, CongCost(nets[TheNet].src))
      BY <1>1 DEF Spread
    <2> DEFINE z == nets[TheNet].src
               c == CongCost(nets[TheNet].src)
    <2>3. Covered(z, c)'
      BY <2>1, <2>2, <1>4, MeasuresKept
    <2>4. QED
      BY <2>3
  <1>12. ASSUME NEW y \in mdf', NEW z \in Onward(y)'
         PROVE  Covered(z, pathCost[y] + Toll(z))'
    <2>1. y \in Node /\ z \in Onward(y) /\ z \in Node
      BY <1>3, MeasuresKept DEF Onward, InBox, Inv, InputsFit
    <2>2. Toll(z)' = Toll(z) /\ Toll(z) \in Nat
      BY <2>1, <1>1, <1>5, MeasuresKept, TollNat DEF Inv, SearchInv
    <2>3. CASE y = e.owner
      <3>1. Covered(z, e.cost + Toll(z))'
        BY <2>1, <2>3, <1>4
      <3>2. pathCost'[y] = e.cost
        BY <2>3, <1>3
      <3>3. QED
        BY <3>1, <3>2 DEF Covered
    <2>4. CASE y # e.owner
      <3>1. y \in mdf /\ pathCost'[y] = pathCost[y] /\ pathCost[y] \in Int
        BY <2>1, <2>4, <1>3
      <3>2. Covered(z, pathCost[y] + Toll(z))
        BY <3>1, <2>1, <1>1 DEF Spread
      <3>3. pathCost[y] + Toll(z) \in Int
        BY <3>1, <2>2
      <3> DEFINE c == pathCost[y] + Toll(z)
      <3>4. c' = c
        BY <3>1, <2>2
      <3>5. Covered(z, c)'
        BY <3>2, <3>3, <3>4, <1>4
      <3>6. QED
        BY <3>5
    <2>5. QED
      BY <2>3, <2>4
  <1>13. QED
    BY <1>7, <1>8, <1>9, <1>10, <1>11, <1>12 DEF Spread, B

(* When the heap is empty the search has been everywhere it could go, and  *)
(* has not met a flagged sink.                                             *)
LEMMA FailSearchFails ==
  ASSUME NEW M, Kept, Inv, Spread(M), FailSearch(TheNet)
  PROVE  Failed'
  <1>1. spc = "pop" /\ heap = {}
    BY DEF FailSearch
  <1>2. nets[TheNet].src \in mdf /\ \A y \in mdf : Onward(y) \subseteq mdf
    BY <1>1 DEF Spread, Covered
  <1>3. \A x : Reachable(x) => x \in mdf
    BY <1>2, ReachableLeast DEF Inv
  <1>4. \A y \in mdf : ~Ends(y, CurSink(TheNet))
    BY <1>1 DEF Spread
  <1> DEFINE sinks == nets[TheNet].sinks
             L     == Len(sinks)
  <1>5. L \in Nat /\ DOMAIN sinks = 1..L /\ sinkIdx \in 1..L
    <2>1. sinks \in Seq(Node)
      BY DEF Inv, InputsFit
    <2>2. sinkIdx \in 1..(L + 1) /\ sinkIdx <= L
      BY <1>1 DEF Inv, SearchInv, Types, Marks
    <2> HIDE DEF sinks
    <2>3. QED
      BY <2>1, <2>2
  <1>6. \E i \in 1..L : sinks[i] \notin mdf
    <2>1. CASE params.algo = "BREADTH_FIRST"
      <3>1. PICK J : Flagged(TheNet, J)
        BY <1>1 DEF Inv, SearchInv, Flags
      <3>2. J \in SUBSET (1..L) /\ Cardinality(J) >= L - sinkIdx + 1 /\ FlagsOf(TheNet, J)
        BY <3>1 DEF Flagged
      <3>3. J # {}
        <4>1. Cardinality(J) # 0
          BY <1>5, <3>2
        <4>2. QED
          BY <4>1, FS_EmptySet
      <3>4. PICK i \in J : TRUE
        BY <3>3
      <3>5. sinks[i] \in Node
        BY <1>5, <3>2, <3>4 DEF Inv, InputsFit
      <3>6. i \in Positions(sinks, J, sinks[i])
        BY <3>4 DEF Positions
      <3>7. tarflg[sinks[i]] # 0
        BY <1>5, <3>2, <3>5, <3>6, PositionsFinite, FS_EmptySet DEF FlagsOf
      <3>8. sinks[i] \notin mdf
        BY <1>4, <2>1, <3>7 DEF Ends
      <3>9. QED
        BY <3>2, <3>4, <3>8
    <2>2. CASE params.algo # "BREADTH_FIRST"
      BY <1>4, <1>5, <2>2 DEF Ends, CurSink
    <2>3. QED
      BY <2>1, <2>2
  <1>7. \E x \in ElemsOf(sinks) : ~Reachable(x)
    BY <1>3, <1>5, <1>6 DEF ElemsOf
  <1>8. QED
    BY <1>7, MeasuresKept DEF Failed

(* What holds whenever costs stay below Huge.                              *)
SpreadInv == Inv /\ Failed /\ \E M : CostsBelow(M) /\ Spread(M)

(* No search has begun at first.                                           *)
LEMMA SpreadInit ==
  ASSUME Init, \E M : CostsBelow(M)
  PROVE  SpreadInv
  BY InvInit DEF Init, SearchInit, SpreadInv, Failed, Spread

(* Every step of the search goes on from what it reaches.                  *)
LEMMA SpreadStep == SpreadInv /\ [Next]_svars => SpreadInv'
  <1> SUFFICES ASSUME SpreadInv, [Next]_svars
               PROVE  SpreadInv'
    OBVIOUS
  <1>1. Inv'
    BY InvStep DEF SpreadInv
  <1>2. Kept
    BY StepCases DEF Kept, svars, inputs
  <1>3. PICK M : CostsBelow(M) /\ Spread(M)
    BY DEF SpreadInv
  <1>4. CostsBelow(M)'
    BY <1>2, <1>3, MeasuresKept
  <1>5. Spread(M)' /\ Failed'
    <2>1. CASE BeginSink(TheNet)
      BY <2>1, <1>2, <1>3, BeginSinkSpreads DEF SpreadInv, BeginSink, Failed
    <2>2. CASE PopStale(TheNet)
      BY <2>2, <1>2, <1>3, PopStaleSpreads DEF SpreadInv, PopStale, Failed
    <2>3. CASE PopExpand(TheNet)
      BY <2>3, <1>2, <1>3, PopExpandSpreads, PopExpandTakes DEF SpreadInv, Failed
    <2>4. CASE FailSearch(TheNet)
      BY <2>4, <1>2, <1>3, FailSearchFails DEF SpreadInv, FailSearch, Spread
    <2>5. CASE \/ BeginNet(TheNet, occ) \/ SkipSink(TheNet)
               \/ ReachSink(TheNet) \/ FinishNet(TheNet)
      <3>1. spc' \in {"sink", "routed"}
        BY <2>5 DEF BeginNet, SkipSink, ReachSink, FinishNet
      <3>2. QED
        BY <3>1 DEF Spread, Failed
    <2>6. CASE UNCHANGED svars
      <3>1. /\ mdf' = mdf /\ spc' = spc /\ heap' = heap /\ pathCost' = pathCost
            /\ tarflg' = tarflg /\ sinkIdx' = sinkIdx
        BY <2>6 DEF svars, inputs, nodeMarks, searchVars
      <3>2. \A y : Ends(y, CurSink(TheNet))' <=> Ends(y, CurSink(TheNet))
        BY <1>2, <3>1, MeasuresKept DEF Ends, CurSink
      <3>3. \A x : Toll(x)' = Toll(x)
        BY <1>2, <3>1, MeasuresKept
      <3>4. Failed'
        BY <1>2, <3>1, MeasuresKept DEF SpreadInv, Failed
      <3>5. Spread(M)'
        BY <1>2, <1>3, <3>1, <3>2, <3>3, MeasuresKept DEF Spread, Covered
      <3>6. QED
        BY <3>4, <3>5
    <2>7. QED
      BY <2>1, <2>2, <2>3, <2>4, <2>5, <2>6, StepCases DEF SearchStep
  <1>6. QED
    BY <1>1, <1>4, <1>5 DEF SpreadInv

(* A net is called unroutable only when one of its sinks cannot be reached *)
(* inside its box, if Huge really is above the cost of every path.         *)
THEOREM Unroutable == Spec /\ (\E M : CostsBelow(M)) => []UnroutableIsReal
  <1>1. SpreadInv => UnroutableIsReal
    BY DEF SpreadInv, Failed, UnroutableIsReal
  <1>2. Init /\ (\E M : CostsBelow(M)) => SpreadInv
    BY SpreadInit
  <1>3. QED
    BY <1>1, <1>2, SpreadStep, PTL DEF Spec
-----------------------------------------------------------------------------
(* The search of a net whose costs are those of its switches alone. *)
Exact == params.astar = 0 /\ nets[TheNet].kind # "CLOCK"

(* Nodes are reached in the order of their costs, by paths of less         *)
(* switches than nodes have been reached.                                  *)
Settled(w) ==
    spc = "pop" /\ Exact =>
        /\ \A y \in mdf, e \in heap : pathCost[y] <= e.cost
        /\ \A y \in mdf : <<y, pathCost[y]>> \in w[Cardinality(mdf) - 1]
        /\ Cardinality(mdf) < Cardinality(Node) =>
             \A e \in heap : <<e.owner, e.cost>> \in w[Cardinality(mdf)]

(* Paths of at most k - 1 switches are paths of at most k.                 *)
LEMMA WalksGrow ==
  ASSUME InputsFit(TheNet), NEW w, IsWalks(w)
  PROVE  /\ \A k \in 1..(Cardinality(Node) - 1) : w[k - 1] \subseteq w[k]
         /\ \A k \in 0..(Cardinality(Node) - 1) : w[k] \subseteq PathCosts
  <1> DEFINE N == Cardinality(Node) - 1
  <1>1. N \in Nat
    BY WalksExist
  <1> HIDE DEF N
  <1>2. (\A k \in 1..N : w[k] = Longer(w[k - 1])) /\ PathCosts = w[N]
    BY DEF IsWalks, N
  <1>3. \A k \in 1..N : w[k - 1] \subseteq w[k]
    <2>1. \A P : P \subseteq Longer(P)
      BY DEF Longer
    <2>2. QED
      BY <1>2, <2>1
  <1> DEFINE T == {i \in 0..N : w[N - i] \subseteq w[N]}
  <1>4. 0 \in T
    BY <1>1
  <1>5. ASSUME NEW i \in 1..N, i - 1 \in T
        PROVE  i \in T
    <2>1. N - (i - 1) \in 1..N /\ (N - (i - 1)) - 1 = N - i
      BY <1>1
    <2>2. w[(N - (i - 1)) - 1] \subseteq w[N - (i - 1)]
      BY <1>3, <2>1
    <2>3. w[N - i] \subseteq w[N - (i - 1)]
      BY <2>1, <2>2
    <2>4. QED
      BY <1>5, <2>3
  <1> HIDE DEF T
  <1>6. 0..N \subseteq T
    BY <1>1, <1>4, <1>5, BoundedInduction
  <1>7. \A k \in 0..N : w[k] \subseteq w[N]
    <2> TAKE k \in 0..N
    <2>1. N - k \in 0..N /\ N - (N - k) = k
      BY <1>1
    <2>2. w[N - (N - k)] \subseteq w[N]
      BY <1>6, <2>1 DEF T
    <2>3. QED
      BY <2>1, <2>2
  <1>8. QED
    BY <1>2, <1>3, <1>7 DEF N

(* Without a distance term a neighbour costs what it is.                   *)
LEMMA ExactToll ==
  ASSUME Exact, InputsFit(TheNet), NEW z \in Node
  PROVE  Toll(z) = CongCost(z) /\ CongCost(z) \in Nat
  <1>1. CongCost(z) \in Nat
    BY DEF InputsFit
  <1>2. QED
    BY <1>1 DEF Exact, Toll

(* A search begins with the path without a switch.                         *)
LEMMA BeginSinkSettles ==
  ASSUME NEW w, IsWalks(w), Kept, Inv, BeginSink(TheNet)
  PROVE  Settled(w)'
  <1>1. mdf' = {}
    BY DEF BeginSink, Inv, SearchInv, Slate
  <1>2. Cardinality({}) = 0
    BY FS_EmptySet
  <1>3. ASSUME Exact', NEW e \in heap'
        PROVE  <<e.owner, e.cost>> \in w[0]
    <2>1. Exact
      BY <1>3, MeasuresKept DEF Exact
    <2>2. e = Entry(nets[TheNet].src, NULL, CongCost(nets[TheNet].src))
      BY <2>1 DEF BeginSink, Added, Exact
    <2>3. e.owner = nets[TheNet].src /\ e.cost = CongCost(nets[TheNet].src)
      BY <2>2, EntryFits
    <2>4. QED
      BY <2>3 DEF IsWalks
  <1>4. QED
    BY <1>1, <1>2, <1>3 DEF Settled

(* A node is reached once, at a cost no less than those before it.         *)
LEMMA PopExpandSettles ==
  ASSUME NEW w, IsWalks(w), Kept, Inv, Settled(w), PopExpand(TheNet), Exact
  PROVE  Settled(w)'
  <1> DEFINE j == Cardinality(mdf)
             N == Cardinality(Node)
  <1>1. spc = "pop" /\ spc' = "pop" /\ InputsFit(TheNet) /\ Types(TheNet)
    BY PopExpandTakes DEF Inv, SearchInv
  <1>2. PICK e : Taken(e)
    BY PopExpandTakes
  <1>3. /\ e \in heap /\ e \in EntrySet /\ e.owner \in Node /\ e.cost \in Int
        /\ mdf \in SUBSET Node /\ mdf' = mdf \cup {e.owner}
        /\ \A x \in Node : /\ pathCost[x] \in Int
                           /\ pathCost'[x] = IF x = e.owner THEN e.cost ELSE pathCost[x]
        /\ pathCost[e.owner] > e.cost
        /\ \A f \in heap : e.cost <= f.cost /\ f.cost \in Int
    BY <1>1, <1>2, TakenFits DEF Taken, Smallest, Types, Marks, EntrySet
  <1>4. /\ \A y \in mdf, f \in heap : pathCost[y] <= f.cost
        /\ \A y \in mdf : <<y, pathCost[y]>> \in w[j - 1]
        /\ j < N => \A f \in heap : <<f.owner, f.cost>> \in w[j]
    BY <1>1 DEF Settled
  <1>5. e.owner \notin mdf
    BY <1>3, <1>4
  <1>6. j \in Nat /\ N \in Nat /\ Cardinality(mdf') = j + 1 /\ j + 1 <= N
    <2>1. mdf' \in SUBSET Node
      BY <1>3
    <2>2. IsFiniteSet(mdf) /\ j \in Nat /\ N \in Nat /\ Cardinality(mdf') <= N
      BY <1>3, <2>1, NodeAssumption, FS_Subset, FS_CardinalityType
    <2>3. Cardinality(mdf') = j + 1
      BY <1>3, <1>5, <2>2, FS_AddElement
    <2>4. QED
      BY <2>2, <2>3
  <1>7. /\ \A k \in 1..(N - 1) : w[k - 1] \subseteq w[k] /\ w[k] = Longer(w[k - 1])
        /\ \A y \in mdf : j \in 1..(N - 1)
    <2>1. \A y \in mdf : j # 0
      BY <1>3, NodeAssumption, FS_Subset, FS_EmptySet
    <2>2. QED
      BY <1>1, <1>6, <2>1, WalksGrow DEF IsWalks
  <1> HIDE DEF j, N
  <1>8. <<e.owner, e.cost>> \in w[j]
    BY <1>3, <1>4, <1>6
  <1>9. ASSUME NEW f \in heap', f \notin heap
        PROVE  f.cost >= e.cost /\ f.cost \in Int
               /\ <<f.owner, f.cost>> \in Longer(w[j])
    <2>1. f \in Offers(TheNet, e, CurSink(TheNet))
      BY <1>9, <1>2 DEF Taken, Popped, Added
    <2>2. f.owner \in Onward(e.owner) /\ f.cost = e.cost + Toll(f.owner)
      BY <2>1, <1>1, <1>3, OffersSpread
    <2>3. f.owner \in Node /\ f.owner \in InBox(TheNet, Node) \cap rrg.switches[e.owner]
      BY <1>1, <1>3, <2>2 DEF Onward, InBox, InputsFit
    <2>4. f.cost = e.cost + CongCost(f.owner) /\ CongCost(f.owner) \in Nat
      BY <1>1, <2>2, <2>3, ExactToll
    <2> DEFINE p == <<e.owner, e.cost>>
               y == f.owner
    <2>5. p \in w[j] /\ p[1] = e.owner /\ p[2] = e.cost
      BY <1>8
    <2>6. <<y, p[2] + CongCost(y)>> \in Longer(w[j])
      BY <2>3, <2>5 DEF Longer
    <2>7. QED
      BY <1>3, <2>4, <2>5, <2>6
  <1>10. \A y \in mdf' : pathCost'[y] <= e.cost /\ pathCost'[y] \in Int
    BY <1>3, <1>4
  <1>11. \A f \in heap' : e.cost <= f.cost /\ f.cost \in Int
    BY <1>3, <1>9
  <1>12. \A y \in mdf', f \in heap' : pathCost'[y] <= f.cost
    BY <1>3, <1>10, <1>11
  <1>13. \A y \in mdf' : <<y, pathCost'[y]>> \in w[j]
    BY <1>3, <1>4, <1>5, <1>7, <1>8
  <1>14. j + 1 < N => \A f \in heap' : <<f.owner, f.cost>> \in w[j + 1]
    <2> SUFFICES ASSUME j + 1 < N, NEW f \in heap'
                 PROVE  <<f.owner, f.cost>> \in w[j + 1]
      OBVIOUS
    <2>1. j + 1 \in 1..(N - 1) /\ (j + 1) - 1 = j
      BY <1>6
    <2>2. w[j] \subseteq w[j + 1] /\ w[j + 1] = Longer(w[j])
      BY <1>7, <2>1
    <2>3. QED
      BY <1>4, <1>6, <1>9, <2>2
  <1>15. (j + 1) - 1 = j
    BY <1>6
  <1>16. QED
    BY <1>6, <1>12, <1>13, <1>14, <1>15 DEF Settled, N

(* The cost with which a node was reached is the least that any path has.  *)
LEMMA SettledIsCheapest ==
  ASSUME Inv, NEW M, Spread(M), NEW w, IsWalks(w), Settled(w)
  PROVE  SettledAtCheapest
  <1> SUFFICES ASSUME spc = "pop", Exact, NEW x \in mdf
               PROVE  pathCost[x] = Least({e[2] : e \in {f \in PathCosts : f[1] = x}})
    BY DEF SettledAtCheapest, Exact
  <1> DEFINE S == {e[2] : e \in {f \in PathCosts : f[1] = x}}
             N == Cardinality(Node) - 1
  <1>1. /\ N \in Nat /\ InputsFit(TheNet) /\ mdf \in SUBSET Node
        /\ \A y \in mdf : pathCost[y] \in Int
        /\ \A e \in heap : e.cost \in Int
    BY WalksExist DEF Inv, SearchInv, Types, Marks, EntrySet
  <1>2. /\ \A y \in mdf, e \in heap : pathCost[y] <= e.cost
        /\ <<x, pathCost[x]>> \in w[Cardinality(mdf) - 1]
    BY DEF Settled
  <1>3. Cardinality(mdf) - 1 \in 0..N
    <2>1. IsFiniteSet(mdf) /\ Cardinality(mdf) <= Cardinality(Node)
          /\ Cardinality(mdf) \in Nat /\ Cardinality(Node) \in Nat
      BY <1>1, NodeAssumption, FS_Subset, FS_CardinalityType
    <2>2. Cardinality(mdf) # 0
      BY <2>1, FS_EmptySet
    <2>3. QED
      BY <2>1, <2>2
  <1>4. /\ w[0] = {<<nets[TheNet].src, CongCost(nets[TheNet].src)>>}
        /\ \A k \in 1..N : w[k] = Longer(w[k - 1])
        /\ PathCosts = w[N]
        /\ \A k \in 0..N : w[k] \in SUBSET (Node \X Nat) /\ w[k] \subseteq PathCosts
    BY <1>1, WalksGrow DEF IsWalks
  <1> HIDE DEF N
  <1>5. pathCost[x] \in S
    <2>1. <<x, pathCost[x]>> \in PathCosts
      BY <1>2, <1>3, <1>4
    <2>2. <<x, pathCost[x]>>[1] = x /\ <<x, pathCost[x]>>[2] = pathCost[x]
      OBVIOUS
    <2>3. QED
      BY <2>1, <2>2
  <1>6. S \subseteq Nat
    <2>1. PathCosts \in SUBSET (Node \X Nat)
      BY <1>1, <1>4
    <2>2. QED
      BY <2>1
  <1> DEFINE Within(q) == \/ q[1] \in mdf /\ pathCost[q[1]] <= q[2]
                          \/ \E e \in heap : e.cost <= q[2]
             T         == {k \in 0..N : \A q \in w[k] : Within(q)}
  <1>7. 0 \in T
    <2>1. Covered(nets[TheNet].src, CongCost(nets[TheNet].src))
      BY DEF Spread
    <2>2. QED
      BY <1>1, <1>4, <2>1 DEF Covered
  <1>8. ASSUME NEW k \in 1..N, k - 1 \in T
        PROVE  k \in T
    <2>1. k - 1 \in 0..N /\ \A r \in w[k - 1] : Within(r)
      BY <1>8
    <2>2. ASSUME NEW q \in Longer(w[k - 1])
          PROVE  Within(q)
      <3>1. CASE q \in w[k - 1]
        BY <2>1, <3>1
      <3>2. CASE q \notin w[k - 1]
        <4>1. PICK r \in w[k - 1], y \in InBox(TheNet, Node) :
                y \in rrg.switches[r[1]] /\ q = <<y, r[2] + CongCost(y)>>
          BY <3>2 DEF Longer
        <4>2. y \in Node /\ y \in Onward(r[1]) /\ r[2] \in Nat /\ Within(r)
          BY <1>4, <2>1, <4>1 DEF InBox, Onward
        <4>3. Toll(y) = CongCost(y) /\ CongCost(y) \in Nat
          BY <1>1, <4>2, ExactToll
        <4>4. q[1] = y /\ q[2] = r[2] + CongCost(y)
          BY <4>1
        <4>5. CASE r[1] \in mdf /\ pathCost[r[1]] <= r[2]
          <5>1. Covered(y, pathCost[r[1]] + Toll(y))
            BY <4>2, <4>5 DEF Spread
          <5>2. pathCost[r[1]] + Toll(y) <= q[2] /\ pathCost[r[1]] + Toll(y) \in Int
                /\ q[2] \in Int
            BY <1>1, <4>2, <4>3, <4>4, <4>5
          <5> DEFINE c == pathCost[r[1]] + Toll(y)
          <5> HIDE DEF c
          <5>3. Covered(y, c) /\ c <= q[2] /\ c \in Int /\ q[2] \in Int
            BY <5>1, <5>2 DEF c
          <5>4. QED
            BY <1>1, <4>4, <5>3 DEF Covered
        <4>6. CASE \E e \in heap : e.cost <= r[2]
          <5>1. PICK e \in heap : e.cost <= r[2]
            BY <4>6
          <5>2. e.cost <= q[2]
            BY <1>1, <4>2, <4>3, <4>4, <5>1
          <5>3. QED
            BY <5>2
        <4>7. QED
          BY <4>2, <4>5, <4>6
      <3>3. QED
        BY <3>1, <3>2
    <2> HIDE DEF Within
    <2>3. QED
      BY <1>4, <2>2
  <1>9. N \in T
    <2> HIDE DEF T
    <2>1. 0..N \subseteq T
      BY <1>1, <1>7, <1>8, BoundedInduction
    <2>2. QED
      BY <2>1, <1>1
  <1>10. ASSUME NEW v \in S
         PROVE  pathCost[x] <= v
    <2>1. PICK q \in PathCosts : q[1] = x /\ q[2] = v
      OBVIOUS
    <2>2. Within(q)
      BY <1>4, <1>9, <2>1
    <2>3. v \in Int
      BY <1>6
    <2>4. QED
      BY <1>1, <1>2, <2>1, <2>2, <2>3
  <1> HIDE DEF S
  <1>11. Least(S) \in S /\ Least(S) <= pathCost[x] /\ pathCost[x] <= Least(S)
    BY <1>5, <1>6, <1>10, LeastFits
  <1>12. pathCost[x] = Least(S)
    <2>1. Least(S) \in Nat
      BY <1>6, <1>11
    <2>2. pathCost[x] \in Int
      BY <1>1
    <2> DEFINE l == Least(S)
               c == pathCost[x]
    <2> HIDE DEF l, c
    <2>3. l \in Int /\ c \in Int /\ l <= c /\ c <= l
      BY <1>11, <2>1, <2>2 DEF l, c
    <2>4. c = l
      BY <2>3
    <2>5. QED
      BY <2>4 DEF l, c
  <1>13. QED
    BY <1>12 DEF S

(* What holds whenever costs stay below Huge, of the paths as well.        *)
SettledInv == SpreadInv /\ \E w : IsWalks(w) /\ Settled(w)

(* Every step reaches nodes in the order of their costs.                   *)
LEMMA SettledStep == SettledInv /\ [Next]_svars => SettledInv'
  <1> SUFFICES ASSUME SettledInv, [Next]_svars
               PROVE  SettledInv'
    OBVIOUS
  <1>1. SpreadInv'
    BY SpreadStep DEF SettledInv
  <1>2. Kept /\ Inv
    BY StepCases DEF Kept, svars, inputs, SettledInv, SpreadInv
  <1>3. PICK w : IsWalks(w) /\ Settled(w)
    BY DEF SettledInv
  <1>4. IsWalks(w)'
    BY <1>2, <1>3, MeasuresKept
  <1>5. Exact' <=> Exact
    BY <1>2, MeasuresKept DEF Exact
  <1>6. Settled(w)'
    <2>1. CASE BeginSink(TheNet)
      BY <2>1, <1>2, <1>3, BeginSinkSettles
    <2>2. CASE PopStale(TheNet)
      BY <2>2, <1>3, <1>5 DEF PopStale, Popped, nodeMarks, Settled
    <2>3. CASE PopExpand(TheNet)
      <3>1. CASE Exact
        BY <2>3, <3>1, <1>2, <1>3, PopExpandSettles
      <3>2. CASE ~Exact
        BY <3>2, <1>5 DEF Settled
      <3>3. QED
        BY <3>1, <3>2
    <2>4. CASE \/ BeginNet(TheNet, occ) \/ SkipSink(TheNet)
               \/ ReachSink(TheNet) \/ FinishNet(TheNet) \/ FailSearch(TheNet)
      <3>1. spc' \in {"sink", "routed", "unroutable"}
        BY <2>4 DEF BeginNet, SkipSink, ReachSink, FinishNet, FailSearch
      <3>2. QED
        BY <3>1 DEF Settled
    <2>5. CASE UNCHANGED svars
      BY <2>5, <1>3, <1>5 DEF Settled, svars, inputs, nodeMarks, searchVars
    <2>6. QED
      BY <2>1, <2>2, <2>3, <2>4, <2>5, StepCases DEF SearchStep
  <1>7. QED
    BY <1>1, <1>4, <1>6 DEF SettledInv

(* Without the distance term, the cost with which the search of a net      *)
(* reaches a node is the least of any path to it inside the net's box.     *)
THEOREM Cheapest == Spec /\ (\E M : CostsBelow(M)) => []SettledAtCheapest
  <1>1. Init /\ (\E M : CostsBelow(M)) => SettledInv
    <2> SUFFICES ASSUME Init, \E M : CostsBelow(M)
                 PROVE  SettledInv
      OBVIOUS
    <2>1. PICK w : IsWalks(w)
      BY InitInputs, WalksExist
    <2>2. Settled(w)
      BY DEF Init, SearchInit, Settled
    <2>3. QED
      BY <2>1, <2>2, SpreadInit DEF SettledInv
  <1>2. SettledInv => SettledAtCheapest
    BY SettledIsCheapest DEF SettledInv, SpreadInv
  <1>3. QED
    BY <1>1, <1>2, SettledStep, PTL DEF Spec
=============================================================================
