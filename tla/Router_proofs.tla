----------------------------- MODULE Router_proofs -----------------------------
(***************************************************************************)
(* The router's loop with its searches negotiates as PathFinder says, and  *)
(* a design that it reports as routed is routed: for every device, netlist *)
(* and set of options that the assumptions of Router admit, where no net   *)
(* is partially routed.  The first part is the invariant of the loop, the  *)
(* second the refinement, step by step; the third takes PathFinder's own   *)
(* invariant back along it and adds what the lists and the pips keep.      *)
(***************************************************************************)
EXTENDS Router, NetSearch_proofs

(* What a netlist and its device must be: a net is either ignored or comes *)
(* without pips and fits the device.                                       *)
Posed == \A n \in Net : ~IsIgnored(n) => nets[n].fixed = <<>> /\ WellPosed(n)

(* What the loop reads and never changes. *)
Given ==
    /\ nets = Netlist
    /\ rrg.switches \in [Node -> SUBSET Node]
    /\ rrg.base \in [Node -> Nat]
    /\ Located
    /\ params.astar \in Nat

Counters ==
    /\ pc \in {"net", "search", "done"}
    /\ itry \in Nat
    /\ idx \in 1..(Len(NetSeq) + 1)
    /\ presFac \in Nat
    /\ occ \in [Node -> Int]
    /\ pres \in [Node -> Nat]
    /\ hist \in [Node -> Nat]

(* Where the search stands: before a net it rests, and at a net it is what *)
(* the steps of a search keep.                                             *)
Phases ==
    /\ pc = "net" => spc = "idle" /\ Resting
    /\ pc = "search" =>
         /\ idx <= Len(NetSeq)
         /\ ~IsIgnored(Cur)
         /\ spc # "idle"
         /\ SearchInv(Cur)
         /\ TreeInv(Cur)
    /\ pc = "done" => spc \in {"idle", "unroutable"}

Searched(n) == spc # "idle" /\ n = Cur

(* The list is a tree with the sinks of n on it. *)
Routed(n) ==
    /\ IsRoute(path[n], nets[n].src)
    /\ ElemsOf(nets[n].sinks) \subseteq ElemsOf(path[n])

(* Whatever net is searched for, the lists of the others are routes or     *)
(* empty, and those that the iteration has passed are not.                 *)
Lists ==
    /\ path \in [Net -> Seq(Node)]
    /\ \A n \in Net : IsIgnored(n) => path[n] = <<>>
    /\ \A n \in Net : ~Searched(n) => path[n] = <<>> \/ Routed(n)
    /\ pc # "done" => \A i \in 1..(idx - 1) : ~IsIgnored(NetSeq[i]) => path[NetSeq[i]] # <<>>

LoopInv == Posed /\ Given /\ Counters /\ Phases /\ Lists
-----------------------------------------------------------------------------
(* The net in hand is a net.                                               *)
LEMMA CurIsNet ==
  ASSUME Counters, idx <= Len(NetSeq)
  PROVE  Cur \in Net
  BY NetlistAssumption DEF Counters, Cur

(* The present cost of a node is a natural, whatever its occupancy.        *)
LEMMA PresCostNat ==
  ASSUME presFac \in Nat, NEW o \in Int, NEW cap \in Nat
  PROVE  PresCost(o, cap) \in Nat
  <1>1. CASE o < cap
    BY <1>1 DEF PresCost
  <1>2. CASE ~(o < cap)
    <2>1. o + 1 - cap \in Nat
      BY <1>2
    <2>2. (o + 1 - cap) * presFac \in Nat
      BY <2>1, ProductNat
    <2>3. QED
      BY <1>2, <2>2 DEF PresCost
  <1>3. QED
    BY <1>1, <1>2

(* Every net's search finds the inputs that it needs.                      *)
LEMMA LoopInputs ==
  ASSUME Given, Counters, NEW n \in Net
  PROVE  InputsFit(n)
  <1>1. \A x \in Node : CongCost(x) \in Nat
    <2> SUFFICES ASSUME NEW x \in Node
                 PROVE  CongCost(x) \in Nat
      OBVIOUS
    <2>1. rrg.base[x] \in Nat /\ hist[x] \in Nat /\ pres[x] \in Nat
      BY DEF Given, Counters
    <2>2. rrg.base[x] * hist[x] \in Nat
      BY <2>1, ProductNat
    <2>3. rrg.base[x] * hist[x] * pres[x] \in Nat
      BY <2>1, <2>2, ProductNat
    <2>4. QED
      BY <2>3 DEF CongCost
  <1>2. \A x, y \in Node : Distance(x, y) \in Nat
    BY DistanceNat DEF Given
  <1>3. QED
    BY <1>1, <1>2, NetlistAssumption DEF InputsFit, Given

(* The costs are reckoned in naturals after a net has been counted.        *)
LEMMA CountingFits ==
  ASSUME Counters, path \in [Net -> Seq(Node)], Cur \in Net, NEW d \in Int
  PROVE  /\ OccAfter(d) \in [Node -> Int]
         /\ \A o \in [Node -> Int] : PresAfter(o) \in [Node -> Nat]
  <1>1. ASSUME NEW x \in Node
        PROVE  VisitCounts(path[Cur])[x] \in Nat
    <2> DEFINE p == path[Cur]
               V == {j \in Visited(p, 1) : p[j] = x}
    <2>1. p \in Seq(Node) /\ Len(p) \in Nat
      OBVIOUS
    <2>2. Visited(p, 1) \subseteq 1..Len(p)
      BY DEF Visited
    <2>3. V \in SUBSET (1..Len(p)) /\ IsFiniteSet(1..Len(p))
      BY <2>1, <2>2, FS_Interval
    <2>4. Cardinality(V) \in Nat
      BY <2>3, FS_Subset, FS_CardinalityType
    <2>5. VisitCounts(p)[x] = Cardinality(V)
      BY DEF VisitCounts
    <2>6. QED
      BY <2>4, <2>5
  <1>2. OccAfter(d) \in [Node -> Int]
    <2>1. \A x \in Node : occ[x] + d * VisitCounts(path[Cur])[x] \in Int
      <3> TAKE x \in Node
      <3> DEFINE v == VisitCounts(path[Cur])[x]
      <3>1. v \in Nat
        BY <1>1
      <3> HIDE DEF v
      <3>2. d * v \in Int
        BY <3>1
      <3>3. occ[x] \in Int
        BY DEF Counters
      <3>4. QED
        BY <3>2, <3>3 DEF v
    <2>2. QED
      BY <2>1 DEF OccAfter
  <1>3. \A o \in [Node -> Int] : PresAfter(o) \in [Node -> Nat]
    <2> SUFFICES ASSUME NEW o \in [Node -> Int], NEW x \in Node
                 PROVE  PresCost(o[x], Capacity[x]) \in Nat /\ pres[x] \in Nat
      BY DEF PresAfter
    <2>1. Capacity[x] \in Nat /\ presFac \in Nat /\ o[x] \in Int
      BY ParamAssumption DEF Counters
    <2>2. QED
      BY <2>1, PresCostNat DEF Counters
  <1>4. QED
    BY <1>2, <1>3

(* Where a node occurs in the pips that the nets came with: finitely often, *)
(* and at least once per net that came with it.                            *)
Places(x) ==
    UNION {{<<n, i>> : i \in {j \in DOMAIN Netlist[n].fixed : Netlist[n].fixed[j] = x}}
             : n \in Net}

(* Their number is a natural, no less than the number of those nets.       *)
LEMMA PlacesCounted ==
  ASSUME NEW x
  PROVE  /\ IsFiniteSet(Places(x)) /\ Cardinality(Places(x)) \in Nat
         /\ LET N == {n \in Net : x \in ElemsOf(Netlist[n].fixed)}
            IN  /\ IsFiniteSet(N) /\ Cardinality(N) \in Nat
                /\ Cardinality(N) <= Cardinality(Places(x))
  <1> DEFINE At(n) == {j \in DOMAIN Netlist[n].fixed : Netlist[n].fixed[j] = x}
             F(n)  == {<<n, i>> : i \in At(n)}
             N     == {n \in Net : x \in ElemsOf(Netlist[n].fixed)}
             P     == UNION {F(n) : n \in Net}
  <1>1. ASSUME NEW n \in Net
        PROVE  IsFiniteSet(F(n))
    <2> DEFINE L == Len(Netlist[n].fixed)
    <2>1. L \in Nat /\ DOMAIN Netlist[n].fixed = 1..L
      BY NetlistAssumption
    <2>2. At(n) \in SUBSET (1..L) /\ IsFiniteSet(1..L)
      BY <2>1, FS_Interval
    <2>3. IsFiniteSet(At(n))
      BY <2>2, FS_Subset
    <2> DEFINE f == [i \in At(n) |-> <<n, i>>]
    <2>4. f \in [At(n) -> F(n)] /\ \A t \in F(n) : \E i \in At(n) : f[i] = t
      OBVIOUS
    <2> HIDE DEF At, F, f
    <2>5. QED
      BY <2>3, <2>4, ValuesFinite
  <1>2. IsFiniteSet(P)
    <2>1. IsFiniteSet({F(n) : n \in Net})
      <3> HIDE DEF F
      <3> DEFINE f == [n \in Net |-> F(n)]
                 T == {F(n) : n \in Net}
      <3>1. f \in [Net -> T] /\ \A t \in T : \E n \in Net : f[n] = t
        OBVIOUS
      <3> HIDE DEF f, T
      <3>2. IsFiniteSet(T)
        BY <3>1, NetlistAssumption, ValuesFinite
      <3>3. QED
        BY <3>2 DEF T
    <2>2. \A T \in {F(n) : n \in Net} : IsFiniteSet(T)
      <3> HIDE DEF F
      <3> QED
        BY <1>1
    <2> HIDE DEF F
    <2>3. QED
      BY <2>1, <2>2, FS_UNION
  <1>3. Places(x) = P
    BY DEF Places
  <1>4. \A n \in N : \E i : <<n, i>> \in P
    <2> SUFFICES ASSUME NEW n \in N
                 PROVE  \E i : <<n, i>> \in P
      OBVIOUS
    <2>1. PICK i \in At(n) : TRUE
      BY DEF ElemsOf
    <2>2. <<n, i>> \in F(n) /\ n \in Net
      BY <2>1
    <2>3. QED
      BY <2>2
  <1> DEFINE g == [n \in N |-> CHOOSE e \in P : \E i : e = <<n, i>>]
  <1>5. \A n \in N : g[n] \in P /\ \E i : g[n] = <<n, i>>
    <2> HIDE DEF P
    <2>1. QED
      BY <1>4
  <1>6. g \in Injection(N, P)
    <2>1. g \in [N -> P]
      BY <1>5
    <2>2. \A m, n \in N : g[m] = g[n] => m = n
      <3> HIDE DEF g, N, P
      <3> QED
        BY <1>5
    <2> HIDE DEF g, N, P
    <2>3. QED
      BY <2>1, <2>2 DEF Injection, IsInjective
  <1> HIDE DEF g, N, P
  <1>7. QED
    BY <1>2, <1>3, <1>6, FS_Injection, FS_CardinalityType DEF N

(* The loop begins with nothing routed and nothing marked.                 *)
LEMMA LoopInvInit == Init /\ Posed => LoopInv
  <1> SUFFICES ASSUME Init, Posed
               PROVE  LoopInv
    OBVIOUS
  <1>1. Given
    <2>1. PICK d \in Devices : rrg = Initialized(d, params.bcost)
      BY DEF Init
    <2>2. params \in Options
      BY DEF Init
    <2>3. /\ rrg.switches = d.switches /\ rrg.fromPos = d.fromPos /\ rrg.toPos = d.toPos
          /\ rrg.base = Initialized(d, params.bcost).base
      BY <2>1 DEF Initialized
    <2>4. QED
      BY <2>2, <2>3, DeviceAssumption, ParamAssumption DEF Init, Given, Located
  <1>2. \A x \in Node : InitialOcc(x) \in Nat
    <2>1. \A x : InitialOcc(x) = Cardinality(Places(x))
      BY DEF Init, InitialOcc, Places
    <2>2. QED
      BY <2>1, PlacesCounted
  <1>3. Counters
    BY <1>2, NetlistAssumption, ParamAssumption DEF Init, SearchInit, Counters
  <1>4. Phases
    <2>1. Marks
      BY HugeAssumption DEF Init, SearchInit, Marks
    <2>2. QED
      BY <2>1 DEF Init, SearchInit, Phases, Resting
  <1>5. Lists
    BY NetlistAssumption DEF Init, SearchInit, Lists, Searched
  <1>6. QED
    BY <1>1, <1>3, <1>4, <1>5 DEF LoopInv
-----------------------------------------------------------------------------
(* The loop never touches the inputs.                                      *)
LEMMA InputsStay ==
  ASSUME [Next]_vars
  PROVE  UNCHANGED inputs
  BY DEF Next, SkipNet, RipUp, Search, Commit, Unroutable, Succeed, NextIteration, Returned,
         vars, svars

(* What the inputs are like is so forever.                                 *)
LEMMA PosedStays ==
  ASSUME UNCHANGED inputs, Posed, Given
  PROVE  Posed' /\ Given'
  <1>1. nets' = nets /\ rrg' = rrg /\ params' = params
    BY DEF inputs
  <1>2. \A n \in Net : WellPosed(n) => WellPosed(n)'
    BY WellPosedKept
  <1>3. Posed'
    BY <1>1, <1>2 DEF Posed, IsIgnored
  <1>4. Given'
    BY <1>1 DEF Given, Located
  <1>5. QED
    BY <1>3, <1>4

(* A route that is left alone stays one.                                   *)
LEMMA RoutedStays ==
  ASSUME UNCHANGED inputs, NEW n, path'[n] = path[n]
  PROVE  Routed(n)' <=> Routed(n)
  <1>1. nets' = nets /\ rrg' = rrg /\ \A x : IsSink(x)' <=> IsSink(x)
    BY RouteKept
  <1>2. QED
    BY <1>1 DEF Routed, IsRoute, IsWalk, Fresh

(* A list that is a route is not empty.                                    *)
LEMMA RouteNotEmpty ==
  ASSUME NEW p, NEW s, IsRoute(p, s)
  PROVE  p # <<>>
  BY DEF IsRoute, IsWalk, NonEmpty

(* Steps between two searches that leave the lists alone.                  *)
LEMMA ListsKept ==
  ASSUME UNCHANGED inputs, Lists, path' = path, UNCHANGED spc, spc = "idle",
         pc' # "done" => \A i \in 1..(idx' - 1) :
                            (i \in 1..(idx - 1) /\ pc # "done") \/ IsIgnored(NetSeq[i])
  PROVE  Lists'
  <1>1. nets' = nets
    BY DEF inputs
  <1>2. \A n : IsIgnored(n)' <=> IsIgnored(n)
    BY <1>1 DEF IsIgnored
  <1>3. \A n \in Net : Routed(n)' <=> Routed(n)
    BY RoutedStays
  <1>4. QED
    BY <1>2, <1>3 DEF Lists, Searched

(* A net that is ignored is passed over.                                   *)
LEMMA SkipNetLoops ==
  ASSUME LoopInv, SkipNet
  PROVE  LoopInv'
  <1>1. UNCHANGED inputs /\ Posed' /\ Given'
    BY PosedStays DEF LoopInv, SkipNet, svars
  <1>2. Counters'
    BY NetlistAssumption DEF LoopInv, Counters, SkipNet, svars
  <1>3. Phases'
    BY DEF LoopInv, Phases, SkipNet, svars, nodeMarks, searchVars, Resting, Marks
  <1>4. Lists'
    <2>1. /\ pc = "net" /\ pc' = pc /\ path' = path /\ spc' = spc /\ spc = "idle"
          /\ idx' = idx + 1 /\ IsIgnored(NetSeq[idx]) /\ idx \in Nat
      BY DEF LoopInv, Counters, Phases, SkipNet, svars, searchVars, Cur
    <2>2. \A i \in 1..(idx' - 1) : i \in 1..(idx - 1) \/ IsIgnored(NetSeq[i])
      BY <2>1
    <2>3. QED
      BY <1>1, <2>1, <2>2, ListsKept DEF LoopInv
  <1>5. QED
    BY <1>1, <1>2, <1>3, <1>4 DEF LoopInv

(* Steps of the net in hand leave the lists of the others alone.           *)
LEMMA OtherLists ==
  ASSUME UNCHANGED inputs, Lists, Counters, Cur \in Net, ~IsIgnored(Cur), Cur' = Cur,
         idx' = idx, idx <= Len(NetSeq), pc # "done", spc' # "idle",
         path' \in [Net -> Seq(Node)], \A n \in Net : n # Cur => path'[n] = path[n]
  PROVE  Lists'
  <1>1. nets' = nets
    BY DEF inputs
  <1>2. \A n : IsIgnored(n)' <=> IsIgnored(n)
    BY <1>1 DEF IsIgnored
  <1>3. \A n \in Net : n # Cur => (Routed(n)' <=> Routed(n))
    BY RoutedStays
  <1>4. \A i \in 1..(idx - 1) : NetSeq[i] # Cur /\ NetSeq[i] \in Net
    <2>1. /\ idx \in Nat /\ idx \in DOMAIN NetSeq
          /\ \A i \in 1..(idx - 1) : i \in DOMAIN NetSeq /\ i # idx
      BY NetlistAssumption DEF Counters
    <2>2. QED
      BY <2>1, NetlistAssumption DEF Cur
  <1>5. \A n \in Net : n # Cur => ~Searched(n)
    BY DEF Searched
  <1>6. \A n \in Net : ~Searched(n)' => n # Cur
    BY DEF Searched
  <1>7. QED
    BY <1>2, <1>3, <1>4, <1>5, <1>6 DEF Lists

(* A net that is ripped up is searched for from a clean slate.             *)
LEMMA RipUpLoops ==
  ASSUME LoopInv, RipUp
  PROVE  LoopInv'
  <1>1. UNCHANGED inputs /\ Posed' /\ Given'
    BY PosedStays DEF LoopInv, RipUp
  <1>2. /\ Cur \in Net /\ ~IsIgnored(Cur) /\ Cur' = Cur /\ idx <= Len(NetSeq)
        /\ pc = "net" /\ pc' = "search" /\ idx' = idx /\ spc = "idle" /\ Resting
        /\ BeginNet(Cur, OccAfter(-1))
        /\ InputsFit(Cur) /\ WellPosed(Cur)
    BY CurIsNet, LoopInputs DEF LoopInv, Phases, Posed, RipUp, Cur
  <1>3. Counters'
    <2>1. /\ OccAfter(-1) \in [Node -> Int]
          /\ \A o \in [Node -> Int] : PresAfter(o) \in [Node -> Nat]
      BY <1>2, CountingFits DEF LoopInv, Lists
    <2>2. pres' \in [Node -> Nat]
      BY <2>1 DEF RipUp
    <2>3. occ' \in [Node -> Int]
      <3>1. ~IsPartial(Cur)
        BY <1>2 DEF LoopInv, Posed, IsPartial, PartlyRouted
      <3>2. QED
        BY <1>2, <2>1, <3>1 DEF BeginNet
    <2>4. QED
      BY <2>2, <2>3 DEF LoopInv, Counters, RipUp
  <1>4. Phases'
    <2>1. SearchInv(Cur)'
      <3> DEFINE c == Cur
      <3>1. SearchInv(Cur)'
        BY <1>1, <1>2, BeginNetKeeps
      <3>2. QED
        BY <3>1
    <2>2. TreeInv(Cur)'
      BY <1>1, <1>2, BeginNetGrows
    <2>3. QED
      BY <1>1, <1>2, <2>1, <2>2 DEF Phases, IsIgnored, BeginNet, inputs
  <1>5. Lists'
    <2>1. path' \in [Net -> Seq(Node)] /\ \A n \in Net : n # Cur => path'[n] = path[n]
      <3>1. (IF IsPartial(Cur) THEN nets[Cur].fixed ELSE <<>>) \in Seq(Node)
        BY <1>2 DEF InputsFit
      <3>2. path \in [Net -> Seq(Node)]
        BY DEF LoopInv, Lists
      <3>3. QED
        BY <1>2, <3>1, <3>2 DEF BeginNet
    <2>2. spc' # "idle" /\ nets' = nets
      BY <1>1, <1>2 DEF BeginNet, inputs
    <2>3. QED
      BY <1>1, <1>2, <2>1, <2>2, OtherLists DEF LoopInv
  <1>6. QED
    BY <1>1, <1>3, <1>4, <1>5 DEF LoopInv

(* A step of the search changes the list of the net in hand only.          *)
LEMMA SearchLoops ==
  ASSUME LoopInv, Search
  PROVE  LoopInv'
  <1>1. UNCHANGED inputs /\ Posed' /\ Given' /\ Kept
    BY PosedStays DEF LoopInv, Search, Kept
  <1>2. /\ Cur \in Net /\ ~IsIgnored(Cur) /\ Cur' = Cur /\ idx <= Len(NetSeq)
        /\ pc = "search" /\ pc' = "search" /\ idx' = idx /\ spc # "idle"
        /\ SearchStep(Cur) /\ SearchInv(Cur) /\ TreeInv(Cur)
        /\ InputsFit(Cur) /\ WellPosed(Cur)
    BY CurIsNet, LoopInputs DEF LoopInv, Phases, Posed, Search, loopVars, Cur
  <1>3. SearchInv(Cur)' /\ TreeInv(Cur)'
    BY <1>1, <1>2, SearchStepKeeps, SearchStepGrows
  <1>4. spc' # "idle" /\ occ' = occ
    BY <1>2 DEF SearchStep, SkipSink, BeginSink, PopStale, PopExpand, ReachSink, FailSearch,
                FinishNet
  <1>5. Counters'
    BY <1>4 DEF LoopInv, Counters, Search, loopVars
  <1>6. Phases'
    BY <1>1, <1>2, <1>3, <1>4 DEF Phases, IsIgnored, inputs
  <1>7. Lists'
    <2>1. path' \in [Net -> Seq(Node)]
      BY <1>3 DEF SearchInv, Types, Marks
    <2>2. \A n \in Net : n # Cur => path'[n] = path[n]
      BY <1>2, OthersKept DEF SearchInv
    <2>3. QED
      BY <1>1, <1>2, <1>4, <2>1, <2>2, OtherLists DEF LoopInv
  <1>8. QED
    BY <1>1, <1>5, <1>6, <1>7 DEF LoopInv

(* A net whose search has ended well has a route when it is counted.       *)
LEMMA CommitLoops ==
  ASSUME LoopInv, Commit
  PROVE  LoopInv'
  <1>1. UNCHANGED inputs /\ Posed' /\ Given'
    BY PosedStays DEF LoopInv, Commit
  <1>2. /\ Cur \in Net /\ ~IsIgnored(Cur) /\ idx \in 1..Len(NetSeq) /\ idx' = idx + 1
        /\ pc = "search" /\ pc' = "net" /\ spc = "routed" /\ spc' = "idle"
        /\ SearchInv(Cur) /\ TreeInv(Cur) /\ nets[Cur].fixed = <<>>
    BY CurIsNet DEF LoopInv, Counters, Phases, Posed, Commit
  <1>3. Routed(Cur) /\ path[Cur] # <<>>
    BY <1>2, RouteNotEmpty DEF TreeInv, RouteDone, Routed
  <1>4. Counters'
    <2>1. /\ OccAfter(1) \in [Node -> Int]
          /\ \A o \in [Node -> Int] : PresAfter(o) \in [Node -> Nat]
      BY <1>2, CountingFits DEF LoopInv, Lists
    <2>2. occ' = OccAfter(1) /\ pres' = PresAfter(OccAfter(1))
      BY DEF Commit
    <2>3. pres' \in [Node -> Nat]
      BY <2>1, <2>2
    <2>4. QED
      BY <1>2, <2>1, <2>2, <2>3, NetlistAssumption DEF LoopInv, Counters, Commit
  <1>5. Phases'
    <2>1. Resting
      BY <1>2, IdleRests
    <2>2. Resting'
      BY <2>1 DEF Resting, Marks, Commit, nodeMarks
    <2>3. QED
      BY <1>2, <2>2 DEF Phases
  <1>6. Lists'
    <2>1. path' = path /\ nets' = nets
      BY <1>1 DEF Commit, inputs
    <2>2. \A n \in Net : (Routed(n)' <=> Routed(n)) /\ (IsIgnored(n)' <=> IsIgnored(n))
      BY <1>1, <2>1, RoutedStays DEF IsIgnored
    <2>3. \A n \in Net : ~Searched(n)' /\ (Searched(n) => n = Cur)
      BY <1>2 DEF Searched
    <2>4. \A i \in 1..(idx' - 1) : i \in 1..(idx - 1) \/ NetSeq[i] = Cur
      BY <1>2 DEF Cur
    <2>5. QED
      BY <1>2, <1>3, <2>1, <2>2, <2>3, <2>4 DEF LoopInv, Lists, IsIgnored
  <1>7. QED
    BY <1>1, <1>4, <1>5, <1>6 DEF LoopInv

(* A step that leaves the search alone and ends the call.                  *)
LEMMA EndLoops ==
  ASSUME LoopInv, UNCHANGED <<svars, itry, idx, presFac>>, pc' = "done",
         spc \in {"idle", "unroutable"}
  PROVE  LoopInv'
  <1>1. UNCHANGED inputs /\ Posed' /\ Given'
    BY PosedStays DEF LoopInv, svars
  <1>2. /\ path' = path /\ spc' = spc /\ idx' = idx /\ occ' = occ /\ pres' = pres
        /\ hist' = hist /\ itry' = itry /\ presFac' = presFac /\ nets' = nets
    BY DEF svars, searchVars, inputs
  <1>3. Counters'
    BY <1>2 DEF LoopInv, Counters
  <1>4. Phases'
    BY <1>2 DEF Phases
  <1>5. Lists'
    <2>1. \A n \in Net : (Routed(n)' <=> Routed(n)) /\ (IsIgnored(n)' <=> IsIgnored(n))
      BY <1>1, <1>2, RoutedStays DEF IsIgnored
    <2>2. \A n \in Net : Searched(n)' <=> Searched(n)
      BY <1>2 DEF Searched, Cur
    <2>3. QED
      BY <1>2, <2>1, <2>2 DEF LoopInv, Lists
  <1>6. QED
    BY <1>1, <1>3, <1>4, <1>5 DEF LoopInv

(* The next iteration starts at the first net with dearer nodes.           *)
LEMMA NextIterationLoops ==
  ASSUME LoopInv, NextIteration
  PROVE  LoopInv'
  <1>1. UNCHANGED inputs /\ Posed' /\ Given'
    BY PosedStays DEF LoopInv, NextIteration
  <1>2. /\ path' = path /\ spc' = spc /\ spc = "idle" /\ Resting
        /\ pc = "net" /\ idx' = 1 /\ occ' = occ /\ pc' \in {"net", "done"}
    BY DEF LoopInv, Phases, NextIteration, searchVars
  <1>3. presFac' \in Nat
    BY ProductNat, ParamAssumption DEF LoopInv, Counters, NextIteration
  <1>4. hist' \in [Node -> Nat]
    <2> SUFFICES ASSUME NEW x \in Node, Overused(x)
                 PROVE  hist[x] + (occ[x] - Capacity[x]) * HistFac * 2 \in Nat
      BY DEF NextIteration, HistCost, LoopInv, Counters
    <2>1. occ[x] - Capacity[x] \in Nat
      BY ParamAssumption DEF Overused, LoopInv, Counters
    <2>2. (occ[x] - Capacity[x]) * HistFac \in Nat
      BY <2>1, ProductNat, ParamAssumption
    <2>3. QED
      BY <2>2 DEF LoopInv, Counters
  <1>5. pres' \in [Node -> Nat]
    <2> SUFFICES ASSUME NEW x \in Node, occ[x] >= Capacity[x]
                 PROVE  2 + (occ[x] + 1 - Capacity[x]) * presFac' \in Nat
      BY DEF NextIteration, LoopInv, Counters
    <2>1. occ[x] + 1 - Capacity[x] \in Nat
      BY ParamAssumption DEF LoopInv, Counters
    <2>2. (occ[x] + 1 - Capacity[x]) * presFac' \in Nat
      BY <2>1, <1>3, ProductNat
    <2>3. QED
      BY <2>2
  <1>6. Counters'
    BY <1>2, <1>3, <1>4, <1>5, NetlistAssumption DEF LoopInv, Counters, NextIteration
  <1>7. Phases'
    BY <1>2 DEF Phases, Resting, Marks, NextIteration, nodeMarks, searchVars
  <1>8. Lists'
    BY <1>1, <1>2, ListsKept DEF LoopInv
  <1>9. QED
    BY <1>1, <1>6, <1>7, <1>8 DEF LoopInv

(* Every step of the loop keeps what the search relies on.                 *)
LEMMA LoopInvStep == LoopInv /\ [Next]_vars => LoopInv'
  <1> SUFFICES ASSUME LoopInv, [Next]_vars
               PROVE  LoopInv'
    OBVIOUS
  <1>1. CASE Unroutable
    BY <1>1, EndLoops DEF Unroutable, LoopInv
  <1>2. CASE Succeed
    BY <1>2, EndLoops DEF Succeed, LoopInv, Phases
  <1>3. CASE UNCHANGED vars
    <2>1. UNCHANGED inputs /\ Posed' /\ Given'
      BY <1>3, PosedStays DEF LoopInv, vars, svars
    <2>2. Counters'
      BY <1>3 DEF LoopInv, Counters, vars, svars, loopVars
    <2>3. Phases'
      <3>1. Cur' = Cur
        BY <1>3 DEF vars, loopVars, Cur
      <3>2. Phases
        BY DEF LoopInv
      <3>3. /\ SearchInv(Cur) => SearchInv(Cur)'
            /\ TreeInv(Cur) => TreeInv(Cur)'
        BY <1>3, <3>1, StutterKeeps DEF vars
      <3>4. QED
        BY <1>3, <3>1, <3>2, <3>3 DEF vars, svars, inputs, nodeMarks, searchVars, loopVars,
                          Phases, Resting, Marks, IsIgnored
    <2>4. Lists'
      <3>1. path' = path /\ Cur' = Cur /\ spc' = spc /\ nets' = nets /\ pc' = pc /\ idx' = idx
        BY <1>3 DEF vars, svars, inputs, searchVars, loopVars, Cur
      <3>2. \A n \in Net : (Routed(n)' <=> Routed(n)) /\ (IsIgnored(n)' <=> IsIgnored(n))
        BY <2>1, <3>1, RoutedStays DEF IsIgnored
      <3>3. QED
        BY <3>1, <3>2 DEF LoopInv, Lists, Searched, IsIgnored
    <2>5. QED
      BY <2>1, <2>2, <2>3, <2>4 DEF LoopInv
  <1>4. QED
    BY <1>1, <1>2, <1>3, SkipNetLoops, RipUpLoops, SearchLoops, CommitLoops,
       NextIterationLoops DEF Next, Returned
-----------------------------------------------------------------------------
(* Counting the list of the net in hand counts each of its nodes once.     *)
LEMMA CountsOnce ==
  ASSUME path[Cur] = <<>> \/ Routed(Cur), NEW x \in Node
  PROVE  VisitCounts(path[Cur])[x] = IF x \in ElemsOf(path[Cur]) THEN 1 ELSE 0
  <1> DEFINE p == path[Cur]
  <1>1. CASE x \in ElemsOf(p)
    <2>1. p # <<>>
      BY <1>1 DEF ElemsOf
    <2>2. IsRoute(p, nets[Cur].src)
      BY <2>1 DEF Routed
    <2>3. QED
      BY <1>1, <2>2, RouteCounted
  <1>2. CASE x \notin ElemsOf(p)
    <2>1. p = <<>> \/ p \in Seq(Node)
      BY DEF Routed, IsRoute, IsWalk, NonEmpty
    <2>2. \A j \in Visited(p, 1) : j \in DOMAIN p
      <3>1. Visited(p, 1) \subseteq 1..Len(p)
        BY DEF Visited
      <3>2. QED
        BY <2>1, <3>1
    <2>3. {j \in Visited(p, 1) : p[j] = x} = {}
      BY <1>2, <2>2 DEF ElemsOf
    <2>4. VisitCounts(p)[x] = Cardinality({})
      BY <2>3 DEF VisitCounts
    <2>5. QED
      BY <1>2, <2>4, FS_EmptySet
  <1>3. QED
    BY <1>1, <1>2

(* path_update_one_cost over the list is what PathFinder does to its nodes. *)
LEMMA CountsAsNodes ==
  ASSUME Counters, path[Cur] = <<>> \/ Routed(Cur), NEW d \in {-1, 1}
  PROVE  /\ OccAfter(d) = PF!OccBy(ElemsOf(path[Cur]), d)
         /\ PresAfter(OccAfter(d)) = PF!PresOn(ElemsOf(path[Cur]), OccAfter(d))
  <1> DEFINE S == ElemsOf(path[Cur])
  <1>1. \A x \in Node : occ[x] \in Int
    BY DEF Counters
  <1>2. \A x \in Node : OccAfter(d)[x] = IF x \in S THEN occ[x] + d ELSE occ[x]
    <2> TAKE x \in Node
    <2>1. OccAfter(d)[x] = occ[x] + d * VisitCounts(path[Cur])[x]
      BY DEF OccAfter
    <2>2. VisitCounts(path[Cur])[x] = IF x \in S THEN 1 ELSE 0
      BY CountsOnce
    <2> HIDE DEF S
    <2>3. QED
      BY <1>1, <2>1, <2>2
  <1> HIDE DEF S
  <1>3. OccAfter(d) = [x \in Node |-> IF x \in S THEN occ[x] + d ELSE occ[x]]
    BY <1>2 DEF OccAfter
  <1>4. OccAfter(d) = PF!OccBy(S, d)
    BY <1>3 DEF PF!OccBy
  <1>5. \A x \in Node : x \in S => OccAfter(d)[x] # occ[x]
    BY <1>1, <1>2
  <1>6. \A o, c : PresCost(o, c) = PF!PresCost(o, c, presFac)
    BY DEF PresCost, PF!PresCost, PF!One
  <1>7. PresAfter(OccAfter(d)) = PF!PresOn(S, OccAfter(d))
    BY <1>5, <1>6 DEF PresAfter, PF!PresOn, S
  <1>8. QED
    BY <1>4, <1>7 DEF S

(* A net is ignored, and partially routed, for PathFinder as for the loop. *)
LEMMA SameNets ==
  ASSUME Given
  PROVE  /\ \A n \in Net : n \in IgnoredNets <=> IsIgnored(n)
         /\ \A n \in Net : PartlyRouted(Netlist[n]) <=> IsPartial(n)
  BY DEF Given, IgnoredNets, IsIgnored, IsPartial

(* Passing over a net is the same step in both.                            *)
LEMMA SkipNetNegotiates ==
  ASSUME LoopInv, SkipNet
  PROVE  PF!SkipNet
  <1>1. Cur \in Net /\ spc = "idle"
    BY CurIsNet DEF LoopInv, Phases, SkipNet
  <1>2. Cur \in IgnoredNets
    BY <1>1, SameNets DEF LoopInv, SkipNet
  <1>3. spc' = spc /\ path' = path /\ occ' = occ /\ pres' = pres /\ hist' = hist
    BY DEF SkipNet, svars, searchVars
  <1>4. NodesOf' = NodesOf
    BY <1>1, <1>3 DEF NodesOf
  <1>5. QED
    BY <1>2, <1>3, <1>4 DEF SkipNet, PF!SkipNet, PF!Cur, Cur, NodesOf

(* What rip-up gives back is the path that PathFinder releases.            *)
LEMMA RipUpNegotiates ==
  ASSUME LoopInv, RipUp
  PROVE  PF!RipUp
  <1>1. /\ Cur \in Net /\ ~IsIgnored(Cur) /\ Cur' = Cur /\ spc = "idle"
        /\ BeginNet(Cur, OccAfter(-1))
    BY CurIsNet DEF LoopInv, Phases, RipUp, Cur
  <1>2. Cur \notin IgnoredNets /\ ~IsPartial(Cur) /\ Cur \notin PartialNets
    BY <1>1, SameNets DEF LoopInv, Posed, IsPartial, PartlyRouted, PartialNets
  <1>3. PF!Cur = Cur
    BY DEF PF!Cur, Cur
  <1>4. NodesOf[Cur] = ElemsOf(path[Cur])
    BY <1>1 DEF NodesOf
  <1>5. PF!Released = ElemsOf(path[Cur])
    BY <1>3, <1>4 DEF PF!Released, NodesOf
  <1>6. path[Cur] = <<>> \/ Routed(Cur)
    BY <1>1 DEF LoopInv, Lists, Searched
  <1>7. /\ OccAfter(-1) = PF!OccBy(PF!Released, -1)
        /\ PresAfter(OccAfter(-1)) = PF!PresOn(PF!Released, PF!OccBy(PF!Released, -1))
    BY <1>5, <1>6, CountsAsNodes DEF LoopInv
  <1>8. NodesOf' = [NodesOf EXCEPT ![Cur] = {}]
    <2>1. spc' # "idle" /\ \A n \in Net : n # Cur => path'[n] = path[n]
      BY <1>1, OthersKept DEF LoopInv, Phases, BeginNet, Lists
    <2>2. QED
      BY <1>1, <2>1 DEF NodesOf
  <1>9. occ' = [x \in Node |-> PF!OccBy(PF!Released, -1)[x]]
    BY <1>1, <1>2, <1>7 DEF BeginNet
  <1>10. QED
    BY <1>1, <1>2, <1>3, <1>7, <1>8, <1>9 DEF RipUp, PF!RipUp, NodesOf

(* A step of a search is none of PathFinder's.                             *)
LEMMA SearchNegotiates ==
  ASSUME LoopInv, Search
  PROVE  UNCHANGED PF!vars
  <1>1. /\ Cur \in Net /\ Cur' = Cur /\ spc # "idle" /\ SearchStep(Cur)
        /\ SearchInv(Cur)
    BY CurIsNet DEF LoopInv, Phases, Search, loopVars, Cur
  <1>2. spc' # "idle" /\ occ' = occ
    BY <1>1 DEF SearchStep, SkipSink, BeginSink, PopStale, PopExpand, ReachSink, FailSearch,
                FinishNet
  <1>3. \A n \in Net : n # Cur => path'[n] = path[n]
    BY <1>1, OthersKept DEF SearchInv
  <1>4. NodesOf' = NodesOf
    BY <1>1, <1>2, <1>3 DEF NodesOf
  <1>5. QED
    BY <1>2, <1>4 DEF Search, loopVars, PF!vars, NodesOf

(* The route that a search has made is one that PathFinder may commit.     *)
LEMMA CommitNegotiates ==
  ASSUME LoopInv, Commit
  PROVE  PF!Cur = Cur /\ \E r \in RouteSets[Cur] : PF!Commit(r)
  <1>1. /\ Cur \in Net /\ spc = "routed" /\ spc' = "idle" /\ path' = path
        /\ TreeInv(Cur) /\ nets = Netlist
    BY CurIsNet DEF LoopInv, Phases, Commit, Given
  <1> DEFINE route == ElemsOf(path[Cur])
  <1>2. Routed(Cur)
    BY <1>1 DEF TreeInv, RouteDone, Routed
  <1>3. route \in RouteSets[Cur]
    <2>1. path[Cur] \in Seq(Node) /\ path[Cur] # <<>> /\ path[Cur][1] = nets[Cur].src
      BY <1>2 DEF Routed, IsRoute, IsWalk, NonEmpty
    <2>2. route \subseteq Node /\ nets[Cur].src \in route
      BY <2>1, ElemsFit DEF ElemsOf
    <2>3. ElemsOf(nets[Cur].sinks) \subseteq route
      BY <1>2 DEF Routed
    <2> HIDE DEF route
    <2>4. route = route \cup {Netlist[Cur].src} \cup ElemsOf(Netlist[Cur].sinks)
      BY <1>1, <2>2, <2>3
    <2>5. QED
      BY <1>1, <2>2, <2>4 DEF RouteSets
  <1>4. PF!Cur = Cur
    BY DEF PF!Cur, Cur
  <1>5. /\ occ' = PF!OccBy(route, 1)
        /\ pres' = PF!PresOn(route, occ')
    <2>1. /\ OccAfter(1) = PF!OccBy(route, 1)
          /\ PresAfter(OccAfter(1)) = PF!PresOn(route, OccAfter(1))
      BY <1>2, CountsAsNodes DEF LoopInv
    <2>2. occ' = OccAfter(1) /\ pres' = PresAfter(OccAfter(1))
      BY DEF Commit
    <2> HIDE DEF route
    <2>3. QED
      BY <2>1, <2>2
  <1>6. NodesOf' = [NodesOf EXCEPT ![Cur] = route]
    <2>1. \A n \in Net : NodesOf'[n] = ElemsOf(path[n])
      BY <1>1 DEF NodesOf
    <2>2. \A n \in Net : n # Cur => NodesOf[n] = ElemsOf(path[n])
      BY DEF NodesOf
    <2>3. NodesOf' = [n \in Net |-> NodesOf'[n]] /\ NodesOf = [n \in Net |-> NodesOf[n]]
      BY DEF NodesOf
    <2> HIDE DEF NodesOf
    <2>4. QED
      BY <1>1, <2>1, <2>2, <2>3
  <1> HIDE DEF route
  <1>7. PICK r \in RouteSets[Cur] : r = route
    BY <1>3
  <1>8. PF!Commit(r)
    BY <1>3, <1>4, <1>5, <1>6, <1>7 DEF Commit, PF!Commit, NodesOf
  <1>9. QED
    BY <1>4, <1>8

(* A search that fails ends both.                                          *)
LEMMA UnroutableNegotiates ==
  ASSUME LoopInv, Unroutable
  PROVE  PF!Unroutable
  <1>1. /\ spc' = spc /\ path' = path /\ Cur' = Cur /\ occ' = occ /\ pres' = pres
        /\ hist' = hist
    BY DEF Unroutable, svars, searchVars, Cur
  <1>2. NodesOf' = NodesOf
    BY <1>1 DEF NodesOf
  <1>3. QED
    BY <1>1, <1>2 DEF Unroutable, PF!Unroutable, NodesOf

(* The verdict on the lists is PathFinder's on their nodes.                *)
LEMMA SameVerdict ==
  ASSUME spc = "idle"
  PROVE  Feasible <=> PF!Feasible
  <1>1. \A n \in Net : NodesOf[n] = ElemsOf(path[n])
    BY DEF NodesOf
  <1>2. PF!Feasible <=> \A n \in Net : \A x \in NodesOf[n] : ~PF!Overused(x)
    BY DEF PF!Feasible, PF!FeasibleNet, NodesOf
  <1>3. \A x : Overused(x) <=> PF!Overused(x)
    BY DEF Overused, PF!Overused
  <1>4. QED
    BY <1>1, <1>2, <1>3 DEF Feasible

(* Both succeed together.                                                  *)
LEMMA SucceedNegotiates ==
  ASSUME LoopInv, Succeed
  PROVE  PF!Succeed
  <1>1. /\ spc = "idle" /\ spc' = spc /\ path' = path /\ occ' = occ /\ pres' = pres
        /\ hist' = hist
    BY DEF LoopInv, Phases, Succeed, svars, searchVars
  <1>2. NodesOf' = NodesOf
    BY <1>1 DEF NodesOf
  <1>3. PF!Feasible
    BY <1>1, SameVerdict DEF Succeed
  <1>4. QED
    BY <1>1, <1>2, <1>3 DEF Succeed, PF!Succeed, NodesOf

(* Both raise the costs alike and begin again.                             *)
LEMMA NextIterationNegotiates ==
  ASSUME LoopInv, NextIteration
  PROVE  PF!NextIteration
  <1>1. /\ spc = "idle" /\ spc' = spc /\ path' = path /\ occ' = occ
    BY DEF LoopInv, Phases, NextIteration, searchVars
  <1>2. NodesOf' = NodesOf
    BY <1>1 DEF NodesOf
  <1>3. ~PF!Feasible
    BY <1>1, SameVerdict DEF NextIteration
  <1>4. PF!UpdateNodesCost(presFac')
    <2>1. hist' = [x \in Node |->
                     IF PF!Overused(x) THEN hist[x] + (occ[x] - Capacity[x]) * HistFac * PF!One
                                       ELSE hist[x]]
      BY DEF NextIteration, HistCost, Overused, PF!Overused, PF!One
    <2>2. \A x \in Node : occ[x] >= Capacity[x] =>
             PF!PresCost(occ[x], Capacity[x], presFac') = 2 + (occ[x] + 1 - Capacity[x]) * presFac'
      BY ParamAssumption DEF PF!PresCost, PF!One, LoopInv, Counters
    <2>3. pres' = [x \in Node |->
                     IF PF!Refreshed(x) THEN PF!PresCost(occ[x], Capacity[x], presFac')
                                        ELSE pres[x]]
      BY <2>2 DEF NextIteration, PF!Refreshed
    <2>4. QED
      BY <2>1, <2>3 DEF PF!UpdateNodesCost
  <1>5. PF!LastIteration <=> ~(itry < MaxIters)
    BY ParamAssumption DEF PF!LastIteration, LoopInv, Counters
  <1>6. QED
    BY <1>1, <1>2, <1>3, <1>4, <1>5 DEF NextIteration, PF!NextIteration, NodesOf

(* Every step of the loop is a step of PathFinder or leaves its state      *)
(* alone.                                                                  *)
LEMMA StepNegotiates == LoopInv /\ [Next]_vars => [PF!Next]_PF!vars
  <1> SUFFICES ASSUME LoopInv, [Next]_vars
               PROVE  PF!Next \/ UNCHANGED PF!vars
    OBVIOUS
  <1>1. CASE SkipNet
    BY <1>1, SkipNetNegotiates DEF PF!Next
  <1>2. CASE RipUp
    BY <1>2, RipUpNegotiates DEF PF!Next
  <1>3. CASE Search
    BY <1>3, SearchNegotiates
  <1>4. CASE Commit
    <2>1. pc = "search"
      BY <1>4 DEF Commit
    <2>2. QED
      BY <1>4, <2>1, CommitNegotiates DEF PF!Next
  <1>5. CASE Unroutable
    BY <1>5, UnroutableNegotiates DEF PF!Next
  <1>6. CASE Succeed
    BY <1>6, SucceedNegotiates DEF PF!Next
  <1>7. CASE NextIteration
    BY <1>7, NextIterationNegotiates DEF PF!Next
  <1>8. CASE UNCHANGED vars
    <2>1. /\ spc' = spc /\ path' = path /\ Cur' = Cur /\ occ' = occ /\ pres' = pres
          /\ hist' = hist /\ pc' = pc /\ itry' = itry /\ idx' = idx /\ presFac' = presFac
          /\ result' = result
      BY <1>8 DEF vars, svars, searchVars, loopVars, Cur
    <2>2. NodesOf' = NodesOf
      BY <2>1 DEF NodesOf
    <2>3. QED
      BY <2>1, <2>2 DEF PF!vars, NodesOf
  <1>9. QED
    BY <1>1, <1>2, <1>3, <1>4, <1>5, <1>6, <1>7, <1>8 DEF Next, Returned

(* The initial states are PathFinder's.                                    *)
LEMMA InitNegotiates == Init => PF!Init
  <1> SUFFICES ASSUME Init
               PROVE  PF!Init
    OBVIOUS
  <1>1. occ = PreOccupied
    BY DEF Init, SearchInit, InitialOcc, PreOccupied
  <1>2. NodesOf = [n \in Net |-> {}]
    BY DEF Init, SearchInit, NodesOf, ElemsOf
  <1>3. QED
    BY <1>1, <1>2 DEF Init, SearchInit, PF!Init, PF!One, NodesOf
-----------------------------------------------------------------------------
(* What the search relies on holds throughout.                             *)
THEOREM LoopInvariance == Spec /\ Posed => []LoopInv
  BY LoopInvInit, LoopInvStep, PTL DEF Spec

(* The loop with its searches is a negotiation, as long as no net is       *)
(* partially routed: PathFinder's theorems are about this loop.            *)
THEOREM RouterNegotiates == Spec /\ Posed => Negotiates
  <1>1. Spec /\ Posed => PF!Spec
    BY LoopInvariance, StepNegotiates, InitNegotiates, PTL DEF Spec, PF!Spec
  <1>2. QED
    BY <1>1 DEF Negotiates
-----------------------------------------------------------------------------
(* What PathFinder's lemmas say of the loop.                               *)
PFP == INSTANCE PathFinder_proofs WITH
         Ignored <- IgnoredNets,
         Partial <- PartialNets,
         Fixed   <- FixedOn,
         PreOcc  <- PreOccupied,
         Routes  <- RouteSets,
         path    <- NodesOf

(* The two instances of PathFinder count alike.                            *)
LEMMA SameSets ==
  ASSUME NEW S
  PROVE  /\ PFP!IsFiniteSet(S) <=> IsFiniteSet(S)
         /\ PFP!Cardinality(S) = Cardinality(S)
  BY DEF PFP!IsFiniteSet, IsFiniteSet, PFP!Cardinality, Cardinality

(* Their steps are the same.                                               *)
LEMMA SameSteps ==
  /\ PF!Init <=> PFP!Init
  /\ [PF!Next]_PF!vars <=> [PFP!Next]_PFP!vars
  <1>1. PFP!Next <=> PF!Next
    BY DEF PFP!Next, PF!Next, PFP!SkipNet, PF!SkipNet, PFP!RipUp, PF!RipUp, PFP!Commit,
           PF!Commit, PFP!Unroutable, PF!Unroutable, PFP!Succeed, PF!Succeed,
           PFP!NextIteration, PF!NextIteration, PFP!Returned, PF!Returned,
           PFP!Cur, PF!Cur, PFP!Released, PF!Released, PFP!OccBy, PF!OccBy,
           PFP!PresOn, PF!PresOn, PFP!PresCost, PF!PresCost, PFP!One, PF!One,
           PFP!Feasible, PF!Feasible, PFP!FeasibleNet, PF!FeasibleNet,
           PFP!Overused, PF!Overused, PFP!UpdateNodesCost, PF!UpdateNodesCost,
           PFP!Refreshed, PF!Refreshed, PFP!LastIteration, PF!LastIteration,
           PFP!vars, PF!vars
  <1>2. UNCHANGED PFP!vars <=> UNCHANGED PF!vars
    BY DEF PFP!vars, PF!vars
  <1>3. QED
    BY <1>1, <1>2 DEF PFP!Init, PF!Init, PFP!One, PF!One

(* The loop's netlist and device are ones that PathFinder may be given.    *)
LEMMA PathFinderFits ==
  ASSUME Posed, Given
  PROVE  /\ PartialNets = {}
         /\ PFP!NetAssumption /\ PFP!NodeAssumption /\ PFP!ParamAssumption
  <1>1. \A n \in Net : n \notin IgnoredNets => Netlist[n].fixed = <<>>
    BY SameNets DEF Posed, Given
  <1>2. PartialNets = {}
    BY <1>1 DEF PartialNets, PartlyRouted
  <1>3. PFP!NetAssumption
    BY <1>2, NetlistAssumption, SameSets DEF PFP!NetAssumption, IgnoredNets
  <1>4. PreOccupied \in [Node -> Nat]
    <2>1. \A x \in Node : PreOccupied[x] = Cardinality(Places(x))
      BY DEF PreOccupied, Places
    <2>2. \A x \in Node : PreOccupied[x] \in Nat
      BY <2>1, PlacesCounted
    <2>3. QED
      BY <2>2 DEF PreOccupied
  <1>5. FixedOn \in [Net -> [Node -> Nat]]
    <2> SUFFICES ASSUME NEW n \in Net, NEW x \in Node
                 PROVE  FixedTimes(Netlist[n], x) \in Nat
      BY DEF FixedOn
    <2> DEFINE I == {i \in DOMAIN Netlist[n].fixed : Netlist[n].fixed[i] = x}
               L == Len(Netlist[n].fixed)
    <2>1. L \in Nat /\ I \in SUBSET (1..L)
      BY NetlistAssumption
    <2>2. IsFiniteSet(1..L)
      BY <2>1, FS_Interval
    <2> HIDE DEF L
    <2>3. Cardinality(I) \in Nat
      BY <2>1, <2>2, FS_Subset, FS_CardinalityType
    <2>4. QED
      BY <2>3 DEF FixedTimes
  <1>6. \A n \in Net : \A x \in Node : n \notin IgnoredNets => FixedOn[n][x] = 0
    <2> SUFFICES ASSUME NEW n \in Net, NEW x \in Node, n \notin IgnoredNets
                 PROVE  FixedTimes(Netlist[n], x) = 0
      BY DEF FixedOn
    <2>1. {i \in DOMAIN Netlist[n].fixed : Netlist[n].fixed[i] = x} = {}
      BY <1>1
    <2>2. QED
      BY <2>1, FS_EmptySet DEF FixedTimes
  <1>7. RouteSets \in [Net -> SUBSET SUBSET Node]
    <2> SUFFICES ASSUME NEW n \in Net, NEW R \in SUBSET Node
                 PROVE  R \cup {Netlist[n].src} \cup ElemsOf(Netlist[n].sinks) \subseteq Node
      BY DEF RouteSets
    <2>1. Netlist[n].src \in Node /\ ElemsOf(Netlist[n].sinks) \subseteq Node
      BY NetlistAssumption, ElemsFit
    <2>2. QED
      BY <2>1
  <1>8. PFP!NodeAssumption
    BY <1>4, <1>5, <1>6, <1>7, ParamAssumption DEF PFP!NodeAssumption
  <1>9. PFP!ParamAssumption
    BY ParamAssumption DEF PFP!ParamAssumption
  <1>10. QED
    BY <1>2, <1>3, <1>8, <1>9

(* PathFinder's inductive invariant is one of the loop.                    *)
LEMMA AccountsInit == LoopInv /\ Init => PFP!IInv
  <1> SUFFICES ASSUME LoopInv, Init
               PROVE  PFP!IInv
    OBVIOUS
  <1>1. PFP!Init
    BY InitNegotiates, SameSteps
  <1>2. PFP!NetAssumption /\ PFP!NodeAssumption /\ PFP!ParamAssumption
    BY PathFinderFits DEF LoopInv
  <1> HIDE DEF PFP!Init, PFP!IInv
  <1>3. QED
    BY <1>1, <1>2, PFP!InductiveInit
    DEF PFP!InductiveInit, PFP!NetAssumption, PFP!NodeAssumption, PFP!ParamAssumption

(* Every step of the loop keeps it, as every step of PathFinder does.      *)
LEMMA AccountsStep == LoopInv /\ PFP!IInv /\ [Next]_vars => PFP!IInv'
  <1> SUFFICES ASSUME LoopInv, PFP!IInv, [Next]_vars
               PROVE  PFP!IInv'
    OBVIOUS
  <1>1. [PFP!Next]_PFP!vars
    BY StepNegotiates, SameSteps
  <1>2. /\ PartialNets = {}
        /\ PFP!NetAssumption /\ PFP!NodeAssumption /\ PFP!ParamAssumption
    BY PathFinderFits DEF LoopInv
  <1> HIDE DEF PFP!Next, PFP!vars, PFP!IInv
  <1>3. QED
    BY <1>1, <1>2, PFP!InductiveStep
    DEF PFP!InductiveStep, PFP!NetAssumption, PFP!NodeAssumption, PFP!ParamAssumption
-----------------------------------------------------------------------------
(* The nets that need no route came with one, and together they fit.       *)
CameComplete ==
    /\ \A n \in Net : IsIgnored(n) =>
         \/ nets[n].fixed = <<>> /\ nets[n].sinks = <<>>
         \/ /\ IsRoute(nets[n].fixed, nets[n].src)
            /\ ElemsOf(nets[n].sinks) \subseteq ElemsOf(nets[n].fixed)
    /\ \A x \in Node :
         Cardinality({n \in Net : x \in ElemsOf(nets[n].fixed)}) <= Capacity[x]

(* The pips are those that the nets came with until the call succeeds; then *)
(* every net that was searched for has a route and the pips of it.         *)
Saved ==
    /\ pc # "done" => result = "none"
    /\ result # "success" => pips = [n \in Net |-> Pips(nets[n].fixed)]
    /\ result = "success" =>
         /\ spc = "idle"
         /\ \A n \in Net : ~IsIgnored(n) => Routed(n)
         /\ pips = [n \in Net |-> IF IsIgnored(n) THEN Pips(nets[n].fixed)
                                                  ELSE Pips(path[n])]

LegalInv == LoopInv /\ CameComplete /\ PFP!IInv /\ Saved

(* The nets that are given do not change.                                  *)
LEMMA CompleteStays ==
  ASSUME CameComplete, UNCHANGED inputs
  PROVE  CameComplete'
  <1>1. nets' = nets /\ rrg' = rrg
    BY DEF inputs
  <1>2. \A x : IsSink(x)' <=> IsSink(x)
    BY <1>1 DEF IsSink, IsIgnored
  <1>3. \A n \in Net : IsRoute(nets[n].fixed, nets[n].src)' <=> IsRoute(nets[n].fixed, nets[n].src)
    BY <1>1, <1>2 DEF IsRoute, IsWalk, Fresh
  <1>4. \A n \in Net : IsIgnored(n)' <=> IsIgnored(n)
    BY <1>1 DEF IsIgnored
  <1>5. QED
    BY <1>1, <1>3, <1>4 DEF CameComplete

(* A step of the loop that leaves the result and the pips alone.           *)
LEMMA SavedKept ==
  ASSUME Saved, UNCHANGED inputs, pc # "done", pips' = pips, result' = result
  PROVE  Saved'
  <1>1. nets' = nets /\ result = "none" /\ \A n \in Net : IsIgnored(n)' <=> IsIgnored(n)
    BY DEF inputs, IsIgnored, Saved
  <1>2. \A n \in Net : Pips(nets[n].fixed)' = Pips(nets[n].fixed)
    BY <1>1 DEF Pips, IsSink, IsIgnored
  <1>3. QED
    BY <1>1, <1>2 DEF Saved

(* Success saves a route for every net that was searched for.              *)
LEMMA SucceedSaves ==
  ASSUME LoopInv, Saved, Succeed
  PROVE  Saved'
  <1>1. /\ spc = "idle" /\ spc' = spc /\ path' = path /\ nets' = nets /\ rrg' = rrg
        /\ UNCHANGED inputs
    BY DEF LoopInv, Phases, Succeed, svars, searchVars, inputs
  <1>2. ASSUME NEW n \in Net, ~IsIgnored(n)
        PROVE  Routed(n) /\ path[n] # <<>>
    <2>1. PICK i \in DOMAIN NetSeq : NetSeq[i] = n
      BY NetlistAssumption DEF ElemsOf
    <2>2. i \in 1..(idx - 1)
      <3>1. idx > Len(NetSeq) /\ idx \in Nat /\ Len(NetSeq) \in Nat /\ i \in 1..Len(NetSeq)
        BY <2>1, NetlistAssumption DEF LoopInv, Counters, Succeed
      <3>2. QED
        BY <3>1
    <2>3. path[n] # <<>>
      BY <1>2, <2>1, <2>2 DEF LoopInv, Lists, Succeed
    <2>4. QED
      BY <1>1, <2>3 DEF LoopInv, Lists, Searched
  <1>3. \A n \in Net : Routed(n)' <=> Routed(n)
    BY <1>1, RoutedStays
  <1>4. \A n \in Net : /\ Pips(nets[n].fixed)' = Pips(nets[n].fixed)
                       /\ Pips(path[n])' = Pips(path[n])
                       /\ IsIgnored(n)' <=> IsIgnored(n)
    BY <1>1 DEF Pips, IsSink, IsIgnored
  <1>5. ASSUME NEW n \in Net
        PROVE  pips'[n] = IF IsIgnored(n) THEN Pips(nets[n].fixed) ELSE Pips(path[n])
    <2>1. pips[n] = Pips(nets[n].fixed)
      BY DEF Saved, Succeed
    <2>2. CASE IsIgnored(n)
      BY <2>1, <2>2 DEF LoopInv, Lists, Succeed
    <2>3. CASE ~IsIgnored(n)
      <3>1. nets[n].fixed = <<>>
        BY <2>3 DEF LoopInv, Posed
      <3>2. Pips(<<>>) = {}
        BY DEF Pips
      <3>3. ~IsPartial(n)
        BY <3>1 DEF IsPartial, PartlyRouted
      <3>4. QED
        BY <1>2, <2>1, <2>3, <3>1, <3>2, <3>3 DEF Succeed
    <2>4. QED
      BY <2>2, <2>3
  <1>6. pips' = [n \in Net |-> IF IsIgnored(n)' THEN Pips(nets[n].fixed)' ELSE Pips(path[n])']
    BY <1>4, <1>5 DEF Succeed
  <1>7. pc' = "done" /\ result' = "success"
    BY DEF Succeed
  <1>8. QED
    BY <1>1, <1>2, <1>3, <1>4, <1>6, <1>7 DEF Saved

(* What legality rests on holds at the start.                              *)
LEMMA LegalInit == Init /\ Posed /\ CameComplete => LegalInv
  <1> SUFFICES ASSUME Init, Posed, CameComplete
               PROVE  LegalInv
    OBVIOUS
  <1>1. LoopInv
    BY LoopInvInit
  <1>2. Saved
    BY DEF Init, Saved
  <1>3. QED
    BY <1>1, <1>2, AccountsInit DEF LegalInv

(* Every step of the loop keeps it.                                        *)
LEMMA LegalStep == LegalInv /\ [Next]_vars => LegalInv'
  <1> SUFFICES ASSUME LegalInv, [Next]_vars
               PROVE  LegalInv'
    OBVIOUS
  <1>1. LoopInv' /\ PFP!IInv'
    BY LoopInvStep, AccountsStep DEF LegalInv
  <1>2. UNCHANGED inputs
    BY DEF Next, SkipNet, RipUp, Search, Commit, Unroutable, Succeed, NextIteration, Returned,
           vars, svars
  <1>3. CameComplete'
    BY <1>2, CompleteStays DEF LegalInv
  <1>4. Saved'
    <2>1. CASE Succeed
      BY <2>1, SucceedSaves DEF LegalInv
    <2>2. CASE SkipNet \/ RipUp \/ Search \/ Commit
      BY <1>2, <2>2, SavedKept DEF LegalInv, SkipNet, RipUp, Search, Commit, loopVars
    <2>3. CASE Unroutable \/ NextIteration
      <3>1. /\ nets' = nets /\ result = "none" /\ pips' = pips /\ result' # "success"
            /\ pc' # "done" => result' = "none"
        BY <1>2, <2>3 DEF inputs, LegalInv, Saved, Unroutable, NextIteration
      <3>2. \A n \in Net : Pips(nets[n].fixed)' = Pips(nets[n].fixed)
        BY <3>1 DEF Pips, IsSink, IsIgnored
      <3>3. QED
        BY <3>1, <3>2 DEF LegalInv, Saved
    <2>4. CASE UNCHANGED vars
      <3>1. /\ nets' = nets /\ path' = path /\ spc' = spc /\ pc' = pc /\ result' = result
            /\ pips' = pips /\ rrg' = rrg
        BY <2>4 DEF vars, svars, searchVars, loopVars, inputs
      <3>2. \A n \in Net : /\ Pips(nets[n].fixed)' = Pips(nets[n].fixed)
                           /\ Pips(path[n])' = Pips(path[n])
                           /\ IsIgnored(n)' <=> IsIgnored(n)
        BY <3>1 DEF Pips, IsSink, IsIgnored
      <3>3. \A n \in Net : Routed(n)' <=> Routed(n)
        BY <1>2, <3>1, RoutedStays
      <3>4. QED
        BY <3>1, <3>2, <3>3 DEF LegalInv, Saved
    <2>5. QED
      BY <2>1, <2>2, <2>3, <2>4 DEF Next, Returned
  <1>5. QED
    BY <1>1, <1>3, <1>4 DEF LegalInv

(* The pips of a route are switches between nodes of it, from its start to *)
(* all of them.                                                            *)
LEMMA RouteIsLegal ==
  ASSUME Given, NEW p, NEW s, IsRoute(p, s)
  PROVE  /\ Pips(p) \subseteq Switches
         /\ Pips(p) \subseteq ElemsOf(p) \X ElemsOf(p)
         /\ ReachedBy(Pips(p), s) = ElemsOf(p)
  <1>1. ElemsOf(p) \subseteq Node
    BY ElemsFit DEF IsRoute, IsWalk, NonEmpty
  <1>2. /\ Pips(p) \subseteq ElemsOf(p) \X ElemsOf(p)
        /\ \A e \in Pips(p) : e[2] \in rrg.switches[e[1]]
    BY RoutePips
  <1>3. Pips(p) \subseteq Switches
    <2> HIDE DEF Pips, ElemsOf
    <2>1. QED
      BY <1>1, <1>2 DEF Switches
  <1>4. QED
    BY <1>2, <1>3, RouteReached

(* The list that the pips of net n are of.                                 *)
ListOf(n) == IF IsIgnored(n) THEN nets[n].fixed ELSE path[n]

(* On success the pips of a net join its source to its sinks and use no    *)
(* node but those of its list.                                             *)
LEMMA ListsAreLegal ==
  ASSUME LegalInv, result = "success", NEW n \in Net
  PROVE  /\ pips[n] \subseteq Switches
         /\ ElemsOf(nets[n].sinks) \subseteq ReachedBy(pips[n], nets[n].src)
         /\ PipNodes(n) \subseteq ElemsOf(ListOf(n))
  <1>1. pips[n] = Pips(ListOf(n))
    BY DEF LegalInv, Saved, ListOf
  <1>2. \/ ListOf(n) = <<>> /\ nets[n].sinks = <<>>
        \/ /\ IsRoute(ListOf(n), nets[n].src)
           /\ ElemsOf(nets[n].sinks) \subseteq ElemsOf(ListOf(n))
    BY DEF LegalInv, Saved, CameComplete, Routed, ListOf
  <1>3. CASE ListOf(n) = <<>> /\ nets[n].sinks = <<>>
    <2>1. Pips(<<>>) = {} /\ ElemsOf(<<>>) = {}
      BY DEF Pips, ElemsOf
    <2>2. PipNodes(n) = {}
      BY <1>1, <1>3, <2>1 DEF PipNodes
    <2>3. QED
      BY <1>1, <1>3, <2>1, <2>2
  <1>4. CASE /\ IsRoute(ListOf(n), nets[n].src)
             /\ ElemsOf(nets[n].sinks) \subseteq ElemsOf(ListOf(n))
    <2>1. /\ pips[n] \subseteq Switches
          /\ pips[n] \subseteq ElemsOf(ListOf(n)) \X ElemsOf(ListOf(n))
          /\ ReachedBy(pips[n], nets[n].src) = ElemsOf(ListOf(n))
      BY <1>1, <1>4, RouteIsLegal DEF LegalInv, LoopInv
    <2>2. PipNodes(n) \subseteq ElemsOf(ListOf(n))
      BY <2>1 DEF PipNodes
    <2>3. QED
      BY <1>4, <2>1, <2>2
  <1>5. QED
    BY <1>2, <1>3, <1>4

(* No node has more of the lists than it has room for.                     *)
LEMMA ListsFit ==
  ASSUME LegalInv, result = "success", NEW x \in Node
  PROVE  /\ IsFiniteSet({n \in Net : x \in ElemsOf(ListOf(n))})
         /\ Cardinality({n \in Net : x \in ElemsOf(ListOf(n))}) <= Capacity[x]
  <1> DEFINE U == {n \in Net : x \in ElemsOf(ListOf(n))}
             A == {n \in Net : x \in ElemsOf(Netlist[n].fixed)}
             B == {n \in Net : x \in NodesOf[n]}
  <1>1. /\ nets = Netlist /\ spc = "idle"
        /\ \A n \in Net : IsIgnored(n) => path[n] = <<>>
        /\ \A n \in Net : ~IsIgnored(n) => nets[n].fixed = <<>>
    BY DEF LegalInv, LoopInv, Given, Lists, Posed, Saved
  <1>2. \A n \in Net : NodesOf[n] = ElemsOf(path[n])
    BY <1>1 DEF NodesOf
  <1>3. ElemsOf(<<>>) = {}
    BY DEF ElemsOf
  <1>4. U = A \cup B /\ A \cap B = {}
    <2>1. \A n \in Net : IsIgnored(n) => NodesOf[n] = {}
      BY <1>1, <1>2, <1>3
    <2>2. \A n \in Net : ~IsIgnored(n) => ElemsOf(Netlist[n].fixed) = {}
      BY <1>1, <1>3
    <2> HIDE DEF ElemsOf
    <2>3. QED
      BY <1>1, <1>2, <2>1, <2>2 DEF ListOf
  <1>5. /\ IsFiniteSet(A) /\ IsFiniteSet(B)
        /\ Cardinality(A) \in Nat /\ Cardinality(B) \in Nat
    <2>1. A \in SUBSET Net /\ B \in SUBSET Net
      OBVIOUS
    <2> HIDE DEF A, B
    <2>2. QED
      BY <2>1, NetlistAssumption, FS_Subset, FS_CardinalityType
  <1>6. IsFiniteSet(U) /\ Cardinality(U) = Cardinality(A) + Cardinality(B)
    <2> HIDE DEF U, A, B
    <2>1. IsFiniteSet(A \cup B) /\ Cardinality(A \cap B) = 0
      BY <1>4, <1>5, FS_Union, FS_EmptySet
    <2>2. Cardinality(A \cup B) = Cardinality(A) + Cardinality(B) - Cardinality(A \cap B)
      BY <1>5, FS_Union
    <2>3. QED
      BY <1>4, <1>5, <2>1, <2>2
  <1>7. Capacity[x] \in Nat
    BY ParamAssumption
  <1>8. CASE B = {}
    <2>1. Cardinality(A) <= Capacity[x]
      BY <1>1 DEF LegalInv, CameComplete
    <2> HIDE DEF U, A, B
    <2>2. Cardinality(B) = 0
      BY <1>8, FS_EmptySet
    <2>3. QED
      BY <1>5, <1>6, <1>7, <2>1, <2>2 DEF U
  <1>9. CASE B # {}
    <2>1. PFP!SuccessIsLegal
      <3>1. /\ PFP!IInv
            /\ PFP!NetAssumption /\ PFP!NodeAssumption /\ PFP!ParamAssumption
        BY PathFinderFits DEF LegalInv, LoopInv
      <3> HIDE DEF PFP!IInv, PFP!SuccessIsLegal
      <3>2. QED
        BY <3>1, PFP!FeasibleIsLegal
        DEF PFP!FeasibleIsLegal, PFP!NetAssumption, PFP!NodeAssumption, PFP!ParamAssumption
    <2>2. PFP!Users(x) = B
      BY DEF PFP!Users
    <2>3. PreOccupied[x] + PFP!Cardinality(B) <= Capacity[x]
      <3> HIDE DEF B
      <3>1. QED
        BY <1>9, <2>1, <2>2 DEF PFP!SuccessIsLegal
    <2>4. PFP!Cardinality(B) = Cardinality(B)
      BY SameSets
    <2>5. PreOccupied[x] = Cardinality(Places(x))
      BY DEF PreOccupied, Places
    <2>6. Cardinality(Places(x)) \in Nat /\ Cardinality(A) <= Cardinality(Places(x))
      BY PlacesCounted
    <2> HIDE DEF U, A, B
    <2>7. QED
      BY <1>5, <1>6, <1>7, <2>3, <2>4, <2>5, <2>6 DEF U
  <1>10. QED
    BY <1>6, <1>8, <1>9

(* A design that is reported as routed is: every net's pips are switches   *)
(* that join its source to all its sinks, and no node carries more nets    *)
(* than it has room for.  The nets that came with pips are complete ones   *)
(* that fit together; nothing is assumed of the others, of the costs, of   *)
(* the order of the nets or of the ties that the heap breaks.              *)
THEOREM RoutedLegal == Spec /\ Posed /\ CameComplete => []RoutedIsLegal
  <1>1. LegalInv => RoutedIsLegal
    <2> SUFFICES ASSUME LegalInv, result = "success"
                 PROVE  /\ \A n \in Net :
                             /\ pips[n] \subseteq Switches
                             /\ ElemsOf(nets[n].sinks) \subseteq ReachedBy(pips[n], nets[n].src)
                        /\ \A x \in Node :
                             Cardinality({n \in Net : x \in PipNodes(n)}) <= Capacity[x]
      BY DEF RoutedIsLegal
    <2>1. ASSUME NEW x \in Node
          PROVE  Cardinality({n \in Net : x \in PipNodes(n)}) <= Capacity[x]
      <3> DEFINE P == {n \in Net : x \in PipNodes(n)}
                 U == {n \in Net : x \in ElemsOf(ListOf(n))}
      <3>1. P \in SUBSET U
        BY ListsAreLegal
      <3>2. IsFiniteSet(U) /\ Cardinality(U) <= Capacity[x] /\ Capacity[x] \in Nat
        BY ListsFit, ParamAssumption
      <3> HIDE DEF P, U
      <3>3. IsFiniteSet(P) /\ Cardinality(P) <= Cardinality(U)
        BY <3>1, <3>2, FS_Subset
      <3>4. Cardinality(P) \in Nat /\ Cardinality(U) \in Nat
        BY <3>2, <3>3, FS_CardinalityType
      <3>5. QED
        BY <3>2, <3>3, <3>4 DEF P
    <2>2. QED
      BY <2>1, ListsAreLegal
  <1>2. QED
    BY <1>1, LegalInit, LegalStep, PTL DEF Spec
=============================================================================
