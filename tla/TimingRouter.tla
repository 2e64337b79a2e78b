----------------------------- MODULE TimingRouter -----------------------------
(***************************************************************************)
(* Router::try_timing_driven_route: the negotiation of Router with another *)
(* search, whose cost mixes congestion with delay by the criticality of    *)
(* the sink.  Router, route tree and timing engine work on one design: the *)
(* tree's delays are loaded into the engine after every iteration, and the *)
(* engine's slacks are the criticalities of the next.                      *)
(*                                                                         *)
(* Criticalities are multiples of 1/Den, rounded down; crit_exp is 1.  The *)
(* two costs of a node, path and total, are one, since the estimate that   *)
(* would tell them apart is commented out.  Nets come without pips.        *)
(***************************************************************************)
EXTENDS Router, TEngine, RouteTree

CONSTANTS
    Den,       \* unit of criticality
    MaxCrit,   \* RTParams::max_crit in units of 1/Den
    Designs    \* the netlists for the engine; nets[n].pinOf[x] is the pin at node x

ASSUME CritAssumption == Den \in Nat \ {0} /\ MaxCrit \in 0..Den

VARIABLES
    tree,      \* RTree of the net being routed
    order,     \* RTNet::sink_nodes() after mark_timing_sinks
    crit,      \* crit[x]: the property Crit of the pin at sink x
    dmax       \* Dmax

tdvars == <<vars, tvars, tree, order, crit, dmax>>
engine == tvars

Sinks(n) == ElemsOf(nets[n].sinks)
RoutedPins == UNION {{nets[n].pinOf[x] : x \in Sinks(n)} : n \in {m \in Net : ~IsIgnored(m)}}

TDInit ==
    /\ Init
    /\ TInit(Designs)
    /\ delayOf = <<>>
    /\ tree = <<>> /\ order = <<>> /\ crit = <<>>
    /\ dmax = 1

(***************************************************************************)
(* timing_analyse(REBUILD), whose slacks are then set to zero for the pins *)
(* that will be routed.                                                    *)
(***************************************************************************)
BuildGraph ==
    /\ CreateTGraph \/ TopoVisit \/ TopoLeave
    /\ UNCHANGED <<vars, tree, order, crit, dmax>>

FirstAnalysis ==
    /\ tpc = "built"
    /\ tpc' = "ready"
    /\ AnalyseTimes(edelay)
    /\ slack' = Over([p \in RoutedPins |-> 0], ComputeSlack(arr', req', edelay))
    /\ UNCHANGED <<vars, nl, delayOf, tnodes, seen, stack, sorted, tree, order, crit, dmax>>

(* Router::set_pincrit *)
PinCrit(p) == Lesser(Greater(MaxCrit - (Den * Lookup(slack, p)) \div dmax, 0), MaxCrit)

(* The orders that sort() may leave sinks in, by falling criticality. *)
SinkOrders(n, c) ==
    {s \in [DOMAIN nets[n].sinks -> Sinks(n)] :
        /\ \A i, j \in DOMAIN s : i < j => s[i] # s[j] /\ c[s[i]] >= c[s[j]]}

(* The head of timing_driven_route_net. *)
TDBegin ==
    /\ tpc = "ready"
    /\ pc = "net" /\ idx <= Len(NetSeq) /\ ~IsIgnored(Cur)
    /\ occ' = OccAfter(-1)
    /\ pres' = PresAfter(occ')
    /\ path' = [path EXCEPT ![Cur] = <<>>]
    /\ segEnd' = 0
    /\ crit' = [x \in Sinks(Cur) |-> PinCrit(nets[Cur].pinOf[x])]
    /\ order' \in SinkOrders(Cur, crit')
    /\ tarflg' = [x \in Node |-> MarkedSinks(Cur, x)]
    /\ tree' = RootTree(nets[Cur].src)
    /\ sinkIdx' = 1
    /\ spc' = "sink" /\ pc' = "search"
    /\ UNCHANGED <<engine, inputs, hist, pathCost, prev, isPath, mdf, heap, newiter,
                   itry, idx, presFac, result, pips, dmax>>

Target == order[sinkIdx]

TDEntry(x, p, c, r) == [owner |-> x, prev |-> p, cost |-> c, rup |-> r]

(* add_rtree_to_heap: a node of the tree costs its delay, load and all. *)
TreeEntries ==
    {TDEntry(tree[i].owner, NULL, crit[Target] * tree[i].delay, tree[i].rup)
        : i \in {j \in DOMAIN tree : tree[j].open}}

TDBeginSink ==
    /\ spc = "sink" /\ sinkIdx <= Len(order)
    /\ heap' = TreeEntries
    /\ spc' = "pop"
    /\ UNCHANGED <<engine, inputs, occ, pres, hist, nodeMarks, mdf, segEnd, newiter, sinkIdx,
                   path, loopVars, pips, tree, order, crit, dmax>>

(* TDHeap::expand_neighbours; the sink's criticality c weighs the delay of
   the wire x, driven through the resistance up, against its congestion. *)
TDOffers(e, c) ==
    {LET s   == rrg.sw[<<e.owner, x>>]
         up  == s.res + rrg.res[x] + (IF s.buf THEN 0 ELSE e.rup)
         del == s.delay + (up - rrg.res[x] \div 2) * rrg.cap[x]
     IN  TDEntry(x, e.owner, e.cost + (Den - c) * CongCost(x) + c * del, up)
       : x \in InBox(Cur, rrg.switches[e.owner])}

(* The entry is no improvement. *)
TDPopStale ==
    /\ spc = "pop"
    /\ \E e \in heap :
          /\ Smallest(e)
          /\ e.owner # Target
          /\ pathCost[e.owner] <= e.cost
          /\ heap' = Popped(e)
    /\ UNCHANGED <<engine, inputs, occ, pres, hist, nodeMarks, mdf, segEnd, newiter, sinkIdx,
                   spc, path, loopVars, pips, tree, order, crit, dmax>>

(* TDHeap::add_node_to_heap turns equal costs away. *)
TDAdded(es, pcost) == {e \in es : e.cost < pcost[e.owner]}

TDPopExpand ==
    /\ spc = "pop"
    /\ \E e \in heap :
          /\ Smallest(e)
          /\ e.owner # Target
          /\ pathCost[e.owner] > e.cost
          /\ prev' = [prev EXCEPT ![e.owner] = e.prev]
          /\ pathCost' = [pathCost EXCEPT ![e.owner] = e.cost]
          /\ mdf' = Modified(e.owner)
          /\ heap' = Popped(e) \cup TDAdded(TDOffers(e, crit[Target]), pathCost')
    /\ UNCHANGED <<engine, inputs, occ, pres, hist, tarflg, isPath, segEnd, newiter, sinkIdx,
                   spc, path, loopVars, pips, tree, order, crit, dmax>>

(* Mutant of CountedFrom: the common node is counted with the branch. *)
CountedFromCommon(end) == IF end = 0 THEN 1 ELSE end + 1

(* Where update_trace_back lets the counting of a branch begin. *)
CountedFrom(end) == BranchStart(end)

(* The sink is at the head of the heap: trace back, tree and occupancy. *)
TDReachSink ==
    /\ spc = "pop"
    /\ \E e \in heap :
          /\ Smallest(e)
          /\ e.owner = Target
          /\ prev' = [prev EXCEPT ![e.owner] = e.prev]
          /\ tarflg' = [tarflg EXCEPT ![e.owner] = @ - 1]
          /\ LET branch == BranchTo(e.owner, prev')
                 new    == path[Cur] \o branch
                 first  == CountedFrom(segEnd)
                 gain   == [x \in Node |->
                              Cardinality({j \in Visited(new, first) : new[j] = x})]
             IN  /\ path' = [path EXCEPT ![Cur] = new]
                 /\ isPath' = [x \in Node |-> isPath[x] \/ x \in ElemsOf(branch)]
                 /\ tree' = UpdateRouteTree(rrg, tree, branch)
                 /\ occ' = [x \in Node |-> occ[x] + gain[x]]
                 /\ pres' = [x \in Node |-> IF gain[x] > 0 THEN PresCost(occ'[x], Capacity[x])
                                                           ELSE pres[x]]
                 /\ newiter' = first
                 /\ segEnd' = Len(new)
    /\ pathCost' = [x \in Node |-> IF x \in Cleared(mdf) THEN Huge ELSE pathCost[x]]
    /\ mdf' = {} /\ heap' = {}
    /\ sinkIdx' = sinkIdx + 1
    /\ spc' = "sink"
    /\ UNCHANGED <<engine, inputs, hist, loopVars, pips, order, crit, dmax>>

(* The heap is empty: the costs are reset, and the router gives up with    *)
(* the target flags of the sinks still up.                                 *)
TDFail ==
    /\ spc = "pop" /\ heap = {}
    /\ pathCost' = [x \in Node |-> IF x \in Cleared(mdf) THEN Huge ELSE pathCost[x]]
    /\ mdf' = {}
    /\ spc' = "unroutable"
    /\ pc' = "done" /\ result' = "unroutable"
    /\ UNCHANGED <<engine, inputs, occ, pres, hist, tarflg, prev, isPath, heap, segEnd, newiter,
                   sinkIdx, path, itry, idx, presFac, pips, tree, order, crit, dmax>>

(* update_net_delays_from_route_tree *)
TreeDelays ==
    [p \in {nets[Cur].pinOf[x] : x \in ElemsOf(order)} |->
        tree[TreeNodeOf(tree, CHOOSE x \in ElemsOf(order) : nets[Cur].pinOf[x] = p)].delay]

TDFinish ==
    /\ pc = "search" /\ spc = "sink" /\ sinkIdx > Len(order)
    /\ delayOf' = Over(TreeDelays, delayOf)
    /\ spc' = "idle" /\ pc' = "net"
    /\ idx' = idx + 1
    /\ UNCHANGED <<nl, tpc, tnodes, seen, stack, sorted, edelay, arr, req, maxd, slack, inputs, occ,
                   pres, hist, nodeMarks, mdf, heap, segEnd, newiter, sinkIdx, path,
                   itry, presFac, result, pips, tree, order, crit, dmax>>

TDSkipNet ==
    /\ tpc = "ready" /\ SkipNet
    /\ UNCHANGED <<engine, tree, order, crit, dmax>>

TDSucceed ==
    /\ tpc = "ready" /\ Succeed
    /\ UNCHANGED <<engine, tree, order, crit, dmax>>

(* An iteration ends with nets in conflict: costs, then the delays of the  *)
(* routes go into the engine.                                              *)
TDNextIteration ==
    /\ tpc = "ready"
    /\ pc = "net" /\ idx > Len(NetSeq) /\ ~Feasible
    /\ presFac' = IF itry = 1 THEN InitPresFac ELSE presFac * PresFacMult
    /\ hist' = IF itry = 1 THEN hist ELSE [x \in Node |-> HistCost(x)]
    /\ pres' = [x \in Node |->
                  IF occ[x] >= Capacity[x] THEN 2 + (occ[x] + 1 - Capacity[x]) * presFac'
                                           ELSE pres[x]]
    /\ Analyse(Loaded)
    /\ dmax' = maxd'[0]
    /\ itry' = itry + 1 /\ idx' = 1
    /\ IF itry < MaxIters THEN UNCHANGED <<pc, result>>
                          ELSE pc' = "done" /\ result' = "congested"
    /\ UNCHANGED <<nl, delayOf, tpc, tnodes, seen, stack, sorted, inputs, occ, nodeMarks,
                   searchVars, path, pips, tree, order, crit>>

TDReturned == pc = "done" /\ UNCHANGED tdvars

TDNext ==
    \/ BuildGraph
    \/ FirstAnalysis
    \/ TDSkipNet
    \/ TDBegin
    \/ TDBeginSink
    \/ TDPopStale
    \/ TDPopExpand
    \/ TDReachSink
    \/ TDFail
    \/ TDFinish
    \/ TDSucceed
    \/ TDNextIteration
    \/ TDReturned

TDSpec == TDInit /\ [][TDNext]_tdvars
-----------------------------------------------------------------------------
(* A branch takes up a node that the route already has, or a wire to it.   *)
Rejoins(n, x) == VisitCounts(path[n])[x] > 1

Rejoined(n) == \E x \in ElemsOf(path[n]) : Rejoins(n, x)

(* "The branch path must have one common node with trunk path", says       *)
(* update_trace_back: the nodes that it counts are new to the route.       *)
OneCommonNode == \A n \in Net : ~Rejoined(n)

(* Net n has all its sinks, and they their delays. *)
Finished(n) == path[n] # <<>> /\ ~(spc # "idle" /\ n = Cur)

(* The delays that the router hands to the timing engine are those of the  *)
(* finished route, although the tree was only corrected behind the nearest *)
(* buffer whenever a branch was added.                                     *)
TreeDelayIsElmore ==
    \A n \in Net :
        Finished(n) /\ ~Rejoined(n) =>
            \A x \in Sinks(n) :
                Lookup(delayOf, nets[n].pinOf[x]) =
                    ElmoreDelay(rrg, Pips(path[n]), nets[n].src)[x]

(* Occupancy is counted branch by branch and taken off for the whole path: *)
(* at every moment it is the number of nets that hold the node, unless a   *)
(* net has taken it up twice.                                              *)
OccupancyIsUse ==
    \A x \in Node :
        (\A n \in Net : ~Rejoins(n, x)) =>
            occ[x] = Cardinality({n \in Net : x \in ElemsOf(path[n])})

(* The engine keeps times of earlier iterations, and nets route by delays  *)
(* of the one before.  No connection is thereby taken for less critical    *)
(* than it is: the slack of a routed pin is at most what the longest path  *)
(* through it leaves of the maximal delay.                                 *)
SlackIsSafe ==
    tpc = "ready" /\ itry > 1 /\ idx = 1 /\ pc # "search" =>
        LET to    == LongestTo(edelay, {n \in TNodes : InEdges(n) = {}})
            from[n \in TNodes] == LET S == {from[e[2]] + edelay[e] : e \in OutEdges(n)}
                                  IN  IF S = {} THEN 0 ELSE Max(S)
        IN  \A e \in SlackEdges :
               slack[Owner(e[2])] <= dmax - (to[e[1]] + edelay[e] + from[e[2]])

(* A design that the timing driven router reports as routed: every net is  *)
(* a tree that joins the source to its sinks, no node is driven twice, be  *)
(* it by one net or two, and nothing is left of the searches.              *)
TDRoutedIsLegal ==
    result = "success" =>
        /\ \A n \in Net : ~IsIgnored(n) => IsTree(n) /\ SinksConnected(n) /\ PipsExist(n)
        /\ \A x \in Node : Cardinality({n \in Net : x \in PipNodes(n)}) <= Capacity[x]
        /\ \A x \in Node : tarflg[x] = 0 /\ pathCost[x] = Huge
=============================================================================
