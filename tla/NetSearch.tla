------------------------------ MODULE NetSearch ------------------------------
(***************************************************************************)
(* Routing one net, Router::breadth_first_and_directed_search_route_net:   *)
(* for every sink in turn a best-first search over the routing-resource    *)
(* graph, a trace back along prev_node that appends the branch to the      *)
(* net's path_ list, and the reset of the marks the search left.           *)
(*                                                                         *)
(* The path_ list of a net is the trunk to the first sink followed by one  *)
(* segment per further sink.  A segment starts with the node it has in     *)
(* common with the route built so far, so a traversal that counts nodes    *)
(* skips the element after every sink.                                     *)
(*                                                                         *)
(* Costs are integers in sixteenths (base costs in quarters, hist_cost and *)
(* pres_cost in halves); the heap is the set of its entries, two equal     *)
(* entries being popped as one.                                            *)
(***************************************************************************)
EXTENDS BaseCost, Sequences

CONSTANTS
    Node,   \* nodes of the routing-resource graph
    Net,    \* nets of the top cell
    NULL,   \* nullptr
    Huge    \* HUGE_FLOAT, above every path cost of the instance

ASSUME NodeAssumption == IsFiniteSet(Node)

ASSUME NullAssumption == NULL \notin Node

ASSUME HugeAssumption == Huge \in Nat \ {0}

VARIABLES
    rrg,       \* the device as Initialized leaves it, never changed
    nets,      \* nets[n]: [src, sinks, fixed, kind, pins], never changed
    params,    \* [algo, bcost, astar, bbFac]: RTParams, never changed
    occ,       \* RTNode::occ_
    pres,      \* RTInfo::pres_cost
    hist,      \* RTInfo::hist_cost
    tarflg,    \* RTInfo::tarflg
    pathCost,  \* RTInfo::path_cost
    prev,      \* RTInfo::prev_node
    isPath,    \* RTNode::is_pathnode_
    mdf,       \* Router::mdf_nodes_
    heap,      \* BFHeap: entries [owner, prev, cost]
    path,      \* RTNet::path_
    segEnd,    \* index of RTNet::seg_end_, 0 for path_.end()
    newiter,   \* index of the local newiter
    sinkIdx,   \* position in sink_nodes() of the loop
    spc        \* "idle", "sink", "pop", "routed" or "unroutable"

inputs     == <<rrg, nets, params>>
nodeMarks  == <<tarflg, pathCost, prev, isPath>>
searchVars == <<mdf, heap, segEnd, newiter, sinkIdx, spc>>
svars      == <<inputs, occ, pres, hist, nodeMarks, searchVars, path>>

NO_PREVIOUS == -16

ElemsOf(s) == {s[i] : i \in DOMAIN s}

Least(S) == CHOOSE m \in S : \A v \in S : m <= v

Most(S) == CHOOSE m \in S : \A v \in S : m >= v
-----------------------------------------------------------------------------
(* What initialize() makes of a net: its sinks are marked on the nodes, a  *)
(* net whose fixed path (the pips of the input) reaches every sink is      *)
(* ignored, as is one that touches a module port (kind "MPIN") or has less *)
(* than two pins; any other net with pips is partially routed.             *)
HasFound(n, x) == x \in ElemsOf(nets[n].fixed)

CompletelyRouted(r) == r.fixed # <<>> /\ ElemsOf(r.sinks) \subseteq ElemsOf(r.fixed)

Ignorable(r) == CompletelyRouted(r) \/ r.kind = "MPIN" \/ Len(r.sinks) = 0

PartlyRouted(r) == r.fixed # <<>> /\ ~CompletelyRouted(r)

(* Times that x occurs in the fixed path: add_occ() calls of               *)
(* load_info_for_routed_net, dec_occ() calls of load_info_from_fixed_path. *)
FixedTimes(r, x) == Cardinality({i \in DOMAIN r.fixed : r.fixed[i] = x})

IsIgnored(n) == Ignorable(nets[n])

IsPartial(n) == PartlyRouted(nets[n])

(* RTNode::is_sink(): the node is a sink of a net whose pins were loaded. *)
IsSink(x) ==
    \E n \in Net : (nets[n].fixed # <<>> \/ ~IsIgnored(n)) /\ x \in ElemsOf(nets[n].sinks)
-----------------------------------------------------------------------------
(* RTNet::load_bb_fac: the box of the net's pins, widened and cut to the   *)
(* device; a global net has the whole device.                              *)
BBox(n) ==
    LET xs == {p.x : p \in nets[n].pins}
        ys == {p.y : p \in nets[n].pins}
        g  == rrg.grid
        f  == params.bbFac
    IN  IF nets[n].kind \in {"CLOCK", "RESET", "TBUF"}
          THEN [lt |-> [x |-> 0, y |-> 0], rb |-> g]
          ELSE [lt |-> [x |-> Most({Least(xs) - f, 0}), y |-> Most({Least(ys) - f, 0})],
                rb |-> [x |-> Least({Most(xs) + f, g.x - 1}),
                        y |-> Least({Most(ys) + f, g.y - 1})]]

(* The nodes of S that the test of expand_neighbours lets through. *)
InBox(n, S) ==
    LET b == BBox(n)
    IN  {x \in S : /\ rrg.fromPos[x].x <= b.rb.x
                   /\ rrg.fromPos[x].y <= b.rb.y
                   /\ rrg.toPos[x].x >= b.lt.x
                   /\ rrg.toPos[x].y >= b.lt.y}

Abs(i) == IF i < 0 THEN -i ELSE i

(* BFHeap::distance_between_nodes: between the nearest of the nodes' ends. *)
Distance(u, v) ==
    Least({Abs(p.x - q.x) + Abs(p.y - q.y) :
             p \in {rrg.fromPos[u], rrg.toPos[u]}, q \in {rrg.fromPos[v], rrg.toPos[v]}})

(* RTNode::cong_cost *)
CongCost(x) == rrg.base[x] * hist[x] * pres[x]

Entry(x, p, c) == [owner |-> x, prev |-> p, cost |-> c]

(* BFHeap::add_node_to_heap for a set of entries, pc being path_cost. *)
Added(es, pc) == {e \in es : e.cost <= pc[e.owner]}

(* The entries that expand_neighbours offers to the heap; a node that is   *)
(* on the net's route already starts a branch, so it gets no predecessor.  *)
Offers(n, e, snk) ==
    {Entry(x, IF isPath[x] THEN NULL ELSE e.owner,
           e.cost + CongCost(x)
             + (IF params.astar = 0 THEN 0 ELSE params.astar * Distance(x, snk)))
       : x \in InBox(n, rrg.switches[e.owner])}

(* Router::while_loop_should_not_end, negated: which node ends the search. *)
Ends(x, snk) == IF params.algo = "BREADTH_FIRST" THEN tarflg[x] # 0 ELSE x = snk

(* Mutant of Smallest: the heap hands out its largest entry. *)
LargestEntry(e) == \A f \in heap : e.cost >= f.cost

(* heap_head hands out an entry of least cost, any of them on a tie. *)
Smallest(e) == \A f \in heap : e.cost <= f.cost
-----------------------------------------------------------------------------
(* The positions of list p that a counting traversal from position i       *)
(* visits: all but the element after each visited sink.                    *)
Visited(p, i) ==
    LET visit[j \in i..Len(p)] ==
            IF j = i THEN TRUE ELSE ~visit[j - 1] \/ ~IsSink(p[j - 1])
    IN  {j \in i..Len(p) : visit[j]}

(* The nodes that expand_trace_back handles, from position i on. *)
TraceBack(p, i) ==
    IF i > Len(p) THEN {} ELSE {p[j] : j \in {i} \cup Visited(p, i + 1)}

(* How often each node is counted by path_update_one_cost over the list p. *)
VisitCounts(p) ==
    LET V == Visited(p, 1)
    IN  [x \in Node |-> Cardinality({j \in V : p[j] = x})]

(* Mutant of BranchTo: the common node is not pushed. *)
BranchToNoCommon(x, pv) ==
    LET back[k \in 0..Cardinality(Node)] ==
            IF k = 0 THEN <<x>>
            ELSE LET s == back[k - 1]
                     y == pv[Head(s)]
                 IN  IF y = NULL \/ isPath[y] THEN s ELSE <<y>> \o s
    IN  back[Cardinality(Node)]

(* The chain of predecessors that ends in x, from the node without one. *)
BranchTo(x, pv) ==
    LET back[k \in 0..Cardinality(Node)] ==
            IF k = 0 THEN <<x>>
            ELSE LET s == back[k - 1]
                 IN  IF pv[Head(s)] = NULL THEN s ELSE <<pv[Head(s)]>> \o s
    IN  back[Cardinality(Node)]
-----------------------------------------------------------------------------
(* The nodes that load_info_from_fixed_path marks: the fixed path of a     *)
(* partially routed net, nothing otherwise.                                *)
LoadedFixed(n) == IF IsPartial(n) THEN ElemsOf(nets[n].fixed) ELSE {}

(* RTNet::mark_sinks *)
MarkedSinks(n, x) ==
    tarflg[x] + Cardinality({i \in DOMAIN nets[n].sinks : nets[n].sinks[i] = x})

(* The head of the function: free_path_back, the fixed path of a partially *)
(* routed net (whose occupancy is taken off), mark_sinks.  o is the        *)
(* occupancy at the call.                                                  *)
BeginNet(n, o) ==
    /\ spc = "idle"
    /\ path' = [path EXCEPT ![n] = IF IsPartial(n) THEN nets[n].fixed ELSE <<>>]
    /\ segEnd' = Len(path'[n])
    /\ occ' = [x \in Node |-> IF IsPartial(n) THEN o[x] - FixedTimes(nets[n], x) ELSE o[x]]
    /\ isPath' = [x \in Node |-> isPath[x] \/ x \in LoadedFixed(n)]
    /\ tarflg' = [x \in Node |-> MarkedSinks(n, x)]
    /\ newiter' = 1
    /\ sinkIdx' = 1
    /\ spc' = "sink"
    /\ UNCHANGED <<pathCost, prev, mdf, heap>>

CurSink(n) == nets[n].sinks[sinkIdx]

(* A sink that the fixed path reaches is not searched for. *)
SkipSink(n) ==
    /\ spc = "sink"
    /\ sinkIdx <= Len(nets[n].sinks)
    /\ HasFound(n, CurSink(n))
    /\ sinkIdx' = sinkIdx + 1
    /\ UNCHANGED <<occ, nodeMarks, mdf, heap, path, segEnd, newiter, spc>>

(* The heap of the next sink: the source, and expand_trace_back over the   *)
(* last branch, which a clock net offers at NO_PREVIOUS cost.              *)
BeginSink(n) ==
    /\ spc = "sink"
    /\ sinkIdx <= Len(nets[n].sinks)
    /\ ~HasFound(n, CurSink(n))
    /\ LET branch == TraceBack(path[n], newiter)
           src    == Entry(nets[n].src, NULL, CongCost(nets[n].src))
       IN  IF nets[n].kind = "CLOCK"
             THEN /\ heap' = Added({src} \cup {Entry(x, NULL, NO_PREVIOUS) : x \in branch},
                                   pathCost)
                  /\ UNCHANGED <<prev, pathCost>>
             ELSE /\ heap' = Added({src}, pathCost)
                  /\ prev' = [x \in Node |-> IF x \in branch THEN NULL ELSE prev[x]]
                  /\ pathCost' = [x \in Node |-> IF x \in branch THEN Huge ELSE pathCost[x]]
    /\ spc' = "pop"
    /\ UNCHANGED <<occ, tarflg, isPath, mdf, path, segEnd, newiter, sinkIdx>>

(* Mutant of Popped: the head is read and not taken off. *)
PoppedPeek(e) == heap

(* The heap without the entry that heap_head handed out. *)
Popped(e) == heap \ {e}

(* mdf_nodes_ when x is reached: a node without a cost so far is added. *)
Modified(x) == IF pathCost[x] = Huge THEN mdf \cup {x} ELSE mdf

(* Mutant of Cleared: reset_modify_nodes only empties the list. *)
ClearedNone(m) == {}

(* The nodes whose path_cost reset_modify_nodes resets, m being the list. *)
Cleared(m) == m

(* An entry that is dearer than what its owner was reached with, or equal. *)
PopStale(n) ==
    /\ spc = "pop"
    /\ \E e \in heap :
          /\ Smallest(e)
          /\ ~Ends(e.owner, CurSink(n))
          /\ pathCost[e.owner] <= e.cost
          /\ heap' = Popped(e)
    /\ UNCHANGED <<occ, nodeMarks, mdf, path, segEnd, newiter, sinkIdx, spc>>

(* The owner is reached more cheaply than before: it takes the predecessor *)
(* and the cost of the entry and offers its neighbours.                    *)
PopExpand(n) ==
    /\ spc = "pop"
    /\ \E e \in heap :
          /\ Smallest(e)
          /\ ~Ends(e.owner, CurSink(n))
          /\ pathCost[e.owner] > e.cost
          /\ prev' = [prev EXCEPT ![e.owner] = e.prev]
          /\ pathCost' = [pathCost EXCEPT ![e.owner] = e.cost]
          /\ mdf' = Modified(e.owner)
          /\ heap' = Popped(e) \cup Added(Offers(n, e, CurSink(n)), pathCost')
    /\ UNCHANGED <<occ, tarflg, isPath, path, segEnd, newiter, sinkIdx, spc>>

(* Where update_trace_back lets newiter start: at the second node of a     *)
(* branch, the first of the trunk.                                         *)
BranchStart(end) == IF end = 0 THEN 1 ELSE end + 2

(* The nodes that update_trace_back marks as path nodes. *)
PathMarks(branch) == ElemsOf(branch)

(* The node whose target flag is taken down: the one that was reached. *)
Unflagged(x, e) == x = e.owner

(* The search ends: RTNet::update_trace_back appends the branch to the     *)
(* reached sink, and reset_modify_nodes clears the costs.                  *)
ReachSink(n) ==
    /\ spc = "pop"
    /\ \E e \in heap :
          /\ Smallest(e)
          /\ Ends(e.owner, CurSink(n))
          /\ prev' = [prev EXCEPT ![e.owner] = e.prev]
          /\ tarflg' = [x \in Node |-> IF Unflagged(x, e) THEN tarflg[x] - 1 ELSE tarflg[x]]
          /\ LET branch == BranchTo(e.owner, prev')
             IN  /\ path' = [path EXCEPT ![n] = @ \o branch]
                 /\ isPath' = [x \in Node |-> isPath[x] \/ x \in PathMarks(branch)]
          /\ newiter' = BranchStart(segEnd)
          /\ segEnd' = Len(path'[n])
          /\ pathCost' = [x \in Node |->
                             IF x \in Cleared(Modified(e.owner)) THEN Huge ELSE pathCost[x]]
    /\ heap' = {}
    /\ mdf' = {}
    /\ sinkIdx' = sinkIdx + 1
    /\ spc' = "sink"
    /\ UNCHANGED occ

(* The heap runs empty: the net is unroutable. *)
FailSearch(n) ==
    /\ spc = "pop"
    /\ heap = {}
    /\ pathCost' = [x \in Node |-> IF x \in Cleared(mdf) THEN Huge ELSE pathCost[x]]
    /\ mdf' = {}
    /\ spc' = "unroutable"
    /\ UNCHANGED <<occ, tarflg, prev, isPath, heap, path, segEnd, newiter, sinkIdx>>

(* Mutant of Unmarked: the last branch keeps its marks. *)
UnmarkedButLast(n) == {path[n][j] : j \in 1..(newiter - 1)}

(* The nodes of the net that reset_is_path_nodes unmarks. *)
Unmarked(n) == ElemsOf(path[n])

(* All sinks are done: reset_is_path_nodes and reset_modify_nodes. *)
FinishNet(n) ==
    /\ spc = "sink"
    /\ sinkIdx > Len(nets[n].sinks)
    /\ isPath' = [x \in Node |-> isPath[x] /\ x \notin Unmarked(n)]
    /\ pathCost' = [x \in Node |-> IF x \in Cleared(mdf) THEN Huge ELSE pathCost[x]]
    /\ mdf' = {}
    /\ spc' = "routed"
    /\ UNCHANGED <<occ, tarflg, prev, heap, path, segEnd, newiter, sinkIdx>>

(* The steps of a search that has begun. *)
SearchStep(n) ==
    \/ SkipSink(n)
    \/ BeginSink(n)
    \/ PopStale(n)
    \/ PopExpand(n)
    \/ ReachSink(n)
    \/ FailSearch(n)
    \/ FinishNet(n)
-----------------------------------------------------------------------------
(* The occupancy that load_info_for_routed_net leaves for all nets.        *)
InitialOcc(x) ==
    Cardinality(UNION {{<<n, i>> : i \in {j \in DOMAIN nets[n].fixed : nets[n].fixed[j] = x}}
                         : n \in Net})

(* The nodes and nets as initialize() leaves them, with the device, the    *)
(* netlist and the parameters given.                                       *)
SearchInit ==
    /\ occ = [x \in Node |-> InitialOcc(x)]
    /\ pres = [x \in Node |-> 2]
    /\ hist = [x \in Node |-> 2]
    /\ tarflg = [x \in Node |-> 0]
    /\ pathCost = [x \in Node |-> Huge]
    /\ prev = [x \in Node |-> NULL]
    /\ isPath = [x \in Node |-> FALSE]
    /\ mdf = {}
    /\ heap = {}
    /\ path = [n \in Net |-> <<>>]
    /\ segEnd = 0
    /\ newiter = 1
    /\ sinkIdx = 1
    /\ spc = "idle"
-----------------------------------------------------------------------------
(* What save_path writes for a list: one pip per consecutive pair, none    *)
(* out of a sink.                                                          *)
Pips(p) == {<<p[i], p[i + 1]>> : i \in {j \in 1..(Len(p) - 1) : ~IsSink(p[j])}}

(* The nodes that relation R reaches from x. *)
ReachedBy(R, x) ==
    LET upTo[k \in 0..Cardinality(Node)] ==
            IF k = 0 THEN {x}
            ELSE LET S == upTo[k - 1] IN S \cup {e[2] : e \in {f \in R : f[1] \in S}}
    IN  upTo[Cardinality(Node)]

Switches == {e \in Node \X Node : e[2] \in rrg.switches[e[1]]}

(* The saved pips are switches of the device: the assertion of save_path.  *)
PipsExist(n) == Pips(path[n]) \subseteq Switches

(* The saved pips form a tree that starts at the source, holds every node  *)
(* of the path and drives each of them once.                               *)
IsTree(n) ==
    /\ ElemsOf(path[n]) = ReachedBy(Pips(path[n]), nets[n].src)
    /\ Cardinality(Pips(path[n])) = Cardinality(ElemsOf(path[n])) - 1

SinksConnected(n) ==
    ElemsOf(nets[n].sinks) \subseteq ReachedBy(Pips(path[n]), nets[n].src)

CountedOnce(n) == \A x \in ElemsOf(path[n]) : VisitCounts(path[n])[x] = 1
=============================================================================
