-------------------------------- MODULE Router --------------------------------
(***************************************************************************)
(* The router's negotiation loop with the search of NetSearch inside it:   *)
(* try_breadth_first_and_directd_search_route from the nodes and nets that *)
(* initialize() built to the pips that save_path writes.  It implements    *)
(* PathFinder, where a search is one step.                                 *)
(***************************************************************************)
EXTENDS NetSearch

CONSTANTS
    NetSeq,       \* the nets in the order of top_cell_->nets()
    Netlist,      \* the value of nets
    Devices,      \* the devices to try
    Options,      \* the values of params to try
    Capacity,     \* RTNode::capacity_
    MaxIters, FirstPresFac, InitPresFac, PresFacMult, HistFac  \* RTParams

ASSUME NetlistAssumption ==
    /\ IsFiniteSet(Net)
    /\ NetSeq \in Seq(Net)
    /\ Net = ElemsOf(NetSeq)
    /\ \A i, j \in DOMAIN NetSeq : NetSeq[i] = NetSeq[j] => i = j
    /\ \A n \in Net : /\ Netlist[n].src \in Node
                      /\ Netlist[n].sinks \in Seq(Node)
                      /\ Netlist[n].fixed \in Seq(Node)

ASSUME DeviceAssumption ==
    \A d \in Devices :
        /\ d.switches \in [Node -> SUBSET Node]
        /\ d.fromPos \in [Node -> [x : Int, y : Int]]
        /\ d.toPos \in [Node -> [x : Int, y : Int]]
        /\ \A o \in Options : Initialized(d, o.bcost).base \in [Node -> Nat]

ASSUME ParamAssumption ==
    /\ \A o \in Options : o.astar \in Nat
    /\ Capacity \in [Node -> Nat \ {0}]
    /\ MaxIters \in Nat \ {0}
    /\ FirstPresFac \in Nat
    /\ InitPresFac \in Nat
    /\ PresFacMult \in Nat
    /\ HistFac \in Nat

VARIABLES
    pc, itry, idx, presFac, result,   \* as in PathFinder
    pips                              \* the routing pips of each net

loopVars == <<pc, itry, idx, presFac, result>>
vars     == <<svars, loopVars, pips>>

Cur == NetSeq[idx]

PresCost(o, cap) == IF o < cap THEN 2 ELSE 2 + (o + 1 - cap) * presFac

(* RTNet::path_update_one_cost over the whole path of the current net.     *)
OccAfter(d) ==
    LET visits == VisitCounts(path[Cur])
    IN  [x \in Node |-> occ[x] + d * visits[x]]

PresAfter(o) ==
    [x \in Node |-> IF x \in ElemsOf(path[Cur]) /\ o[x] # occ[x]
                      THEN PresCost(o[x], Capacity[x]) ELSE pres[x]]

(* Mutants of Overused: the capacity test is off by one, either way. *)
OverusedLate(x) == occ[x] > Capacity[x] + 1

OverusedEarly(x) == occ[x] >= Capacity[x]

Overused(x) == occ[x] > Capacity[x]

(* Router::infeasible_route() = 0 *)
Feasible == \A n \in Net : \A x \in ElemsOf(path[n]) : ~Overused(x)

Init ==
    /\ nets = Netlist
    /\ params \in Options
    /\ \E d \in Devices : rrg = Initialized(d, params.bcost)
    /\ SearchInit
    /\ pc = "net"
    /\ itry = 1
    /\ idx = 1
    /\ presFac = FirstPresFac
    /\ result = "none"
    /\ pips = [n \in Net |-> Pips(nets[n].fixed)]

SkipNet ==
    /\ pc = "net"
    /\ idx <= Len(NetSeq)
    /\ IsIgnored(Cur)
    /\ idx' = idx + 1
    /\ UNCHANGED <<svars, pc, itry, presFac, result, pips>>

(* The nodes of the old path are given back and the search begins. *)
RipUp ==
    /\ pc = "net"
    /\ idx <= Len(NetSeq)
    /\ ~IsIgnored(Cur)
    /\ pres' = PresAfter(OccAfter(-1))
    /\ BeginNet(Cur, OccAfter(-1))
    /\ pc' = "search"
    /\ UNCHANGED <<inputs, hist, itry, idx, presFac, result, pips>>

Search ==
    /\ pc = "search"
    /\ SearchStep(Cur)
    /\ UNCHANGED <<inputs, pres, hist, loopVars, pips>>

(* The search has returned true: the new path is counted. *)
Commit ==
    /\ pc = "search"
    /\ spc = "routed"
    /\ occ' = OccAfter(1)
    /\ pres' = PresAfter(occ')
    /\ spc' = "idle"
    /\ pc' = "net"
    /\ idx' = idx + 1
    /\ UNCHANGED <<inputs, hist, nodeMarks, mdf, heap, segEnd, newiter, sinkIdx, path,
                   itry, presFac, result, pips>>

(* The search has returned false. *)
Unroutable ==
    /\ pc = "search"
    /\ spc = "unroutable"
    /\ pc' = "done"
    /\ result' = "unroutable"
    /\ UNCHANGED <<svars, itry, idx, presFac, pips>>

(* No net is infeasible: RTNet::save_path for each, which does nothing for *)
(* a net without a path and replaces the pips of a partially routed one.   *)
Succeed ==
    /\ pc = "net"
    /\ idx > Len(NetSeq)
    /\ Feasible
    /\ pips' = [n \in Net |->
                  IF path[n] = <<>> THEN pips[n]
                  ELSE IF IsPartial(n) THEN Pips(path[n]) ELSE pips[n] \cup Pips(path[n])]
    /\ pc' = "done"
    /\ result' = "success"
    /\ UNCHANGED <<svars, itry, idx, presFac>>

(* Mutant of HistCost: the history of a node is not kept. *)
HistCostFlat(x) == hist[x]

(* RTNode::inc_his_cost for the nodes over capacity. *)
HistCost(x) ==
    IF Overused(x) THEN hist[x] + (occ[x] - Capacity[x]) * HistFac * 2 ELSE hist[x]

(* Router::update_nodes_cost and the next iteration. *)
NextIteration ==
    /\ pc = "net"
    /\ idx > Len(NetSeq)
    /\ ~Feasible
    /\ presFac' = IF itry = 1 THEN InitPresFac ELSE presFac * PresFacMult
    /\ hist' = [x \in Node |-> HistCost(x)]
    /\ pres' = [x \in Node |->
                  IF occ[x] >= Capacity[x] THEN 2 + (occ[x] + 1 - Capacity[x]) * presFac'
                                           ELSE pres[x]]
    /\ itry' = itry + 1
    /\ idx' = 1
    /\ IF itry < MaxIters
         THEN UNCHANGED <<pc, result>>
         ELSE pc' = "done" /\ result' = "congested"
    /\ UNCHANGED <<inputs, occ, nodeMarks, searchVars, path, pips>>

Returned == pc = "done" /\ UNCHANGED vars

Next ==
    \/ SkipNet
    \/ RipUp
    \/ Search
    \/ Commit
    \/ Unroutable
    \/ Succeed
    \/ NextIteration
    \/ Returned

Spec == Init /\ [][Next]_vars /\ WF_vars(Next)
-----------------------------------------------------------------------------
IgnoredNets == {n \in Net : Ignorable(Netlist[n])}

(* Any set of nodes with the net's pins on it is a route for PathFinder. *)
RouteSets ==
    [n \in Net |->
       {R \cup {Netlist[n].src} \cup ElemsOf(Netlist[n].sinks) : R \in SUBSET Node}]

PreOccupied ==
    [x \in Node |->
       Cardinality(UNION {{<<n, i>> : i \in {j \in DOMAIN Netlist[n].fixed :
                                               Netlist[n].fixed[j] = x}} : n \in Net})]

PartialNets == {n \in Net : PartlyRouted(Netlist[n])} \ IgnoredNets

FixedOn == [n \in Net |-> [x \in Node |-> FixedTimes(Netlist[n], x)]]

(* What PathFinder sees of the lists: the nodes of each but that of the    *)
(* net that is searched for.                                               *)
NodesOf == [n \in Net |-> IF spc # "idle" /\ n = Cur THEN {} ELSE ElemsOf(path[n])]

PF == INSTANCE PathFinder WITH
        Ignored <- IgnoredNets,
        Partial <- PartialNets,
        Fixed   <- FixedOn,
        PreOcc  <- PreOccupied,
        Routes  <- RouteSets,
        path    <- NodesOf
-----------------------------------------------------------------------------
(* The loop with its searches is a negotiation: every step of it is one of *)
(* PathFinder or leaves PathFinder's state alone.                          *)
Negotiates == PF!Spec

PipNodes(n) == UNION {{e[1], e[2]} : e \in pips[n]}

(* A design reported as routed: every net's pips are switches of the       *)
(* device, join its source to all its sinks, and no node carries more nets *)
(* than it has room for, counting the nets that came complete.             *)
RoutedIsLegal ==
    result = "success" =>
        /\ \A n \in Net :
             /\ pips[n] \subseteq Switches
             /\ ElemsOf(nets[n].sinks) \subseteq ReachedBy(pips[n], nets[n].src)
        /\ \A x \in Node : Cardinality({n \in Net : x \in PipNodes(n)}) <= Capacity[x]

(* The node sets of the paths from x to y inside the box of net n. *)
PathSets(n, x, y) ==
    LET grow[k \in 0..(Cardinality(Node) - 1)] ==
            IF k = 0 THEN {<<x, {x}>>}
            ELSE LET P == grow[k - 1]
                 IN  P \cup UNION {{<<z, e[2] \cup {z}>> :
                                     z \in InBox(n, rrg.switches[e[1]]) \ e[2]} : e \in P}
    IN  {e[2] : e \in {f \in grow[Cardinality(Node) - 1] : f[1] = y}}

(* Whether nets of one sink each can be routed together: one path per net, *)
(* and room for all of them beside the nets that came complete.            *)
RoutableTogether ==
    LET todo == {n \in Net : ~IsIgnored(n)}
        sets == [n \in todo |-> PathSets(n, nets[n].src, nets[n].sinks[1])]
    IN  \E choice \in [todo -> UNION {sets[n] : n \in todo}] :
           /\ \A n \in todo : choice[n] \in sets[n]
           /\ \A x \in Node :
                InitialOcc(x) + Cardinality({n \in todo : x \in choice[n]}) <= Capacity[x]

(* The negotiation resolves congestion: whatever order the nets are ripped *)
(* up in and however ties fall, a design that fits is not given up.        *)
CongestedIsReal == result = "congested" => ~RoutableTogether

(* Every run of the router ends with a result. *)
Terminates == <>(result # "none")
=============================================================================
