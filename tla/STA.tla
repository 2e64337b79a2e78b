-------------------------------- MODULE STA ---------------------------------
(***************************************************************************)
(* The static timing analyser: src/sta.  It builds the routing resource    *)
(* graph (RRG), grows the delay tree of every routed net and notes the     *)
(* delays of its sinks (RDTree), builds the timing graph and loads those   *)
(* delays (TEngine), finds the clocks, runs arrival times per clock domain *)
(* and reports paths.  STAApp asks for the report from inputs to registers *)
(* (the default of export_report in the header); all three are modelled.   *)
(***************************************************************************)
EXTENDS RDTree, TEngine

CONSTANT PinCap    \* TPort::capacitance of a sink

(* dev.design is the netlist, dev.routes[n] the routed net n with its pips;
   nl.slices are the top instances in order, nl.parent[i] the slice of a
   primitive, nl.clkNamed the pins that are named CLK, CLKA, CLKB or CLKIN. *)
VARIABLES
    spc,       \* "rrg", "nets", "graph", "load", "arrive", "report", "done"
    todo,      \* routed nets still to process
    tree,      \* their delay trees
    clkNets,   \* _clk_nets, the first entry is for the paths of no clock
    dffs,      \* _dffs: the clock domain of every sequential primitive
    mode,      \* "r2r", "i2r" or "r2o", once a report is asked for
    asked,     \* ends of paths still to report, as <<domain, end>>
    dom,       \* the domain of the path being traced
    trace,     \* its nodes, the end first
    found      \* [dom, nodes] of the paths reported

svars == <<spc, todo, tree, clkNets, dffs, mode, asked, dom, trace, found>>

SInit ==
    /\ RInit
    /\ TInit({dev.design})
    /\ delayOf = <<>>
    /\ mode = "none"
    /\ spc = "rrg" /\ todo = DOMAIN dev.routes /\ tree = <<>>
    /\ clkNets = <<Null>> /\ dffs = <<>>
    /\ asked = {} /\ dom = 0 /\ trace = <<>> /\ found = {}

BuildGraph ==
    /\ spc = "rrg"
    /\ \/ RNext /\ UNCHANGED spc
       \/ pc = "done" /\ spc' = (IF todo = {} THEN "graph" ELSE "nets") /\ UNCHANGED rvars
    /\ UNCHANGED <<tvars, todo, tree, clkNets, dffs, mode, asked, dom, trace, found>>

(* process_net *)
ProcessNet(n) ==
    /\ spc = "nets" /\ n \in todo
    /\ LET T == BuildNetTree(dev.routes[n])
           d == SinkDelays(T, PinCap)
       IN  IF dev.routes[n].pips = <<>> THEN UNCHANGED <<tree, delayOf>>
           ELSE /\ tree' = tree @@ (n :> T)
                /\ delayOf' = d @@ delayOf
    /\ todo' = todo \ {n}
    /\ spc' = IF todo' = {} THEN "graph" ELSE "nets"
    /\ UNCHANGED <<rvars, nl, tpc, tnodes, seen, stack, sorted, edelay, arr, req, maxd, slack>>
    /\ UNCHANGED <<clkNets, dffs, mode, asked, dom, trace, found>>

(* create_tgraph *)
CreateGraph ==
    /\ spc = "graph"
    /\ CreateTGraph \/ TopoVisit \/ TopoLeave
    /\ spc' = IF tpc' = "built" THEN "load" ELSE "graph"
    /\ UNCHANGED <<rvars, todo, tree, clkNets, dffs, mode, asked, dom, trace, found>>

(***************************************************************************)
(* mark_sequentials: the clock net of a slice is the one at the last of    *)
(* its connected clock pins, and the domain of the registers in it is that *)
(* net's place in the list.                                                *)
(***************************************************************************)
IndexOf(s, x) == SelectInSeq(s, LAMBDA y : y = x)
ClockPins(i) == SelectSeq(nl.order, LAMBDA p : /\ nl.pin[p].inst = i /\ Connected(p)
                                               /\ p \in nl.clkNamed)

(* Mutant of find_clock_nets: a net that is known already gives no index. *)
find_clock_nets_new(s, i) ==
    FoldLeft(LAMBDA a, p :
                LET net == nl.pin[p].net
                IN  IF Contains(a.nets, net) THEN a
                    ELSE [a EXCEPT !.nets = Append(@, net), !.idx = Len(a.nets)],
             [s EXCEPT !.idx = 0], ClockPins(i))

find_clock_nets(s, i) ==
    FoldLeft(LAMBDA a, p :
                LET net   == nl.pin[p].net
                    known == IF Contains(a.nets, net) THEN a.nets ELSE Append(a.nets, net)
                IN  [a EXCEPT !.nets = known, !.idx = IndexOf(known, net) - 1],
             [s EXCEPT !.idx = 0], ClockPins(i))

find_seq_primitives(s, i) ==
    [s EXCEPT !.dffs = [j \in DOMAIN @ \cup {k \in Registers : nl.parent[k] = i} |->
                            IF j \in DOMAIN @ THEN @[j] ELSE s.idx]]

MarkSequentials ==
    /\ spc = "load"
    /\ edelay' = Loaded
    /\ LET m == FoldLeft(LAMBDA a, i : find_seq_primitives(find_clock_nets(a, i), i),
                         [nets |-> clkNets, idx |-> 0, dffs |-> dffs], nl.slices)
       IN  clkNets' = m.nets /\ dffs' = m.dffs
    /\ spc' = "arrive"
    /\ UNCHANGED <<rvars, nl, delayOf, tpc, tnodes, seen, stack, sorted, arr, req, maxd, slack>>
    /\ UNCHANGED <<todo, tree, mode, asked, dom, trace, found>>

(* t_domain_index *)
DomainOf(n) == IF n[1] = "src" THEN dffs[nl.pin[Owner(n)].inst] ELSE 0

PrimaryInputs == {n \in TNodes : InEdges(n) = {}}
PrimaryOutputs == {n \in TNodes \ PrimaryInputs : OutEdges(n) = {}}

(* The end of the paths into a register: one of its nodes that lead nowhere. *)
EndsAt(i) == {n \in PrimaryOutputs : nl.pin[Owner(n)].inst = i}
OneEndEach(ends) == \A i \in DOMAIN dffs : Cardinality({e \in ends : e \in EndsAt(i)}) = 1

(* report_r2r, report_i2r and report_r2o: the ends and domains they go over. *)
Reported(kind, ends) ==
    CASE kind = "r2r" -> {<<dffs[i], n>> : <<i, n>> \in
                             {x \in (DOMAIN dffs) \X ends : x[2] \in EndsAt(x[1]) /\ dffs[x[1]] > 0}}
      [] kind = "i2r" -> {<<0, n>> : n \in ends}
      [] kind = "r2o" -> {<<d, n>> \in (1..(Len(clkNets) - 1)) \X PrimaryOutputs :
                             IsMpin(Owner(n))}

Arrive ==
    /\ spc = "arrive"
    /\ mode' \in {"r2r", "i2r", "r2o"}
    /\ LET fwd == ComputeTArr(edelay, [n \in TNodes |-> DomainOf(n)], Len(clkNets))
       IN  /\ arr' = fwd.arr /\ maxd' = fwd.max
           /\ IF dffs = <<>> THEN asked' = {}
              ELSE \E ends \in SUBSET PrimaryOutputs :
                     /\ OneEndEach(ends) /\ ends \subseteq UNION {EndsAt(i) : i \in DOMAIN dffs}
                     /\ asked' = {r \in Reported(mode', ends) : arr'[r[2]][r[1]] > 0}
    /\ spc' = "report"
    /\ UNCHANGED <<rvars, nl, delayOf, tpc, tnodes, seen, stack, sorted, edelay, req, slack>>
    /\ UNCHANGED <<todo, tree, clkNets, dffs, dom, trace, found>>

(***************************************************************************)
(* The reports trace the worst path to each of their ends, one after the   *)
(* other.  trace_from_primary_output goes back over any edge that explains *)
(* the arrival until a node without in edges is met.                       *)
(***************************************************************************)
StartTrace ==
    /\ spc = "report" /\ trace = <<>> /\ asked # {}
    /\ LET r == CHOOSE x \in asked : TRUE
       IN  dom' = r[1] /\ trace' = <<r[2]>> /\ asked' = asked \ {r}
    /\ UNCHANGED <<rvars, tvars, spc, todo, tree, clkNets, dffs, mode, found>>

(* Mutants of Explains: the comparison is strict; it is made in the domain *)
(* of no clock.                                                            *)
ExplainsStrictly(e) == arr[e[1]][dom] + edelay[e] > arr[e[2]][dom]

ExplainsUnclocked(e) == arr[e[1]][0] + edelay[e] >= arr[e[2]][0]

Explains(e) == arr[e[1]][dom] + edelay[e] >= arr[e[2]][dom]

TraceBack ==
    /\ spc = "report" /\ trace # <<>>
    /\ Last(trace) \notin PrimaryInputs
    /\ \E e \in InEdges(Last(trace)) :
          /\ Explains(e)
          /\ trace' = Append(trace, e[1])
    /\ UNCHANGED <<rvars, tvars, spc, todo, tree, clkNets, dffs, mode, asked, dom, found>>

EndTrace ==
    /\ spc = "report" /\ trace # <<>>
    /\ Last(trace) \in PrimaryInputs
    /\ found' = found \cup {[dom |-> dom, nodes |-> trace]}
    /\ trace' = <<>>
    /\ UNCHANGED <<rvars, tvars, spc, todo, tree, clkNets, dffs, mode, asked, dom>>

EndReport ==
    /\ spc = "report" /\ trace = <<>> /\ asked = {}
    /\ spc' = "done"
    /\ UNCHANGED <<rvars, tvars, todo, tree, clkNets, dffs, mode, asked, dom, trace, found>>

WriteReport == StartTrace \/ TraceBack \/ EndTrace \/ EndReport

SNext ==
    \/ BuildGraph
    \/ \E n \in DOMAIN dev.routes : ProcessNet(n)
    \/ CreateGraph \/ MarkSequentials \/ Arrive
    \/ WriteReport

SSpec == SInit /\ [][SNext]_<<rvars, tvars, svars>> /\ WF_svars(WriteReport)

-----------------------------------------------------------------------------
(***************************************************************************)
(* The graph that the delay trees are grown over has the wires of the      *)
(* device for its nodes: each wire is one node, and a node one wire, in    *)
(* whatever order the columns and rows handed their cells on.              *)
(***************************************************************************)
NodesAreExactlyWires == spc = "rrg" => ExactlyWires

(* The pips of a routed net from its source to a sink, sink first, as pairs of nodes. *)
RouteTo(net, s) ==
    LET conns == ToSet(Conns(net))
        back[seg \in DOMAIN box] ==
            IF seg = SegOf(net.src) THEN <<>>
            ELSE LET c == CHOOSE x \in conns : x[2] = seg IN <<c>> \o back[c[1]]
    IN  back[SegOf(s)]

(* What the delay of a sink is made of: the nodes of the tree above its pin. *)
Above(T, name) ==
    LET up[k \in DOMAIN T.node] ==
            IF T.node[k].parent = Null THEN <<>>
            ELSE <<T.node[k].parent>> \o up[T.node[k].parent]
    IN  SelectSeq(up[name], LAMBDA k : T.node[k].sw # Null)

(* Two switches that a wire leads to in the tile where it is driven: the
   code hangs the later ones on the first. *)
Crowded(net) ==
    \E i, j \in DOMAIN sw :
        /\ sw[i].from = sw[j].from /\ sw[i].pos = sw[j].pos /\ i < j
        /\ \E c \in ToSet(Conns(net)) :
              /\ c[2] = sw[i].from
              /\ sw[FindSwitch(sw, c[1], c[2])].pos = sw[i].pos

(***************************************************************************)
(* The delay of a sink is that of its route: every switch node above the   *)
(* sink's pin in the delay tree is open, and they are the pips from the    *)
(* source to the sink, in order.  Nothing in the code relates the two: the *)
(* tree is grown from the pins of tiles and by names.  A wire with two     *)
(* switches where it is driven is the known exception.                     *)
(***************************************************************************)
DelayFollowsRoute ==
    spc = "graph" /\ tpc = "new" =>
        \A n \in DOMAIN tree :
            /\ tree[n].lost = {}
            /\ ~Crowded(dev.routes[n]) =>
                 \A s \in ToSet(dev.routes[n].sinks) :
                    LET up == Above(tree[n], <<"pin", s.pin>>)
                    IN  /\ \A k \in DOMAIN up : tree[n].node[up[k]].on
                        /\ [k \in DOMAIN up |-> LET x == tree[n].node[up[k]].sw IN <<x.from, x.to>>]
                              = RouteTo(dev.routes[n], s)

(***************************************************************************)
(* The period reported is that of the longest path: the paths reported are *)
(* paths of the timing graph from a source of the domain, and no path of   *)
(* the domain to an end of the report is longer than the one reported.     *)
(***************************************************************************)
LengthOf(p) == FoldLeft(LAMBDA a, k : a + edelay[<<p[k + 1], p[k]>>], 0,
                        [k \in 1..(Len(p) - 1) |-> k])
Starts(d) == {n \in PrimaryInputs : DomainOf(n) = d}

PathsAreLongest ==
    spc = "done" =>
        \A p \in found :
            /\ \A k \in 1..(Len(p.nodes) - 1) : <<p.nodes[k + 1], p.nodes[k]>> \in DOMAIN edelay
            /\ Last(p.nodes) \in Starts(p.dom)
            /\ LengthOf(p.nodes) = LongestTo(edelay, Starts(p.dom))[p.nodes[1]]

(***************************************************************************)
(* No register is forgotten: a register that a longer than zero path of    *)
(* its own clock ends at is in the report from registers to registers,     *)
(* with the domain of its clock net, if nothing else of it leads nowhere.  *)
(***************************************************************************)
ClockOf(i) == nl.pin[Last(ClockPins(nl.parent[i]))].net
NoRegisterMissed ==
    spc = "done" /\ mode = "r2r" =>
        \A i \in Registers :
            LET snk    == <<"snk", ClockPin(i)>>
                same   == {<<"src", ClockPin(j)>> : j \in
                              {k \in Registers : ClockPins(nl.parent[k]) # <<>>
                                                 /\ ClockOf(k) = ClockOf(i)}}
            IN  ClockPins(nl.parent[i]) # <<>> /\ EndsAt(i) = {snk}
                    /\ LongestTo(edelay, same)[snk] > 0
                  => \E p \in found : p.nodes[1] = snk /\ clkNets[p.dom + 1] = ClockOf(i)

(***************************************************************************)
(* Every report comes to its end: from every end of a path the tracing     *)
(* finds an edge that explains the arrival, again and again, until it is   *)
(* at a node without in edges.                                             *)
(***************************************************************************)
ReportEnds == spc = "report" ~> spc = "done"
=============================================================================
