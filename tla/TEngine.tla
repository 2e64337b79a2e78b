------------------------------- MODULE TEngine -------------------------------
(***************************************************************************)
(* The timing engine: src/common/tengine/tengine.cpp.  Placer, router and  *)
(* static timing analyser share it: a graph with a node per connected pin  *)
(* and two more per register is built from the netlist once (REBUILD); the *)
(* delays of the connections are loaded, arrival and required times run    *)
(* through the graph in topological order, and every further analysis      *)
(* (INCREMENT) loads new delays into the same graph and runs again.        *)
(*                                                                         *)
(* Delays are integers, and one number stands for the pair of rising and   *)
(* falling delay, which the code treats alike and apart from each other.   *)
(***************************************************************************)
EXTENDS Integers, Sequences, FiniteSets, SequencesExt, FiniteSetsExt

CONSTANTS
    MinTime,     \* MINIMUM_FLOAT, an arrival before every other
    MaxTime,     \* MAXIMUM_FLOAT
    NoNet        \* the net of a pin that is not connected

ASSUME TimeAssumption == MinTime \in Int /\ MinTime <= 0 /\ MaxTime \in Int

(***************************************************************************)
(* A netlist nl is a record of                                             *)
(*   pin[p]    [inst, sink, clk, net, inner]: the instance ("top" for a    *)
(*             port of the design), the direction as the net sees it, is   *)
(*             it of type CLOCK, the net, and for a pin of a composite     *)
(*             instance the net below its down pin                         *)
(*   order     the pins in the order create_all_nodes comes by             *)
(*   comp      the composite instances; all others are primitives          *)
(*   top       the nets of the top module                                  *)
(*   arc[<<i, o>>], setup[i], clkq[o]: delays of the timing tables, where  *)
(*             the tables have an entry                                    *)
(***************************************************************************)
VARIABLES
    nl,       \* the netlist
    delayOf,  \* delayOf[p]: the property DELAY of a sink pin
    tpc,      \* "new", "sort", "built"
    tnodes,   \* _tnodes, in the order of their indices
    seen,     \* nodes with is_visited()
    stack,    \* the recursion of topo_visit
    sorted,   \* _sorted_tnodes, latest first
    edelay,   \* edelay[e]: delay of an edge
    arr,      \* arr[n][d]: arrival at node n in clock domain d
    req,      \* req[n]: required time
    maxd,     \* maxd[d]: _max_delay_vec
    slack     \* slack[p]: the property SLACK of a sink pin

tvars == <<nl, delayOf, tpc, tnodes, seen, stack, sorted, edelay, arr, req, maxd, slack>>

Pins == DOMAIN nl.pin
Connected(p) == nl.pin[p].net # NoNet
IsMpin(p) == nl.pin[p].inst = "top"
IsComp(p) == nl.pin[p].inst \in nl.comp
IsPrim(p) == ~IsMpin(p) /\ ~IsComp(p)
PinsOf(i) == {p \in Pins : nl.pin[p].inst = i /\ Connected(p)}

(* Net::sink_pins and source_pins; inside a composite instance the pins of
   its module are seen from below, where an input of it is a source. *)
SinkPins(n) == {p \in Pins : (nl.pin[p].net = n /\ nl.pin[p].sink)
                          \/ (nl.pin[p].inner = n /\ ~nl.pin[p].sink)}
SourcePins(n) == {p \in Pins : (nl.pin[p].net = n /\ ~nl.pin[p].sink)
                            \/ (nl.pin[p].inner = n /\ nl.pin[p].sink)}

At(p) == CHOOSE k \in DOMAIN nl.order : nl.order[k] = p
FirstPin(ps) == CHOOSE p \in ps : \A q \in ps : At(p) <= At(q)
Lookup(f, x) == IF x \in DOMAIN f THEN f[x] ELSE 0

(* Properties f written over the properties g, as f @@ g. *)
Over(f, g) == [x \in DOMAIN f \cup DOMAIN g |-> IF x \in DOMAIN f THEN f[x] ELSE g[x]]

(***************************************************************************)
(* create_all_nodes.  A node is <<kind, pin>>: the node of the pin, which  *)
(* a composite instance's pin shares with its down pin, or the source and  *)
(* sink that the clock pin of a register owns, or the source before the    *)
(* output of a constant generator.                                         *)
(***************************************************************************)
PinNode(p) == <<"pin", p>>
Owner(n) == n[2]
IsRegister(i) == \E p \in PinsOf(i) : nl.pin[p].clk
ClockPin(i) == CHOOSE p \in PinsOf(i) : nl.pin[p].clk
HasInput(i) == \E p \in PinsOf(i) : nl.pin[p].sink

NodesOfPin(p) ==
    IF ~Connected(p) THEN <<>>
    ELSE <<PinNode(p)>> \o
         CASE IsPrim(p) /\ nl.pin[p].sink /\ nl.pin[p].clk -> <<<<"src", p>>, <<"snk", p>>>>
           [] IsPrim(p) /\ ~nl.pin[p].sink /\ ~HasInput(nl.pin[p].inst) -> <<<<"gen", p>>>>
           [] OTHER -> <<>>

NodeSeq == FlattenSeq([k \in DOMAIN nl.order |-> NodesOfPin(nl.order[k])])
TNodes == ToSet(tnodes)

(***************************************************************************)
(* create_all_conns: from a port to its pad, along nets (create_conn skips *)
(* pins without a node), into a composite instance, and through primitives *)
(* by their timing tables.                                                 *)
(***************************************************************************)
NetEdges(p) ==
    LET n == IF IsComp(p) /\ nl.pin[p].sink THEN nl.pin[p].inner ELSE nl.pin[p].net
    IN  {<<PinNode(p), PinNode(q)>> : q \in {s \in SinkPins(n) : Connected(s)}}

PortEdges ==
    {<<PinNode(p), PinNode(FirstPin(SinkPins(nl.pin[p].net)))>> :
        p \in {q \in Pins : IsMpin(q) /\ Connected(q) /\ ~nl.pin[q].sink}}

CompEdges == UNION {NetEdges(p) : p \in {q \in Pins : IsComp(q) /\ Connected(q)}}

Registers == {i \in {nl.pin[p].inst : p \in Pins} \ (nl.comp \cup {"top"}) : IsRegister(i)}

PrimEdges ==
    UNION {NetEdges(o) : o \in {q \in Pins : IsPrim(q) /\ Connected(q) /\ ~nl.pin[q].sink}}

SetupEdges ==
    UNION {{<<PinNode(p), <<"snk", ClockPin(i)>>>> : p \in {q \in PinsOf(i) : nl.pin[q].sink}}
             : i \in Registers}
ClkQEdges ==
    UNION {{<<<<"src", ClockPin(i)>>, PinNode(o)>> : o \in {q \in PinsOf(i) : ~nl.pin[q].sink}}
             : i \in Registers}
GenEdges == {<<n, PinNode(n[2])>> : n \in {m \in ToSet(NodeSeq) : m[1] = "gen"}}

ArcEdges ==
    UNION {{<<PinNode(p), PinNode(q)>> :
              q \in {o \in Pins : /\ Connected(o) /\ nl.pin[o].inst = nl.pin[p].inst
                                 /\ ~nl.pin[o].sink}}
             : p \in {i \in Pins : /\ IsPrim(i) /\ Connected(i) /\ nl.pin[i].sink
                                  /\ nl.pin[i].inst \notin Registers}}

Edges == PortEdges \cup CompEdges \cup PrimEdges \cup SetupEdges \cup ClkQEdges
            \cup GenEdges \cup ArcEdges

(* The delay an edge is created with: find_primitive_inst_delay, or zero. *)
BuiltDelay(e) ==
    CASE e[1][1] = "gen" -> MinTime
      [] e[2][1] = "snk" -> Lookup(nl.setup, Owner(e[1]))
      [] e[1][1] = "src" -> Lookup(nl.clkq, Owner(e[2]))
      [] OTHER           -> Lookup(nl.arc, <<Owner(e[1]), Owner(e[2])>>)

OutEdges(n) == {e \in DOMAIN edelay : e[1] = n}
InEdges(n)  == {e \in DOMAIN edelay : e[2] = n}

-----------------------------------------------------------------------------
TInit(designs) ==
    /\ nl \in designs
    /\ tpc = "new"
    /\ tnodes = <<>> /\ seen = {} /\ stack = <<>> /\ sorted = <<>>
    /\ edelay = <<>> /\ arr = <<>> /\ req = <<>> /\ maxd = <<>> /\ slack = <<>>

CreateTGraph ==
    /\ tpc = "new"
    /\ tnodes' = NodeSeq
    /\ edelay' = [e \in Edges |-> BuiltDelay(e)]
    /\ arr' = [n \in ToSet(NodeSeq) |-> <<>>] /\ req' = [n \in ToSet(NodeSeq) |-> MaxTime]
    /\ tpc' = IF NodeSeq = <<>> THEN "built" ELSE "sort"
    /\ UNCHANGED <<nl, delayOf, seen, stack, sorted, maxd, slack>>

(***************************************************************************)
(* topo_sort: visit the nodes by index and follow the out edges, which are *)
(* kept in the order of delays and addresses; a node is listed after all   *)
(* that it leads to.                                                       *)
(***************************************************************************)
TopoVisit ==
    /\ tpc = "sort"
    /\ IF stack = <<>>
       THEN LET left == {k \in DOMAIN tnodes : tnodes[k] \notin seen}
            IN  /\ left # {}
                /\ stack' = <<tnodes[Min(left)]>> /\ seen' = seen \cup {tnodes[Min(left)]}
       ELSE \E e \in OutEdges(Head(stack)) :
                /\ e[2] \notin seen
                /\ stack' = <<e[2]>> \o stack /\ seen' = seen \cup {e[2]}
    /\ UNCHANGED <<nl, delayOf, tpc, tnodes, sorted, edelay, arr, req, maxd, slack>>

TopoLeave ==
    /\ tpc = "sort"
    /\ stack # <<>>
    /\ \A e \in OutEdges(Head(stack)) : e[2] \in seen
    /\ sorted' = Append(sorted, Head(stack)) /\ stack' = Tail(stack)
    /\ tpc' = IF Len(sorted') = Len(tnodes) THEN "built" ELSE "sort"
    /\ UNCHANGED <<nl, delayOf, tnodes, seen, edelay, arr, req, maxd, slack>>

(* load_rt_delay, for the first source of every net of the top module. *)
Loaded ==
    LET srcs == {PinNode(FirstPin(SourcePins(n))) :
                    n \in {m \in nl.top : SinkPins(m) \cup SourcePins(m) # {}}}
    IN  [e \in DOMAIN edelay |->
            IF e[1] \in srcs THEN Lookup(delayOf, Owner(e[2])) ELSE edelay[e]]

(* initial_tdata: vectors grow to the number of domains, and keep what they hold. *)
Grown(v, doms, x) == [d \in 0..(doms - 1) |-> IF d \in DOMAIN v THEN v[d] ELSE x]

Greater(a, b) == IF a > b THEN a ELSE b
Lesser(a, b) == IF a < b THEN a ELSE b

(* Mutant of PushArrivals: the arrival of the last edge counts, not the latest. *)
PushArrivalsLast(s, n, delays, dom) ==
    LET from == IF InEdges(n) = {} THEN [s.arr[n] EXCEPT ![dom[n]] = 0] ELSE s.arr[n]
        doms == DOMAIN from
    IN  [max |-> [d \in doms |-> Greater(s.max[d], from[d])],
         arr |-> [m \in DOMAIN s.arr |->
                    IF m = n THEN from
                    ELSE IF <<n, m>> \in DOMAIN delays
                    THEN [d \in doms |-> from[d] + delays[<<n, m>>]]
                    ELSE s.arr[m]]]

(***************************************************************************)
(* compute_tarr: sources of the graph start in their clock domain, every   *)
(* node pushes its arrivals over its out edges, and the maximal delays     *)
(* take notice.                                                            *)
(***************************************************************************)
PushArrivals(s, n, delays, dom) ==
    LET from == IF InEdges(n) = {} THEN [s.arr[n] EXCEPT ![dom[n]] = 0] ELSE s.arr[n]
        doms == DOMAIN from
    IN  [max |-> [d \in doms |-> Greater(s.max[d], from[d])],
         arr |-> [m \in DOMAIN s.arr |->
                    IF m = n THEN from
                    ELSE IF <<n, m>> \in DOMAIN delays
                    THEN [d \in doms |-> Greater(s.arr[m][d], from[d] + delays[<<n, m>>])]
                    ELSE s.arr[m]]]

ComputeTArr(delays, dom, doms) ==
    LET after[k \in 0..Len(sorted)] ==
            IF k = 0 THEN [arr |-> [n \in TNodes |-> Grown(arr[n], doms, MinTime)],
                           max |-> Grown(maxd, doms, 0)]
            ELSE PushArrivals(after[k - 1], sorted[Len(sorted) + 1 - k], delays, dom)
    IN  after[Len(sorted)]

(* compute_treq: the ends are required at the maximal delay, the rest
   before what they lead to. *)
PullRequired(r, n, delays, max) ==
    [r EXCEPT ![n] = IF OutEdges(n) = {} THEN max
                     ELSE Min({@} \cup {r[e[2]] - delays[e] : e \in OutEdges(n)})]

ComputeTReq(r, delays, max) ==
    LET after[k \in 0..Len(sorted)] ==
            IF k = 0 THEN r ELSE PullRequired(after[k - 1], sorted[k], delays, max)
    IN  after[Len(sorted)]

(* compute_slack: for the pins that the sources of top nets lead to. *)
SlackEdges ==
    {e \in DOMAIN edelay : \E n \in nl.top : Owner(e[1]) \in SourcePins(n) /\ e[1][1] = "pin"}
ComputeSlack(a, r, delays) ==
    [p \in {Owner(e[2]) : e \in SlackEdges} |->
        LET e == CHOOSE x \in SlackEdges : Owner(x[2]) = p
        IN  r[e[2]] - a[e[1]][0] - delays[e]]

(* compute_tgraph up to the slacks: the engine itself has one clock domain. *)
AnalyseTimes(delays) ==
    LET fwd == ComputeTArr(delays, [n \in TNodes |-> 0], 1)
    IN  /\ edelay' = delays
        /\ arr' = fwd.arr /\ maxd' = fwd.max
        /\ req' = ComputeTReq(req, delays, fwd.max[0])

Analyse(delays) ==
    /\ AnalyseTimes(delays)
    /\ slack' = ComputeSlack(arr', req', delays)

(***************************************************************************)
(* The reference: the longest path to a node from the sources of a domain, *)
(* MinTime where there is none.                                            *)
(***************************************************************************)
LongestTo(delays, starts) ==
    LET len[n \in TNodes] ==
            Max({IF n \in starts THEN 0 ELSE MinTime}
                \cup {len[e[1]] + delays[e] : e \in {x \in DOMAIN delays : x[2] = n}})
    IN  len
=============================================================================
