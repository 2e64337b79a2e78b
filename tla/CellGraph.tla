------------------------------- MODULE CellGraph -------------------------------
(***************************************************************************)
(* The graph of a cell (src/packing CellGraph.cpp, Factory.cpp): a node    *)
(* for every instance, an arc for every pair of a source pin and an        *)
(* instance its net reaches.  The graph of the design is built once and    *)
(* then follows the netlist, one signal before each change.                *)
(*                                                                         *)
(* A cell is a record: type gives the type of each instance, net the net   *)
(* of each connected pin <<instance, pin>>, port the ports, and nodes,     *)
(* arcs (with the sink pins each carries) and pure (the sinks counted for  *)
(* a net) are its graph, which changes with the netlist while follows      *)
(* (is_graph_update_) is set.                                              *)
(***************************************************************************)
EXTENDS Integers, FiniteSets, SequencesExt

CONSTANT PinDir     \* per type and pin: "in", "out" or "inout"

Node(i) == [kind |-> "node", inst |-> i]

Arc(n, s, t) == [kind |-> "arc", net |-> n, src |-> s, tar |-> t]

-----------------------------------------------------------------------------
(* The netlist.                                                            *)

Insts(c) == DOMAIN c.type

Dir(c, p) == PinDir[c.type[p[1]]][p[2]]

Pins(c, i) == {<<i, p>> : p \in DOMAIN PinDir[c.type[i]]}

Hooked(c) == DOMAIN c.net

Nets(c) == {c.net[p] : p \in Hooked(c)} \cup {c.port[q].net : q \in DOMAIN c.port}

SourcePins(c, n) == {p \in Hooked(c) : c.net[p] = n /\ Dir(c, p) # "in"}

SinkPins(c, n) == {p \in Hooked(c) : c.net[p] = n /\ Dir(c, p) # "out"}

(* Seen from inside, an input port drives its net and an output port loads it. *)
PortsOf(c, n, dir) == {q \in DOMAIN c.port : c.port[q].net = n /\ c.port[q].dir = dir}

-----------------------------------------------------------------------------
(* The graph built from nothing.                                           *)

PureSinks(c, n) == Cardinality(SinkPins(c, n))

BuiltArcs(c) ==
    LET ends == {<<s, t>> \in Hooked(c) \X Hooked(c) :
                    c.net[s] = c.net[t] /\ Dir(c, s) # "in" /\ Dir(c, t) # "out"}
    IN  [a \in {Arc(c.net[e[1]], e[1], e[2][1]) : e \in ends} |->
            {t[2] : t \in {t \in SinkPins(c, a.net) : t[1] = a.tar}}]

BuildGraph(c) ==
    [type |-> c.type, net |-> c.net, port |-> c.port,
     nodes |-> Insts(c), arcs |-> BuiltArcs(c),
     pure |-> [n \in Nets(c) |-> PureSinks(c, n)], follows |-> TRUE]

-----------------------------------------------------------------------------
(* What the ports of a rule cell demand of the objects that match it.      *)

SinkNumType(r, n) ==
    IF PortsOf(r, n, "out") = {} THEN "EQUAL"
    ELSE IF \E q \in PortsOf(r, n, "out") : r.port[q].connect THEN "MORE" ELSE "NOT_LESS"

InputSinks(r, q, i) == {t[2] : t \in {t \in SinkPins(r, r.port[q].net) : t[1] = i}}

(* A source pin only a bus_ignore port follows may stay open. *)
OutIgnored(r, n) ==
    SinkPins(r, n) = {} /\ \E q \in PortsOf(r, n, "out") : r.port[q].ignore

ConnectPins(r, i) ==
    UNION {InputSinks(r, q, i) :
              q \in {q \in DOMAIN r.port : r.port[q].dir = "in" /\ r.port[q].connect}}
    \cup {p[2] : p \in {p \in Hooked(r) :
              /\ p[1] = i
              /\ SourcePins(r, r.net[p]) # {}
              /\ Dir(r, p) = "out" => ~OutIgnored(r, r.net[p])}}

(* An input port ties the pins of consecutive instances it reaches. *)
CommonNets(r) ==
    UNION {LET reached == SetToSeq({t[1] : t \in SinkPins(r, r.port[q].net)})
           IN  {[first |-> reached[k], second |-> reached[k + 1], port |-> q] :
                    k \in 1 .. Len(reached) - 1} :
              q \in {q \in DOMAIN r.port : r.port[q].dir = "in"}}

-----------------------------------------------------------------------------
(* The graph that follows the netlist.                                     *)

Without(f, S) == [x \in DOMAIN f \ S |-> f[x]]

InstCreated(c, i, ty) ==
    [c EXCEPT !.type = (i :> ty) @@ @, !.nodes = IF c.follows THEN @ \cup {i} ELSE @]

(* Mutant of ArcsLost: an arc goes with the first of its sink pins. *)
ArcsLostEarly(c, p) ==
    {a \in DOMAIN c.arcs : a.net = c.net[p] /\
        \/ Dir(c, p) = "out" /\ a.src[1] = p[1]
        \/ Dir(c, p) = "in" /\ a.tar = p[1]}

ArcsLost(c, p) ==
    {a \in DOMAIN c.arcs : a.net = c.net[p] /\
        \/ Dir(c, p) = "out" /\ a.src[1] = p[1]
        \/ Dir(c, p) = "in" /\ a.tar = p[1] /\ Cardinality(c.arcs[a]) = 1}

PinUnhooked(c, p) ==
    LET n == c.net[p]
        kept == Without(c.arcs, ArcsLost(c, p))
    IN  IF ~c.follows THEN [c EXCEPT !.net = Without(@, {p})]
        ELSE [c EXCEPT
            !.net = Without(@, {p}),
            !.pure = IF Dir(c, p) = "in" THEN [@ EXCEPT ![n] = @ - 1] ELSE @,
            !.arcs = [a \in DOMAIN kept |->
                        IF Dir(c, p) = "in" /\ a.net = n /\ a.tar = p[1]
                        THEN kept[a] \ {p[2]} ELSE kept[a]]]

ArcsGained(c, n, p) ==
    CASE Dir(c, p) = "out" /\ c.pure[n] # 0 ->
            [a \in {Arc(n, p, t[1]) : t \in SinkPins(c, n)} |->
                {t[2] : t \in {t \in SinkPins(c, n) : t[1] = a.tar}}]
      [] Dir(c, p) = "in" /\ \E a \in DOMAIN c.arcs : a.net = n /\ a.tar = p[1] ->
            [a \in {a \in DOMAIN c.arcs : a.net = n /\ a.tar = p[1]} |-> c.arcs[a] \cup {p[2]}]
      [] Dir(c, p) = "in" /\ ~\E a \in DOMAIN c.arcs : a.net = n /\ a.tar = p[1] ->
            [a \in {Arc(n, s, p[1]) : s \in SourcePins(c, n)} |-> {p[2]}]
      [] OTHER -> [a \in {} |-> {}]

PinHooked(c, n, p) ==
    IF ~c.follows THEN [c EXCEPT !.net = (p :> n) @@ @]
    ELSE [c EXCEPT
        !.net = (p :> n) @@ @,
        !.pure = IF Dir(c, p) = "in" THEN [@ EXCEPT ![n] = @ + 1] ELSE @,
        !.arcs = ArcsGained(c, n, p) @@ @]

(* The node goes with its arcs; then the pins are disconnected unannounced. *)
InstsRemoved(c, S) ==
    [c EXCEPT
        !.type = Without(@, S),
        !.net = Without(@, {p \in Hooked(c) : p[1] \in S}),
        !.nodes = IF c.follows THEN @ \ S ELSE @,
        !.arcs = IF c.follows THEN Without(@, {a \in DOMAIN @ : a.src[1] \in S \/ a.tar \in S})
                 ELSE @]

NetsRemoved(c, N) ==
    [c EXCEPT !.net = Without(@, {p \in Hooked(c) : c.net[p] \in N}),
              !.port = Without(@, UNION {PortsOf(c, n, "in") \cup PortsOf(c, n, "out") : n \in N})]
=============================================================================
