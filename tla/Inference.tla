------------------------------- MODULE Inference -------------------------------
(***************************************************************************)
(* What the placer reads off the packed netlist before it places: carry    *)
(* chains, from the nets with a CIN and a COUT pin, LUT6 pairs, from those *)
(* with an F5 and an F5IN pin, the objects that it will move, the nets     *)
(* whose cost does not count and the instances on the others.              *)
(*                                                                         *)
(* A design d is [device, insts, cst, nets, ...]: its instances in the     *)
(* order of their names, the positions that constraints give some of them, *)
(* and its nets, [pins, type, port]: port is TRUE where a pin of the top   *)
(* module is on the net, and a pin is [inst, name, source].                *)
(***************************************************************************)
EXTENDS Integers, Sequences, FiniteSets

ElemsOf(s) == {s[k] : k \in DOMAIN s}

Lowest(S) == CHOOSE m \in S : \A v \in S : m <= v

(* The elements of a sequence that are in S, in its order: SelectSeq, as a *)
(* function that proofs can unfold.                                        *)
Only(s, S) ==
    LET kept[n \in 0..Len(s)] ==
            IF n = 0 THEN <<>>
            ELSE IF s[n] \in S THEN Append(kept[n - 1], s[n]) ELSE kept[n - 1]
    IN  kept[Len(s)]

Highest(S) == CHOOSE m \in S : \A v \in S : m >= v

Pin(i, name, source) == [inst |-> i, name |-> name, source |-> source]

(* The pins of net n with a name, by their index. *)
Named(n, name) == {k \in DOMAIN n.pins : n.pins[k].name = name}

Joins(n, out, in) == Named(n, out) # {} /\ Named(n, in) # {}

(* The instance of the first pin with that name. *)
Owner(n, name) == n.pins[Lowest(Named(n, name))].inst

IsCst(d, i) == i \in DOMAIN d.cst
-----------------------------------------------------------------------------
(* find_chains *)
CarryNets(d) == {k \in DOMAIN d.nets : Joins(d.nets[k], "COUT", "CIN")}

CoutOf(d, k) == Owner(d.nets[k], "COUT")

CinOf(d, k) == Owner(d.nets[k], "CIN")

(* "illegal constraint for carry chain": one end of a carry net is fixed. *)
IllegalChain(d) ==
    \E k \in CarryNets(d) : IsCst(d, CoutOf(d, k)) # IsCst(d, CinOf(d, k))

ChainNets(d) == {k \in CarryNets(d) : ~IsCst(d, CoutOf(d, k)) /\ ~IsCst(d, CinOf(d, k))}

Nodes(d) == UNION {{CoutOf(d, k), CinOf(d, k)} : k \in ChainNets(d)}

(* ChainNode::create_to_edge: a later edge of the same node replaces it. *)
ToEdge(d) ==
    [i \in {CoutOf(d, k) : k \in ChainNets(d)} |->
        CinOf(d, Highest({k \in ChainNets(d) : CoutOf(d, k) = i}))]

(* Mutant of Starts: the nodes without an edge to another one. *)
StartsAtTop(d) == Nodes(d) \ DOMAIN ToEdge(d)

(* The nodes without a from edge. *)
Starts(d) == Nodes(d) \ {CinOf(d, k) : k \in ChainNets(d)}

(* store_chains: along the edges from i. *)
ChainFrom(d, i) ==
    LET to == ToEdge(d)
        upTo[n \in 0..Cardinality(Nodes(d))] ==
            IF n = 0 THEN <<i>>
            ELSE LET c == upTo[n - 1]
                 IN  IF Len(c) = n /\ c[n] \in DOMAIN to THEN Append(c, to[c[n]]) ELSE c
    IN  upTo[Cardinality(Nodes(d))]

Chains(d) ==
    LET starts == Only(d.insts, Starts(d))
    IN  [k \in DOMAIN starts |-> ChainFrom(d, starts[k])]
-----------------------------------------------------------------------------
(* LUT6Inference::inference *)
PairNets(d) == Only(d.nets, {n \in ElemsOf(d.nets) : Joins(n, "F5", "F5IN")})

Pairs(d) ==
    [k \in DOMAIN PairNets(d) |-> <<Owner(PairNets(d)[k], "F5"), Owner(PairNets(d)[k], "F5IN")>>]

(* The instances init_place_site is left with. *)
Singles(d) ==
    LET inMacro == UNION {ElemsOf(m) : m \in ElemsOf(Chains(d) \o Pairs(d))}
    IN  Only(d.insts, ElemsOf(d.insts) \ (DOMAIN d.cst \cup inMacro))

ObjectsOf(type, groups) == [k \in DOMAIN groups |-> [type |-> type, insts |-> groups[k]]]

(* The swap objects, in the order in which init_place makes and places them. *)
Objects(d) ==
    ObjectsOf("CARRY_CHAIN", Chains(d))
    \o ObjectsOf("LUT6", Pairs(d))
    \o ObjectsOf("SITE", [k \in DOMAIN Singles(d) |-> <<Singles(d)[k]>>])
-----------------------------------------------------------------------------
(* set_ignored of both inferences and set_ignored_nets. *)
Ignored(n) ==
    \/ Joins(n, "COUT", "CIN")
    \/ Joins(n, "F5", "F5IN")
    \/ n.type \in {"CARRY", "CLOCK", "VCC"}
    \/ \A k \in DOMAIN n.pins : ~n.pins[k].source
    \/ n.port

(* store_connected_insts: each instance once, and none of an ignored net.  *)
ConnectedInsts(n) ==
    LET stored[k \in 0..Len(n.pins)] ==
            IF k = 0 THEN <<>>
            ELSE IF n.pins[k].inst \in ElemsOf(stored[k - 1]) THEN stored[k - 1]
            ELSE Append(stored[k - 1], n.pins[k].inst)
    IN  IF Ignored(n) THEN <<>> ELSE stored[Len(n.pins)]

(* check_and_save_cst: a constraint names a slot of the device, and no two *)
(* the same one.                                                           *)
IllegalConstraint(d) ==
    \/ \E i \in DOMAIN d.cst : d.cst[i] \notin d.device.tiles \X (0..(d.device.slices - 1))
    \/ \E i, j \in DOMAIN d.cst : i # j /\ d.cst[i] = d.cst[j]
=============================================================================
