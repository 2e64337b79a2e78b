------------------------------- MODULE BaseCost -------------------------------
(***************************************************************************)
(* What a wire costs before any congestion, and its resistance and         *)
(* capacitance: Router::initialize from set_rrgnodes_base_cost_index to    *)
(* add_base_cost_info, and modify_base_cost_infos at the head of either    *)
(* routing loop.  A node belongs to a class by its name, its extent and    *)
(* whether anything hangs on it; a class has one cost.                     *)
(*                                                                         *)
(* A device d is [switches, named, fromPos, toPos, grid, unitR, unitC,     *)
(* ext]: named[x] says which pattern the wire's name has, ext[x] is the    *)
(* capacitance of its switches.  Base costs are in quarters; averages and  *)
(* the normalising factor are rounded down.  Of the three kinds of base    *)
(* cost the command line offers two.                                       *)
(***************************************************************************)
EXTENDS Integers, FiniteSets, FiniteSetsExt

SOURCE == 0
CLK == 1
SINK == 2
SINGLE == 3
HEX == 4
LONG == 5

IGN_DIR == -1
HORIZONTAL == 0
VERTICAL == 1

SEG_TYPE_NUM == 3
LLENGTH == 7
clb_average_dist == 3

(* RRGNode::direction, length and type *)
Direction(d, x) ==
    CASE d.fromPos[x] = d.toPos[x]        -> IGN_DIR
      [] d.fromPos[x].y # d.toPos[x].y    -> HORIZONTAL
      [] OTHER                            -> VERTICAL

Length(d, x) ==
    CASE Direction(d, x) = HORIZONTAL -> d.toPos[x].y - d.fromPos[x].y
      [] Direction(d, x) = VERTICAL   -> d.toPos[x].x - d.fromPos[x].x
      [] OTHER                        -> 0

Type(d, x) ==
    CASE d.named[x] = "GCLK"                         -> CLK
      [] d.named[x] = "LONG" /\ Length(d, x) # 0     -> LONG
      [] d.named[x] = "HEX"                          -> HEX
      [] Length(d, x) \in {1, 2}                     -> SINGLE
      [] d.switches[x] # {}                          -> SOURCE
      [] OTHER                                       -> SINK

(* set_rrgnodes_base_cost_index: the index of a class and, per node, what the
   unit resistance and capacitance of a wire become.  A hex wire cut to one
   tile has no direction, and so the index of a clock wire. *)
CostIndex(d, x) ==
    IF Type(d, x) \in {SOURCE, CLK, SINK} THEN Type(d, x)
    ELSE Direction(d, x) * SEG_TYPE_NUM + Type(d, x)

Resistance(d, x) ==
    CASE Type(d, x) \in {SOURCE, CLK, SINK} -> 0
      [] Type(d, x) \in {SINGLE, HEX}       -> (d.unitR * Length(d, x)) \div 2
      [] OTHER                              -> d.unitR * LLENGTH

Capacitance(d, x) ==
    d.ext[x] + CASE Type(d, x) \in {SOURCE, CLK, SINK} -> 0
                 [] Type(d, x) \in {SINGLE, HEX}       -> (d.unitC * Length(d, x)) \div 2
                 [] OTHER                              -> d.unitC * LLENGTH
-----------------------------------------------------------------------------
(***************************************************************************)
(* add_base_cost_info, load_base_cost_TValue: a class of segments has the  *)
(* length of its wires (a long wire that of the device) and the average    *)
(* resistance and capacitance of those in the tile in the middle.  A wire  *)
(* over that tile is taken to be one net of its routing matrix.            *)
(***************************************************************************)
SegmentLength(d, i) ==
    CASE i \in {SINGLE, SEG_TYPE_NUM + SINGLE} -> 1
      [] i \in {HEX, SEG_TYPE_NUM + HEX}       -> 6
      [] i = LONG                              -> d.grid.x
      [] i = SEG_TYPE_NUM + LONG               -> d.grid.y

TypicalPos(d) == [x |-> d.grid.x \div 2 - 1, y |-> d.grid.y \div 2 - 1]

Typical(d) ==
    LET p == TypicalPos(d)
    IN  {x \in DOMAIN d.switches : /\ d.fromPos[x].x <= p.x /\ p.x <= d.toPos[x].x
                                   /\ d.fromPos[x].y <= p.y /\ p.y <= d.toPos[x].y}

Segments(d, i) == {x \in Typical(d) : CostIndex(d, x) = i}

C_average(d, i) == MapThenSumSet(LAMBDA x : Capacitance(d, x), Segments(d, i))
                     \div Cardinality(Segments(d, i))
R_average(d, i) == MapThenSumSet(LAMBDA x : Resistance(d, x), Segments(d, i))
                     \div Cardinality(Segments(d, i))

(* Delay of a class, linear in its length (in twentieths) and quadratic (in
   fortieths), over a switch with a resistance of 7/10 and a delay of 1/10. *)
TLinear(d, i) == 2 * (1 + 7 * C_average(d, i))
TQuadratic(d, i) == 2 * (7 + 10 * R_average(d, i)) * C_average(d, i)

(* get_delay_norm_fac: the mean delay per tile of the segments of the tile
   in the middle, over a distance of clb_average_dist, in quarters. *)
NormFac(d) ==
    LET wires  == {x \in Typical(d) : CostIndex(d, x) >= SINGLE}
        tdel(x) == LET i == CostIndex(d, x)
                       l == SegmentLength(d, i)
                   IN  (4 * (2 * TLinear(d, i) * l + clb_average_dist * TQuadratic(d, i)))
                         \div (40 * l * l)
    IN  MapThenSumSet(tdel, wires) \div Cardinality(Typical(d))
-----------------------------------------------------------------------------
(* save_base_cost, for the kinds "DEMAND_ONLY" and "DELAY_NORMALIZED" *)
SavedCost(d, kind, i) ==
    LET norm == IF kind = "DELAY_NORMALIZED" THEN NormFac(d) ELSE 4
    IN  CASE i = SOURCE -> norm [] i = CLK -> norm \div 2 [] i = SINK -> 0 [] OTHER -> 4

(* modify_base_cost_infos: clock wires are made cheaper, singles dearer. *)
ModifiedCost(d, kind, i) ==
    CASE i = CLK                              -> SavedCost(d, kind, i) \div 2
      [] i \in {SINGLE, SEG_TYPE_NUM + SINGLE} -> SavedCost(d, kind, i) * 2
      [] OTHER                                -> SavedCost(d, kind, i)

(* The device as the routing loops see it. *)
Initialized(d, kind) ==
    [switches |-> d.switches, fromPos |-> d.fromPos, toPos |-> d.toPos, grid |-> d.grid,
     base |-> [x \in DOMAIN d.switches |-> ModifiedCost(d, kind, CostIndex(d, x))],
     res  |-> [x \in DOMAIN d.switches |-> Resistance(d, x)],
     cap  |-> [x \in DOMAIN d.switches |-> Capacitance(d, x)],
     sw   |-> d.sw]
===============================================================================
