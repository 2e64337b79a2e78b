--------------------------------- MODULE RRG ---------------------------------
(***************************************************************************)
(* The routing resource graph: src/common/rrg/rrg.cpp, RRGraph::build_rrg. *)
(* The device is a matrix of tiles.  A tile has pins on its four sides,    *)
(* nets that join pins with each other and with nets of the tile's routing *)
(* matrix (GRM).  One node is built per wire, where a wire may cross many  *)
(* tiles.  To find out which nets of which tiles are one wire the program  *)
(* goes through the columns from right to left and through the rows of a   *)
(* column from top to bottom, and hands every pin a cell that will hold    *)
(* the pointer to the node (RRGNode double pointers, from a pool that the  *)
(* next column but one uses again); pins that are joined share a cell.     *)
(*                                                                         *)
(* One action is one row of one step of one column.                        *)
(***************************************************************************)
EXTENDS Integers, Sequences, FiniteSets, SequencesExt

CONSTANTS
    Devices,   \* the device descriptions to build
    PoolSize,  \* cells in each of the two pools
    Null

(***************************************************************************)
(* A device is [rows, cols, bram, tile]: bram are the columns of block     *)
(* memories, and tile[<<r, c>>] is a record of                             *)
(*   ports   the sequence of [side, width] (ArchPort)                      *)
(*   nets    the set of [pins, grm] of nets of the tile: the tile pins and *)
(*           the GRM nets a net joins                                      *)
(*   grm     the sequence of the nets of the GRM, empty without a GRM      *)
(*   paths   the sequence of [from, to, type]: the pips of the GRM         *)
(*   logic   the sequence of [module, z, pins] of its logic: pins[p] is    *)
(*           [dir, net] with the net of the GRM that the pin is joined to  *)
(* Row 1 is the top row, column 1 the left one.                            *)
(***************************************************************************)
VARIABLES
    dev,      \* the device
    clash,    \* an ASSERTD has failed, in a build that leaves it out
    pc,       \* "init", "distinguish", "spread", "build", "done", "error"
    col, row, \* loop counters of build_rrg and of its steps
    cur,      \* cur[r][pin]: the cell of a tile pin in this column (ColNodePPtrs)
    last,     \* the same of the column before
    netp,     \* netp[r]: cell of each GRM net of row r (RRGArchNet::_pptrs)
    cell,     \* cell[p]: what a cell holds, a node or Null
    pool,     \* which of the two pools serves this column
    next,     \* MemPool::_next_pos of that pool
    box,      \* box[n]: [lo, hi] corners of node n (_from_pos, _to_pos)
    lut,      \* _nodes_lut: <<r, c, GRM net>> to node
    sw        \* the switches in the order they are created

rvars == <<dev, clash, pc, col, row, cur, last, netp, cell, pool, next, box, lut, sw>>

Tile(r, c) == dev.tile[<<r, c>>]
Rows == 1..dev.rows
PortPins(p) == [i \in 1..p.width |-> <<p.side, i>>]
PinSeq(ports) == FlattenSeq([k \in DOMAIN ports |-> PortPins(ports[k])])
TilePins(t) == ToSet(PinSeq(t.ports))
MaxWidth == 2
AllPins == {"L", "R", "T", "B"} \X (1..MaxWidth)
Cells == {0, 1} \X (1..PoolSize)
NoCells == [p \in AllPins |-> Null]

(***************************************************************************)
(* spread_ptr_to_tile_port_and_grm and spread_ptr_into_grm for one pin:    *)
(* everything on the pin's net takes over the pin's cell.  A tile pin is   *)
(* overwritten, a GRM net that has another cell already is an error.       *)
(***************************************************************************)
SpreadPin(t, s, p) ==
    LET nets == {n \in t.nets : p \in n.pins}
        mine == s.side[p]
    IN  IF nets = {} THEN s
        ELSE LET n == CHOOSE x \in nets : TRUE
                 taken == \E w \in n.grm : s.net[w] \notin {Null, mine}
             IN  [s EXCEPT
                    !.side = [q \in AllPins |-> IF q \in n.pins \ {p} THEN mine ELSE @[q]],
                    !.net  = [w \in DOMAIN @ |->
                                IF w \in n.grm /\ @[w] = Null THEN mine ELSE @[w]],
                    !.bad  = @ \/ taken \/ mine = Null]

SpreadPins(t, s, pins) == FoldLeft(LAMBDA a, p : SpreadPin(t, a, p), s, pins)

(* A port's pins without a cell get the next ones of the pool.  *)
Allocate(s, pins) ==
    FoldLeft(LAMBDA a, p : IF a.side[p] # Null THEN a
                           ELSE [a EXCEPT !.side[p] = <<pool, a.next>>, !.next = @ + 1],
             s, pins)

RInit ==
    /\ dev \in Devices
    /\ clash = FALSE
    /\ pc = "init" /\ col = dev.cols /\ row = 1
    /\ cur = [r \in Rows |-> NoCells] /\ last = cur
    /\ netp = [r \in Rows |-> <<>>]
    /\ cell = [p \in Cells |-> Null]
    /\ pool = 1 /\ next = 1
    /\ box = <<>> /\ lut = <<>> /\ sw = <<>>

(* MemPool::resize and reset *)
FreshCells == [p \in Cells |-> IF p[1] = pool THEN Null ELSE cell[p]]

(***************************************************************************)
(* Steps 0 and 1: init_grm_info forgets the cells of the GRM nets, the     *)
(* pool is emptied, and so are the pins (the top side of a lower row is    *)
(* overwritten from the row above before it is read).                      *)
(***************************************************************************)
StartColumn ==
    /\ pc = "init"
    /\ netp' = [r \in Rows |-> [w \in ToSet(Tile(r, col).grm) |-> Null]]
    /\ cell' = FreshCells
    /\ next' = 1 /\ row' = 1
    /\ cur' = [r \in Rows |-> NoCells]
    /\ pc' = "distinguish"
    /\ UNCHANGED <<dev, clash, col, last, pool, box, lut, sw>>

(* ASSERTD stops a debug build; a release build goes on. *)
AssertD(failed, then) ==
    \/ failed /\ pc' = "error" /\ clash' = TRUE
    \/ pc' = then /\ clash' = (clash \/ failed)

(***************************************************************************)
(* Step 2, distinguish_nets_in_a_column, for one row: first the cells that *)
(* come from the row above spread, then every port allocates and spreads;  *)
(* the bottom side is handed down.                                         *)
(***************************************************************************)
Distinguish ==
    /\ pc = "distinguish"
    /\ LET t    == Tile(row, col)
           s0   == [side |-> cur[row], net |-> netp[row], next |-> next, bad |-> FALSE]
           tops == SelectSeq(t.ports, LAMBDA p : p.side = "T")
           s1   == SpreadPins(t, s0, PinSeq(tops))
           s2   == FoldLeft(LAMBDA a, p : SpreadPins(t, Allocate(a, PortPins(p)), PortPins(p)),
                            s1, t.ports)
       IN  /\ cur' = [r \in Rows |->
                        CASE r = row     -> s2.side
                          [] r = row + 1 -> [p \in AllPins |->
                                IF p[1] = "T" THEN s2.side[<<"B", p[2]>>] ELSE cur[r][p]]
                          [] OTHER       -> cur[r]]
           /\ netp' = [netp EXCEPT ![row] = s2.net]
           /\ next' = s2.next
           /\ AssertD(s2.bad, IF row < dev.rows THEN "distinguish" ELSE "spread")
           /\ row' = IF row < dev.rows THEN row + 1 ELSE 1
    /\ UNCHANGED <<dev, col, last, cell, pool, box, lut, sw>>

(* Mutant of Crossing: the first pin of a side alone crosses the border. *)
CrossingFirst(m, p) ==
    LET from == last[row][<<"L", 1>>]
        to   == cur[row][<<"R", 1>>]
    IN  IF m.cell[to] = Null THEN [m EXCEPT !.cell[to] = m.cell[from]] ELSE m

(***************************************************************************)
(* Step 3, spread_nodes_from_last_column: the nodes of the column to the   *)
(* right cross the border.  Two nodes that meet in one cell are an error   *)
(* of a debug build; otherwise the first one stays.                        *)
(***************************************************************************)
Crossing(m, p) ==
    LET from == last[row][<<"L", p[2]>>]
        to   == cur[row][<<"R", p[2]>>]
    IN  IF m.cell[to] = Null THEN [m EXCEPT !.cell[to] = m.cell[from]]
        ELSE [m EXCEPT !.bad = @ \/ m.cell[to] # m.cell[from]]

SpreadColumn ==
    /\ pc = "spread"
    /\ LET pins == IF col = dev.cols THEN <<>>
                   ELSE SelectSeq(PinSeq(Tile(row, col + 1).ports), LAMBDA p : p[1] = "L")
           m == FoldLeft(Crossing, [cell |-> cell, bad |-> FALSE], pins)
       IN  /\ cell' = m.cell
           /\ AssertD(m.bad, IF row < dev.rows THEN "spread" ELSE "build")
           /\ row' = IF row < dev.rows THEN row + 1 ELSE 1
    /\ UNCHANGED <<dev, col, cur, last, netp, pool, next, box, lut, sw>>

(* RRGNode::update_boundary *)
Smaller(a, b) == IF a < b THEN a ELSE b
Larger(a, b) == IF a > b THEN a ELSE b

Widen(b, r, c) == [lo |-> <<Smaller(b.lo[1], r), Smaller(b.lo[2], c)>>,
                   hi |-> <<Larger(b.hi[1], r), Larger(b.hi[2], c)>>]

(* One GRM net in build_grm: its cell (a new one when no tile pin gave it one),
   its node (a new one when no column to the right built it), its boundary. *)
BuildNet(s, w) ==
    LET p  == IF s.net[w] = Null THEN <<pool, s.next>> ELSE s.net[w]
        n  == IF s.cell[p] = Null THEN Len(s.box) + 1 ELSE s.cell[p]
        b  == IF n > Len(s.box) THEN [lo |-> <<row, col>>, hi |-> <<row, col>>]
              ELSE Widen(s.box[n], row, col)
    IN  [s EXCEPT !.net[w] = p,
                  !.next = IF s.net[w] = Null THEN @ + 1 ELSE @,
                  !.cell[p] = n,
                  !.box = IF n > Len(@) THEN Append(@, b) ELSE [@ EXCEPT ![n] = b],
                  !.lut = [k \in DOMAIN @ \cup {<<row, col, w>>} |->
                              IF k = <<row, col, w>> THEN n ELSE @[k]]]

(* Step 4, build_grm: nodes of the nets, then the switches of the paths. *)
Build ==
    /\ pc = "build"
    /\ LET t == Tile(row, col)
           s == FoldLeft(BuildNet, [net |-> netp[row], next |-> next, cell |-> cell,
                                    box |-> box, lut |-> lut], t.grm)
       IN  /\ netp' = [netp EXCEPT ![row] = s.net]
           /\ next' = s.next /\ cell' = s.cell /\ box' = s.box /\ lut' = s.lut
           /\ sw' = sw \o [k \in DOMAIN t.paths |->
                              [from |-> s.lut[<<row, col, t.paths[k].from>>],
                               to   |-> s.lut[<<row, col, t.paths[k].to>>],
                               pos  |-> <<row, col>>, path |-> t.paths[k]]]
    /\ IF row < dev.rows THEN /\ row' = row + 1
                              /\ UNCHANGED <<pc, col, cur, last, pool>>
       ELSE /\ row' = 1
            /\ last' = cur /\ cur' = last /\ pool' = 1 - pool
            /\ IF col > 1 THEN col' = col - 1 /\ pc' = "init"
               ELSE col' = col /\ pc' = "done"
    /\ UNCHANGED <<dev, clash>>

RNext == StartColumn \/ Distinguish \/ SpreadColumn \/ Build
RSpec == RInit /\ [][RNext]_rvars /\ WF_rvars(RNext)

(***************************************************************************)
(* Where the users of the graph look their nodes up.  A block memory spans *)
(* the tiles above its own as well: RAM_SPAN_RNG positions are tried, the  *)
(* tile itself first.  (The program does not stop at the top row; only a   *)
(* pin or net that is in none of the tiles would take it further.)         *)
(***************************************************************************)
RAM_SPAN_RNG == 4

Span(pos) ==
    IF pos[2] \in dev.bram
    THEN [i \in 1..Smaller(RAM_SPAN_RNG, pos[1]) |-> <<pos[1] - i + 1, pos[2]>>]
    ELSE <<pos>>

(* find_grm_net_node: the search ends at a tile without a GRM. *)
find_grm_net_node(w, pos) ==
    LET hit(at) == Tile(at[1], at[2]).grm = <<>> \/ Contains(Tile(at[1], at[2]).grm, w)
        k       == SelectInSeq(Span(pos), hit)
        at      == Span(pos)[k]
    IN  IF k = 0 \/ Tile(at[1], at[2]).grm = <<>> THEN Null ELSE lut[<<at[1], at[2], w>>]

(* find_logic_pin_node, for a pin of an instance of a module at place z of
   the tile: the first instance of the span on which the pin is joined to a
   GRM, unless one comes before that does not have the pin. *)
find_logic_pin_node(module, z, p, dir, pos) ==
    LET alike(at) == SelectSeq(Tile(at[1], at[2]).logic, LAMBDA i : i.module = module /\ i.z = z)
        all       == FlattenSeq([j \in DOMAIN Span(pos) |->
                        LET at == Span(pos)[j]
                        IN  [i \in DOMAIN alike(at) |-> [at |-> at, pins |-> alike(at)[i].pins]]])
        lacks(i)  == p \notin DOMAIN i.pins \/ i.pins[p].dir # dir
        k         == SelectInSeq(all, LAMBDA i : lacks(i) \/ i.pins[p].net # Null)
    IN  IF k = 0 \/ lacks(all[k]) THEN Null
        ELSE lut[<<all[k].at[1], all[k].at[2], all[k].pins[p].net>>]

(* RRGNode::find_switch: the first switch of a node to another one. *)
FindSwitch(s, f, t) ==
    SelectInSeq(s, LAMBDA x : x.from = f /\ x.to = t)

-----------------------------------------------------------------------------
(***************************************************************************)
(* The reference: points of the device are its tile pins and GRM nets,     *)
(* <<r, c, x>>.  They are joined inside a tile by a net of the tile, and   *)
(* across a border by sitting opposite each other.                         *)
(***************************************************************************)
NetPoints == UNION {{<<k[1], k[2], w>> : w \in ToSet(dev.tile[k].grm)} : k \in DOMAIN dev.tile}
PinPoints == UNION {{<<k[1], k[2], p>> : p \in TilePins(dev.tile[k])} : k \in DOMAIN dev.tile}

Faces(p, q) ==
    /\ p[3][2] = q[3][2]
    /\ \/ p[1] = q[1] /\ p[2] + 1 = q[2] /\ p[3][1] = "R" /\ q[3][1] = "L"
       \/ p[1] + 1 = q[1] /\ p[2] = q[2] /\ p[3][1] = "B" /\ q[3][1] = "T"

Joints ==
    UNION {{{<<k[1], k[2], x>> : x \in n.pins \cup n.grm} : n \in dev.tile[k].nets}
              : k \in DOMAIN dev.tile}
    \cup {{p, q} : <<p, q>> \in {e \in PinPoints \X PinPoints : Faces(e[1], e[2])}}

(* The part of a point's wire in the columns from c on: everything joined to
   it there, directly or not.  Wire(point, 1) is the whole wire. *)
Wire(point, c) ==
    LET joints == {j \in Joints : \A x \in j : x[2] >= c}
        grow[s \in SUBSET (NetPoints \cup PinPoints)] ==
            LET t == s \cup UNION {j \in joints : j \cap s # {}}
            IN  IF t = s THEN s ELSE grow[t]
    IN  grow[{point}]

(* A net of a tile that joins two wires from above: the program gives their
   cells to both only below the place where they meet. *)
JoinsFromAbove ==
    \E k \in DOMAIN dev.tile : \E n \in dev.tile[k].nets :
        Cardinality({p \in n.pins : p[1] = "T"}) > 1

(* A wire that comes from the left and turns back to the left without ever
   entering a routing matrix: no node has been built that could cross twice. *)
TurnsUnseen ==
    \E q \in PinPoints :
        /\ q[3][1] = "L"
        /\ LET w == Wire(q, q[2])
           IN  /\ w \cap NetPoints = {}
               /\ \E p \in w : p # q /\ p[2] = q[2] /\ p[3][1] = "L"

(***************************************************************************)
(* Two nets of routing matrices get one node only if a wire joins them,    *)
(* however the columns and rows hand their cells on and whichever asserts  *)
(* are compiled in: the router never drives one wire through the node of   *)
(* another.  The corners of a node, against which its bounding box test is *)
(* made, are those of the tiles where the wire can be entered and left.    *)
(***************************************************************************)
NodesAreWires ==
    pc = "done" =>
        /\ \A a \in NetPoints : {b \in NetPoints : lut[b] = lut[a]} \subseteq Wire(a, 1)
        /\ \A n \in DOMAIN box :
            LET at == {k \in DOMAIN lut : lut[k] = n}
            IN  /\ \A k \in at : \A i \in 1..2 : box[n].lo[i] <= k[i] /\ k[i] <= box[n].hi[i]
                /\ \A i \in 1..2 : \E k, m \in at : k[i] = box[n].lo[i] /\ m[i] = box[n].hi[i]

(***************************************************************************)
(* The other direction, for devices on which no assertion of a debug build *)
(* fails: all that a wire joins has one node, so that the router sees      *)
(* every place where the wire can be entered and left and counts its users *)
(* together.  Two kinds of wire are beyond the sweep, and no assertion     *)
(* notices: those that meet from above, and those that turn back unseen.   *)
(***************************************************************************)
WiresAreNodes ==
    pc = "done" /\ ~clash /\ ~JoinsFromAbove /\ ~TurnsUnseen =>
        \A a \in NetPoints : \A b \in Wire(a, 1) \cap NetPoints : lut[a] = lut[b]

(***************************************************************************)
(* Both directions: to the router a node is one wire of the device, whole  *)
(* and alone.                                                              *)
(***************************************************************************)
ExactlyWires == NodesAreWires /\ WiresAreNodes
=============================================================================
