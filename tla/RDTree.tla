------------------------------- MODULE RDTree -------------------------------
(***************************************************************************)
(* The delay tree of a routed net: src/sta/rd_engine.cpp, rd_tree.cpp and  *)
(* net_walk_guider.cpp.  From the net's pips and the routing resource      *)
(* graph a tree is grown: its root is the source pin; where a wire crosses *)
(* a border it gets a line node, where switches hang on the wire it gets a *)
(* switch node each, of which the net's pips are on, and a routed sink     *)
(* ends in an output node.  Capacitance runs up the tree, delay down.      *)
(*                                                                         *)
(* The tables of the interconnect library are linear here: a stage costs   *)
(* its load and a part of the slope it is driven with, and hands on a      *)
(* slope of its own.                                                       *)
(***************************************************************************)
EXTENDS RRG, FiniteSetsExt

CONSTANTS CinOn, CoutOn, CinOff,  \* capacitances of a switch (ICPath)
          LineCap,                \* cin_on and cout_on of the LINE model
          FirstSlope              \* DEF_TRAN_RISE

StageDelay(load, slope) == load + slope
StageSlope(load, slope) == load

-----------------------------------------------------------------------------
(* NetWalkGuider: the tile pins that a net of the GRM reaches, and those
   that a tile pin reaches through its tile. *)
TileAt(pos) == dev.tile[pos]
find_grm_net_pins(pos, w) ==
    UNION {n.pins : n \in {m \in TileAt(pos).nets : w \in m.grm}}
find_tile_pin_pins(pos, p) ==
    UNION {n.pins \ {p} : n \in {m \in TileAt(pos).nets : p \in m.pins}}


(* Mutant of Opposite: the pin is looked for on the same side next door. *)
SameSide(side) == side

Opposite(side) == CASE side = "L" -> "R" [] side = "R" -> "L" [] side = "T" -> "B" [] OTHER -> "T"
Offset(pos, side) == CASE side = "L" -> <<pos[1], pos[2] - 1>> [] side = "R" -> <<pos[1], pos[2] + 1>>
                       [] side = "T" -> <<pos[1] - 1, pos[2]>> [] OTHER -> <<pos[1] + 1, pos[2]>>

-----------------------------------------------------------------------------
(***************************************************************************)
(* A tree under construction is a record of                                *)
(*   node   the nodes by name: [type, on, parent, sw, kids]                *)
(*   seg    cur_seg_                                                       *)
(*   repo   cur_switch_repo_: the switches of that segment by tile         *)
(*   lost   pips whose switch node was not found                           *)
(* Switches are named by the segment they are seen from, as in             *)
(* switch_node_name, lines by the segment and the two tiles.               *)
(***************************************************************************)
SwitchName(s, seg) == <<"sw", seg, s.pos, s.path>>
LineName(seg, from, to) == <<"line", seg, from, to>>

EmptyTree == [node |-> <<>>, seg |-> 0, repo |-> <<>>, lost |-> {}]

(* add_node: a name that is there already is not added again. *)
AddNode(T, name, type, parent, switch) ==
    IF name \in DOMAIN T.node THEN T
    ELSE LET n == [type |-> IF switch # Null /\ switch.path.type = "dummy" THEN "DUMMY" ELSE type,
                   on |-> FALSE, parent |-> parent, sw |-> switch, kids |-> <<>>]
             old == IF parent = Null THEN T.node
                    ELSE [T.node EXCEPT ![parent].kids = Append(@, name)]
         IN  [T EXCEPT !.node = old @@ (name :> n)]

(* set_seg *)
SwitchesOf(seg) == SelectSeq(sw, LAMBDA s : s.from = seg)
SetSeg(T, seg) ==
    LET all == SwitchesOf(seg)
    IN  [T EXCEPT !.seg = seg,
                  !.repo = [pos \in {s.pos : s \in ToSet(all)} |->
                              SelectSeq(all, LAMBDA s : s.pos = pos)]]

(***************************************************************************)
(* check_switch_attach.  On a line, or at the source, all switches of the  *)
(* segment at the tile hang on the driver.  At the tile of the switch that *)
(* drives the segment only the first one does, and the others hang on it.  *)
(***************************************************************************)
AttachTo(T, driver, switches) ==
    FoldLeft(LAMBDA a, s : AddNode(a, SwitchName(s, a.seg), "SWITCH", driver, s), T, switches)

CheckSwitchAttach(T, pos, driver) ==
    IF pos \notin DOMAIN T.repo THEN T
    ELSE IF T.node[driver].type \in {"LINE", "INPUT"}
    THEN LET A == AttachTo(T, driver, T.repo[pos])
         IN  [A EXCEPT !.repo = [p \in DOMAIN @ \ {pos} |-> @[p]]]
    ELSE LET first == Head(T.repo[pos])
         IN  AttachTo(AttachTo(T, driver, <<first>>), SwitchName(first, T.seg), Tail(T.repo[pos]))

(* stretch_pins_to_adjacent_tiles and stretch_tile_pin_nodes. *)
RECURSIVE Stretch(_, _, _, _)
Stretch(T, driver, pos, pins) ==
    FoldLeft(LAMBDA a, p :
                LET to   == Offset(pos, p[1])
                    line == LineName(a.seg, pos, to)
                IN  IF to \notin DOMAIN dev.tile THEN a
                    ELSE Stretch(AddNode(a, line, "LINE", driver, Null), line, to,
                                 find_tile_pin_pins(to, <<Opposite(p[1]), p[2]>>)),
             CheckSwitchAttach(T, pos, driver),
             SetToSeq(pins))

(***************************************************************************)
(* build_pips: the pips of the net in the order of a depth first visit     *)
(* from the source.  The switch is the first one between the two segments, *)
(* wherever the pip of the net was.                                        *)
(***************************************************************************)
RECURSIVE DfsVisitSeg(_, _, _)
DfsVisitSeg(st, seg, conns) ==
    LET outs == SelectSeq(conns, LAMBDA c : c[1] = seg)
        done == FoldLeft(LAMBDA a, c :
                    LET b == [a EXCEPT !.pips = Append(@, sw[FindSwitch(sw, seg, c[2])])]
                    IN  IF c[2] \in b.seen THEN b ELSE DfsVisitSeg(b, c[2], conns),
                    st, outs)
    IN  [done EXCEPT !.seen = @ \cup {seg}]

Conns(net) == [k \in DOMAIN net.pips |->
                 <<find_grm_net_node(net.pips[k].from, net.pips[k].pos),
                   find_grm_net_node(net.pips[k].to, net.pips[k].pos)>>]
SegOf(pin) == find_logic_pin_node(pin.module, pin.z, pin.name, pin.dir, pin.pos)
PipsOf(net) == DfsVisitSeg([pips |-> <<>>, seen |-> {}], SegOf(net.src), Conns(net)).pips

(***************************************************************************)
(* build_net_tree.  A net is [src, sinks, pips]: pins as [pin, pos, module,*)
(* z, name, dir] with the place and kind of their instance and their name  *)
(* and direction on it, and pips as [pos, from, to].                       *)
(* The driver of a pip whose switch node was not built is the leaf that a  *)
(* breadth first walk reaches last.                                        *)
(***************************************************************************)
Root(net) == <<"pin", net.src.pin>>
(* find_sink_pin_by_seg: the map keeps one pin per segment, the first. *)
SinkOn(net, seg) ==
    LET on == SelectSeq(net.sinks, LAMBDA s : SegOf(s) = seg)
    IN  IF on = <<>> THEN <<>> ELSE <<Head(on)>>

RECURSIVE LastLeaf(_, _)
LastLeaf(T, queue) ==
    LET q == Tail(queue) \o T.node[Head(queue)].kids
    IN  IF q = <<>> THEN Head(queue) ELSE LastLeaf(T, q)

AddPip(T, net, s) ==
    LET name   == SwitchName(s, s.from)
        found  == name \in DOMAIN T.node
        driver == IF found THEN name ELSE LastLeaf(T, <<Root(net)>>)
        opened == [T EXCEPT !.node[driver].on = TRUE,
                            !.lost = IF found THEN @ ELSE @ \cup {s}]
        grown  == Stretch(SetSeg(opened, s.to), driver, s.pos, find_grm_net_pins(s.pos, s.path.to))
    IN  FoldLeft(LAMBDA a, x : AddNode(a, <<"pin", x.pin>>, "OUTPUT", driver, Null),
                 grown, SinkOn(net, s.to))

BuildNetTree(net) ==
    LET pips  == PipsOf(net)
        start == AddNode(SetSeg(EmptyTree, pips[1].from), Root(net), "INPUT", Null, Null)
        src   == Stretch(start, Root(net), pips[1].pos,
                         find_grm_net_pins(pips[1].pos, pips[1].path.from))
    IN  FoldLeft(LAMBDA a, s : AddPip(a, net, s), src, pips)

-----------------------------------------------------------------------------
(* calc_cap: [in, out] of every node. *)
Capacitance(T, pinCap) ==
    LET cap[k \in DOMAIN T.node] ==
            LET n   == T.node[k]
                ext == FoldLeft(LAMBDA a, c : a + cap[c].in, 0, n.kids)
            IN  CASE n.type = "SWITCH" /\ ~n.on -> [in |-> CinOff, out |-> 0]
                  [] n.type = "SWITCH" /\ n.on /\ n.sw.path.type = "buf" ->
                        [in |-> CinOn, out |-> CoutOn + ext]
                  [] n.type = "SWITCH" /\ n.on -> [in |-> ext + CoutOn + CinOn, out |-> ext + CoutOn]
                  [] n.type = "LINE"   -> [in |-> ext + 2 * LineCap, out |-> ext + LineCap]
                  [] n.type = "OUTPUT" -> [in |-> pinCap, out |-> ext]
                  [] n.type = "DUMMY"  -> [in |-> ext, out |-> ext]
                  [] OTHER             -> [in |-> 0, out |-> ext]
    IN  cap

(***************************************************************************)
(* calc_delay: [arr, slope] at every node, handed on by update_arr_and_    *)
(* tran.  A switch that is off, like the source, hands on the defaults.    *)
(***************************************************************************)
Delay(T, pinCap) ==
    LET cap == Capacitance(T, pinCap)
        after(n, out, at) ==
            CASE n.type = "LINE" \/ (n.type = "SWITCH" /\ n.on) ->
                    [arr |-> at.arr + StageDelay(out, at.slope), slope |-> StageSlope(out, at.slope)]
              [] n.type = "DUMMY" /\ n.on -> [arr |-> at.arr, slope |-> 0]
              [] OTHER -> [arr |-> 0, slope |-> FirstSlope]
        at[k \in DOMAIN T.node] ==
            LET p == T.node[k].parent
            IN  IF p = Null THEN [arr |-> 0, slope |-> FirstSlope]
                ELSE after(T.node[p], cap[p].out, at[p])
    IN  at

(* set_delay_data: the property DELAY of the routed sinks. *)
SinkDelays(T, pinCap) ==
    LET d    == Delay(T, pinCap)
        ends == {k \in DOMAIN T.node : T.node[k].type = "OUTPUT"}
    IN  [p \in {k[2] : k \in ends} |-> d[<<"pin", p>>].arr]
=============================================================================
