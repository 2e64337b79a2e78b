-------------------------------- MODULE MCPlacer --------------------------------
(***************************************************************************)
(* Chains, LUT6 pairs, single and constrained slices on one column of      *)
(* three tiles with two slices each (rows 1 to 3, row 0 has no SLICE), as  *)
(* on the FDP devices; chains and a constrained slice on two columns of    *)
(* two tiles with four slices, of which a carry chain takes two; single    *)
(* sites with nets on five tiles of one slot (as an IOB or BLOCKRAM has).  *)
(***************************************************************************)
EXTENDS Placer, TLC

CONSTANTS c1, c2, c3, l1, l2, s1, s2, f1

MCInst == {c1, c2, c3, l1, l2, s1, s2, f1}

(* Physically, another column lies between two. *)
Device(tiles, rows, cols, slices, chains) ==
    [tiles |-> tiles, phyPos |-> [t \in tiles |-> [x |-> t[1], y |-> 2 * t[2]]],
     delays |-> <<<<1, 3>>, <<2, 5>>>>, rows |-> rows, cols |-> cols, botRow |-> rows - 1, slices |-> slices, chains |-> chains]

OneColumn == Device({1, 2, 3} \X {0}, 4, 1, 2, <<<<0>>, <<1>>>>)

TwoColumns == Device({1, 2} \X {0, 1}, 3, 2, 4, <<<<0, 1>>, <<2, 3>>>>)

FiveSites == Device({<<1, 0>>, <<2, 0>>, <<1, 1>>, <<2, 1>>, <<3, 1>>}, 4, 2, 1, <<<<0>>>>)

Design(device, insts, cst, netSeq) ==
    [device |-> device, insts |-> insts, cst |-> cst, nets |-> netSeq,
     minRlim |-> 1, mode |-> "BOUNDING_BOX"]

Net(pins) == [pins |-> pins, type |-> "", port |-> FALSE]

(* The chain of instances is, each net with a sink beside the CIN pin.     *)
Carry(is) ==
    [k \in 1..(Len(is) - 1) |->
        Net(<<Pin(is[k + 1], "CIN", FALSE), Pin(is[k], "COUT", TRUE)>>)]

Lut6(a, b) == <<Net(<<Pin(a, "F5", TRUE), Pin(b, "F5IN", FALSE)>>)>>

Signal(i, js) == Net(<<Pin(i, "X", TRUE)>> \o [k \in DOMAIN js |-> Pin(js[k], "F1", FALSE)])

FixedAt(ps) == {[i \in {f1} |-> p] : p \in ps}

Free == [i \in {} |-> NULL]

(* A chain, a single slice and a constrained one on any slot or none. *)
ChainDesigns ==
    {Design(OneColumn, <<c1, c2, f1, s1>>, c, Carry(<<c2, c1>>)) :
        c \in FixedAt(OneColumn.tiles \X {0, 1})}
    \cup {Design(OneColumn, <<c1, c2, s1>>, Free, Carry(<<c2, c1>>))}

(* A LUT6 pair and single slices, and the same beside a chain. *)
Lut6Designs ==
    {Design(OneColumn, <<l1, l2, s1, s2>>, Free, Lut6(l1, l2)),
     Design(OneColumn, <<c1, c2, l1, l2, s1>>, Free, Lut6(l2, l1) \o Carry(<<c1, c2>>))}

(* Too much for the device: pairs after a chain in every tile, sites. *)
FullDesigns ==
    {Design(OneColumn, <<c1, c2, c3, l1, l2>>, Free, Carry(<<c1, c3, c2>>) \o Lut6(l1, l2)),
     Design(OneColumn, <<c1, c2, c3, l1, l2, s1, s2>>, Free, Carry(<<c1, c2>>) \o Lut6(l1, l2))}

(* Chains of three do not fill their last tile; a constrained slice is on  *)
(* any slot.                                                               *)
LongChainDesigns ==
    {Design(TwoColumns, <<c1, c2, c3, f1>>, c, Carry(<<c1, c2, c3>>)) :
        c \in FixedAt(TwoColumns.tiles \X {0, 1, 2, 3})}
    \cup {Design(TwoColumns, <<c1, c2, c3, l1, l2, s1>>, Free,
                 Carry(<<c1, c2, c3>>) \o Carry(<<s1, l2, l1>>))}

(* Constraints that cannot be met: a slot the device has not, one slot     *)
(* twice, one end of a carry net.  Two fixed ends are all right.           *)
ConstrainedDesigns ==
    {Design(OneColumn, <<c1, c2, f1>>, at, Carry(<<c1, c2>>)) :
        at \in [{c1, f1} -> {<<<<2, 0>>, 1>>, <<<<0, 0>>, 0>>}]}
    \cup {Design(OneColumn, <<c1, c2, s1>>, c1 :> <<<<2, 0>>, 0>> @@ c2 :> <<<<2, 0>>, 1>>,
                 Carry(<<c1, c2>>)),
          Design(OneColumn, <<f1, s1>>, f1 :> <<<<1, 0>>, 2>>, <<>>),
          Design(OneColumn, <<f1, s1>>, f1 :> <<<<1, 0>>, 1>> @@ s1 :> <<<<1, 0>>, 1>>, <<>>)}

(* Three single objects and a constrained one share three nets, with one   *)
(* that is ignored for its clock and one for its port; the whole device    *)
(* stays in range.  One net comes back to its driver, and one drives a     *)
(* sink twice.                                                             *)
SharedNets ==
    <<Signal(s1, <<s2, s1>>), Signal(s2, <<l1, f1, l1>>), Signal(l1, <<s1, s2>>),
      [Signal(s1, <<l1, f1>>) EXCEPT !.port = TRUE],
      [Signal(f1, <<s2>>) EXCEPT !.type = "CLOCK"]>>

SharedDesigns ==
    {[Design(FiveSites, <<f1, l1, s1, s2>>, f1 :> <<<<2, 1>>, 0>>, SharedNets)
        EXCEPT !.minRlim = 4, !.mode = mode] : mode \in {"BOUNDING_BOX", "TIMING_DRIVEN"}}

MCNetlists ==
    ChainDesigns \cup Lut6Designs \cup FullDesigns \cup LongChainDesigns
    \cup ConstrainedDesigns \cup SharedDesigns
=============================================================================
