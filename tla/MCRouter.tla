------------------------------- MODULE MCRouter -------------------------------
(***************************************************************************)
(* Two nets that compete for four wires; a third net came completely       *)
(* routed over w3 (or, in the other netlist, partially routed: its second  *)
(* sink is still to be reached).                                           *)
(***************************************************************************)
EXTENDS Router

CONSTANTS netA, netB, netP, sA, sB, sP, tA, tB, tP, tQ, w1, w2, w3, w4

MCNode == {sA, sB, sP, tA, tB, tP, tQ, w1, w2, w3, w4}

MCNet == {netA, netB, netP}

MCNetSeq == <<netA, netP, netB>>

Always == {<<sA, w1>>, <<sA, w2>>, <<sB, w2>>, <<sB, w3>>, <<sP, w3>>, <<w3, tP>>}

Optional == {<<w1, tA>>, <<w2, tA>>, <<w2, tB>>, <<w3, tB>>, <<w1, w4>>, <<w2, w4>>, <<w4, tB>>}

At(i) == [x |-> i, y |-> 0]

Column == [x \in MCNode |-> CASE x \in {sA, sB, sP} -> 0 [] x \in {w1, w2, w3} -> 1
                              [] x = w4 -> 2 [] x \in {tA, tB, tP, tQ} -> 3]

MCDevices ==
    {[switches |-> [x \in MCNode |-> {y \in MCNode : <<x, y>> \in E \cup Always}],
      named    |-> [x \in MCNode |-> IF x = w2 THEN "HEX" ELSE "OTHER"],
      fromPos  |-> [x \in MCNode |-> At(Column[x])],
      toPos    |-> [x \in MCNode |-> At(IF x \in {w1, w2, w3} THEN 2 ELSE Column[x])],
      grid     |-> [x |-> 4, y |-> 2],
      unitR    |-> 0, unitC |-> 0, ext |-> [x \in MCNode |-> 0], sw |-> <<>>]
       : E \in SUBSET Optional}

Record(s, ts, f) ==
    [src |-> s, sinks |-> ts, fixed |-> f, kind |-> "PLAIN", pins |-> {At(0), At(3)}]

MCNetlist == [n \in MCNet |-> CASE n = netA -> Record(sA, <<tA>>, <<>>)
                                [] n = netB -> Record(sB, <<tB>>, <<>>)
                                [] n = netP -> Record(sP, <<tP>>, <<sP, w3, tP>>)]

(* netP came with the branch to tP only; w3 leads to its second sink as well. *)
MCPartialNetlist == [MCNetlist EXCEPT ![netP].sinks = <<tP, tQ>>]

MCPartialDevices ==
    {[r EXCEPT !.switches[w3] = @ \cup {tQ}] : r \in MCDevices}

MCCapacity == [x \in MCNode |-> 1]

MCOptions ==
    {[algo |-> "BREADTH_FIRST", bcost |-> "DEMAND_ONLY", astar |-> 0, bbFac |-> 3],
     [algo |-> "DIRECTED_SEARCH", bcost |-> "DEMAND_ONLY", astar |-> 8, bbFac |-> 3]}

MCDirectedOptions == {o \in MCOptions : o.algo = "DIRECTED_SEARCH"}
=============================================================================
