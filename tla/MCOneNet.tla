------------------------------- MODULE MCOneNet -------------------------------
(***************************************************************************)
(* A source, four wires and two sinks on a 4 x 1 device.  Six of the       *)
(* switches are optional and two wires are of different classes, and so of *)
(* different base costs, so the branches leave the trunk at every place;   *)
(* wire wd lies outside the box of a net that is neither global nor has a  *)
(* box factor.                                                             *)
(***************************************************************************)
EXTENDS OneNet

CONSTANTS net, sn, wa, wb, wc, wd, tk, uk

MCNode == {sn, wa, wb, wc, wd, tk, uk}

Optional == {<<wa, wb>>, <<wb, wa>>, <<wa, tk>>, <<wc, tk>>, <<wc, uk>>, <<wb, wd>>}

Always == {<<sn, wa>>, <<sn, wb>>, <<wb, wc>>, <<wa, wd>>, <<wd, uk>>, <<wd, tk>>}

At(i) == [x |-> i, y |-> 0]

Column == [x \in MCNode |-> CASE x \in {sn, wa} -> 0 [] x \in {wb, tk} -> 1
                              [] x \in {wc, uk} -> 2 [] x = wd -> 3]

(* Wire wa spans the columns 0 and 1. *)
MCDevices ==
    {[switches |-> [x \in MCNode |-> {y \in MCNode : <<x, y>> \in E \cup Always}],
      named    |-> [x \in MCNode |-> IF x = wa THEN i ELSE IF x = wc THEN j ELSE "OTHER"],
      fromPos  |-> [x \in MCNode |-> At(Column[x])],
      toPos    |-> [x \in MCNode |-> At(IF x = wa THEN 1 ELSE Column[x])],
      grid     |-> [x |-> 4, y |-> 2],
      unitR    |-> 0, unitC |-> 0, ext |-> [x \in MCNode |-> 0], sw |-> <<>>]
       : E \in SUBSET Optional, i \in {"OTHER", "GCLK"}, j \in {"OTHER", "HEX"}}

Unrouted(k) == [src |-> sn, sinks |-> <<tk, uk>>, fixed |-> <<>>, kind |-> k,
                pins |-> {At(0), At(1), At(2)}]

MCNetlists == {[m \in {net} |-> Unrouted(k)] : k \in {"CLOCK", "PLAIN"}}

MCOptions ==
    {[algo |-> "BREADTH_FIRST", bcost |-> "DEMAND_ONLY", astar |-> 0, bbFac |-> 0],
     [algo |-> "BREADTH_FIRST", bcost |-> "DEMAND_ONLY", astar |-> 0, bbFac |-> 1],
     [algo |-> "DIRECTED_SEARCH", bcost |-> "DEMAND_ONLY", astar |-> 0, bbFac |-> 1],
     [algo |-> "DIRECTED_SEARCH", bcost |-> "DEMAND_ONLY", astar |-> 8, bbFac |-> 0],
     [algo |-> "DIRECTED_SEARCH", bcost |-> "DEMAND_ONLY", astar |-> 8, bbFac |-> 1]}

(* The same net with a fixed path to tk: partially routed. *)
MCPartialNetlists ==
    {[m \in {net} |-> [Unrouted(k) EXCEPT !.fixed = f]]
       : k \in {"CLOCK", "PLAIN"}, f \in {<<sn, wa, wd, tk>>}}

(* The net without a fixed path by both algorithms, with one by directed  *)
(* search only.                                                            *)
MCCases ==
    (MCNetlists \X MCOptions)
    \cup (MCPartialNetlists \X {o \in MCOptions : o.algo = "DIRECTED_SEARCH"})
=============================================================================
