----------------------------- MODULE MCTimingRouter -----------------------------
(* A register drives both inputs of a table, the table a second register:    *)
(* two nets that want the same wires, on devices with and without buffers   *)
(* behind the wires, with short cuts and detours.  The clock net touches a  *)
(* port and is left alone.                                                  *)
EXTENDS TimingRouter

CONSTANTS netA, netB, netC, sA, sB, sC, tU, tV, tB, tC, w1, w2, w3

MCNode == {sA, sB, sC, tU, tV, tB, tC, w1, w2, w3}
MCNet == {netA, netB, netC}
MCNetSeq == <<netA, netC, netB>>

Always == {<<sA, w1>>, <<w1, w2>>, <<w2, tV>>, <<w1, tU>>, <<sA, w3>>, <<sB, w2>>, <<w2, tU>>}
Optional == {<<sA, w2>>, <<w3, tV>>, <<sB, w3>>, <<w3, tB>>, <<w2, tB>>}

(* In the last of these nothing leads to tV, the second sink of netA or the first. *)
Wirings == {Always \cup E : E \in SUBSET Optional} \cup {Always \ {<<w2, tV>>}}

Tile(i) == [x |-> i, y |-> 0]

Loads(k) == [x \in MCNode |-> CASE x = w1 -> k [] x = w2 -> 0 [] OTHER -> 1]

MCDevices ==
    {[switches |-> [x \in MCNode |-> {y \in MCNode : <<x, y>> \in E}],
      named    |-> [x \in MCNode |-> "OTHER"],
      fromPos  |-> [x \in MCNode |-> Tile(1)],
      toPos    |-> [x \in MCNode |-> Tile(IF x \in {w1, w2} THEN 2 ELSE 1)],
      grid     |-> [x |-> 4, y |-> 2],
      unitR    |-> 4, unitC |-> 2, ext |-> Loads(k),
      sw       |-> [e \in MCNode \X MCNode |->
                      [buf |-> e[1] \in B, res |-> 2, delay |-> IF e[1] \in B THEN 3 ELSE 1]]]
       : E \in Wirings, k \in {0, 3}, B \in {{sA, sB}, {sA, sB, w2}, {w1, w2, w3}, {}}}

Record(s, ts, kind, pins) ==
    [src |-> s, sinks |-> ts, fixed |-> <<>>, kind |-> kind, pins |-> {Tile(0), Tile(2)},
     pinOf |-> pins]

MCNetlist ==
    [n \in MCNet |->
        CASE n = netA -> Record(sA, <<tU, tV>>, "PLAIN", (tU :> "u.I") @@ (tV :> "u.J"))
          [] n = netB -> Record(sB, <<tB>>, "PLAIN", tB :> "b.D")
          [] n = netC -> Record(sC, <<tC>>, "MPIN", tC :> "b.C")]

MCCapacity == [x \in MCNode |-> 1]
MCOptions == {[algo |-> "TIMING_DRIVEN", bcost |-> "DELAY_NORMALIZED", astar |-> 0, bbFac |-> 3]}
MCMinTime == -100000

P(inst, sink, clk, net) ==
    [inst |-> inst, sink |-> sink, clk |-> clk, net |-> net, inner |-> NoNet]

MCDesigns ==
    {[pin |-> [p \in {"ck", "a.C", "a.Q", "u.I", "u.J", "u.O", "b.C", "b.D"} |->
        CASE p = "ck"  -> P("top", FALSE, FALSE, netC)
          [] p = "a.C" -> P("a", TRUE, TRUE, netC)
          [] p = "a.Q" -> P("a", FALSE, FALSE, netA)
          [] p = "u.I" -> P("u", TRUE, FALSE, netA)
          [] p = "u.J" -> P("u", TRUE, FALSE, netA)
          [] p = "u.O" -> P("u", FALSE, FALSE, netB)
          [] p = "b.C" -> P("b", TRUE, TRUE, netC)
          [] p = "b.D" -> P("b", TRUE, FALSE, netB)],
      order |-> <<"ck", "a.C", "a.Q", "u.I", "u.J", "u.O", "b.C", "b.D">>,
      comp |-> {}, top |-> MCNet,
      arc |-> (<<"u.I", "u.O">> :> 5) @@ (<<"u.J", "u.O">> :> j),
      setup |-> [p \in {"b.D"} |-> 1],
      clkq |-> [p \in {"a.Q"} |-> 2]] : j \in {2, 40}}
=============================================================================
