------------------------------ MODULE MCBitgen ------------------------------
(***************************************************************************)
(* Two rows of three tiles: LOGIC with a multiplexer, a table of two       *)
(* variables, a cell in the EDGE tile on its right and one in the LOGIC    *)
(* tile above; EDGE; and BRAM, all of whose configuration lies in the EDGE *)
(* tile on its left.  A design takes up to three configurations of a pool, *)
(* in any order, and some pips.                                            *)
(***************************************************************************)
EXTENDS Bitgen

Sram(cell, offset, owner) == [cell |-> cell, offset |-> offset, owner |-> owner]

Sets(name, content) == [sram |-> name, content |-> content]

Logic ==
    [rows |-> 2, cols |-> 3,
     srams |-> [mux  |-> Sram(<<0, 0>>, <<0, 0>>, "LOGIC"),
                t0   |-> Sram(<<0, 1>>, <<0, 0>>, "LOGIC"), t1 |-> Sram(<<0, 2>>, <<0, 0>>, "LOGIC"),
                t2   |-> Sram(<<1, 1>>, <<0, 0>>, "LOGIC"), t3 |-> Sram(<<1, 2>>, <<0, 0>>, "LOGIC"),
                far  |-> Sram(<<0, 1>>, <<0, 1>>, "EDGE"),
                up   |-> Sram(<<1, 0>>, <<-1, 0>>, "LOGIC")],
     elems |-> [MUX |-> [named |-> [A |-> {Sets("mux", 1)}, B |-> {Sets("mux", 0), Sets("far", 1)}],
                         lut |-> {}],
                UP  |-> [named |-> [ON |-> {Sets("up", 0)}], lut |-> {}],
                G   |-> [named |-> [x \in {} |-> {}],
                         lut |-> {[sram |-> "t0", addr |-> 0], [sram |-> "t1", addr |-> 1],
                                  [sram |-> "t2", addr |-> 2], [sram |-> "t3", addr |-> 3]}]],
     paths |-> [p \in {} |-> <<>>],
     defaults |-> <<Sets("mux", 0), Sets("t1", 0)>>, pathDefaults |-> <<Sets("far", 0)>>,
     defaultFuncs |-> [MUX |-> [form |-> "naming", text |-> "A"]]]

Edge ==
    [rows |-> 2, cols |-> 2,
     srams |-> [own |-> Sram(<<0, 0>>, <<0, 0>>, "EDGE"), r1 |-> Sram(<<1, 0>>, <<0, 0>>, "EDGE")],
     elems |-> [IDELMUX |-> [named |-> [ON |-> {Sets("own", 1)}, sopc |-> {Sets("own", 0)}], lut |-> {}]],
     paths |-> (<<"W", "E">> :> <<{Sets("own", 1)}, {Sets("r1", 0)}>>),
     defaults |-> <<Sets("own", 0)>>, pathDefaults |-> <<Sets("r1", 1)>>,
     defaultFuncs |-> [x \in {} |-> <<>>]]

Bram(height) ==
    [rows |-> height, cols |-> 4,
     srams |-> [port |-> Sram(<<1, 1>>, <<0, -1>>, "EDGE")],
     elems |-> [PORT |-> [named |-> [ON |-> {Sets("port", 0)}], lut |-> {}]],
     paths |-> (<<"A", "Q">> :> <<{Sets("port", 0)}>>),
     defaults |-> <<Sets("port", 1)>>, pathDefaults |-> <<>>,
     defaultFuncs |-> [PORT |-> [form |-> "naming", text |-> "ON"]]]

Named(n) == [form |-> "naming", text |-> n]

Cfg(t, e, f) == [tile |-> t, elem |-> e, func |-> f]

Factor(o, n, v) == [op |-> o, not |-> n, var |-> v]

Meaning(s) == [a \in 0 .. 3 |-> s[a + 1]]

(* A1 @ A2 * ~A1, which is (A1 @ A2) * ~A1: true at A2 alone, address 2. *)
Expression ==
    [form |-> "expression", meaning |-> Meaning(<<0, 0, 1, 0>>),
     text |-> <<<<Factor("and", FALSE, 1), Factor("xor", FALSE, 2), Factor("and", TRUE, 1)>>>>]

Binary == [form |-> "binary", text |-> <<0, 1, 1, 0>>, meaning |-> Meaning(<<0, 1, 1, 0>>)]

Hex == [form |-> "hex", text |-> 11, meaning |-> Meaning(<<1, 1, 0, 1>>)]

Contents80(e, i, bits) ==
    [tile |-> <<0, 2>>, elem |-> e, index |-> i, func |-> [form |-> e, text |-> bits]]

Pool ==
    {Cfg(<<0, 0>>, "MUX", Named("B")), Cfg(<<1, 0>>, "MUX", Named("A")),
     Cfg(<<1, 0>>, "MUX", Named("unknown")), Cfg(<<0, 0>>, "G", Expression),
     Cfg(<<1, 0>>, "UP", Named("ON")), Cfg(<<0, 1>>, "IDELMUX", Named("ON")),
     Cfg(<<0, 2>>, "PORT", Named("ON")), Cfg(<<0, 0>>, "UP", Named("#OFF"))}

Pool80 == Pool \cup
    {Contents80("INIT", 1, <<1, 0>>), Contents80("INIT", 2, <<0, 1>>),
     Contents80("INITP", 1, <<1, 0>>)}

Pool1000 == Pool \cup
    {Contents80("INIT", 0, <<"a", "b">>), Contents80("INIT", 1, <<"c", "d">>),
     Cfg(<<1, 0>>, "G", Binary), Cfg(<<0, 0>>, "UP", Named("ON"))}

Orders(S) == {<<x>> : x \in S} \cup {s \in S \X S : s[1] # s[2]}
             \cup {s \in S \X S \X S : Cardinality({s[1], s[2], s[3]}) = 3}

(* One function per element of a site. *)
Legal(cs) == \A i, j \in DOMAIN cs :
                i # j => \/ IsInit(cs[i])
                         \/ <<cs[i].tile, cs[i].elem>> # <<cs[j].tile, cs[j].elem>>

Pip(t, s, k) == [tile |-> t, src |-> s, snk |-> k]

PipLists == {<<>>, <<Pip(<<1, 1>>, "W", "E"), Pip(<<1, 2>>, "A", "Q"), Pip(<<0, 0>>, "W", "dummy")>>}

Majors == <<[addr |-> 3, frames |-> 2, col |-> 1], [addr |-> 1, frames |-> 3, col |-> 0],
            [addr |-> 2, frames |-> 4, col |-> 2]>>

Command(c, a) == [cmd |-> c, arg |-> a]

(* The commands of CMDLoader80K and CMDLoader1000K. *)
Commands80 ==
    <<Command("bsHeader", ""), Command("adjustSYNC", "AA99_5566"), Command("insertCMD", "0000_0007"),
      Command("setFRMLen", ""), Command("setOption", "0A00_382D"), Command("shapeMask", "0000_01C1"),
      Command("insertCMD", "0000_0001"), Command("writeNomalTiles", ""), Command("insertCMD", "0000_000D")>>

Commands1000 ==
    <<Command("bsHeader", ""), Command("adjustSYNC", "AA99_5566"), Command("setFRMLen", ""),
      Command("dummy", ""), Command("insertCMD", "0000_0001"), Command("writeNomalTiles", ""),
      Command("writeMem", ""), Command("insertCMD", "0000_0005"), Command("appointCTL", "0000_0040")>>

MCDevice(kind, height, group) ==
    [device |-> kind, rows |-> 2, cols |-> 3,
     grid |-> [t \in {0, 1} \X {0, 1, 2} |->
                 CASE t[2] = 0 -> "LOGIC" [] t[2] = 1 -> "EDGE" [] t[2] = 2 -> "BRAMSITE"],
     types |-> [LOGIC |-> Logic, EDGE |-> Edge, BRAMSITE |-> Bram(height)],
     majors |-> Majors, majorShift |-> 1, group |-> group, initial |-> 1,
     commands |-> IF kind = "FDP1000K" THEN Commands1000 ELSE Commands80,
     frmLen |-> 2, wordsShift |-> IF kind = "FDP1000K" THEN 1 ELSE 0,
     fillBlank |-> IF kind = "FDP1000K" THEN 1 ELSE 0,
     lines |-> <<1, 0>>, parityLines |-> <<2>>, memWords |-> 4, sopcTiles |-> {<<0, 1>>}]

With(dev, cs, ps, sopc, partial, mems) ==
    dev @@ [cfgs |-> cs, pips |-> ps, sopc |-> sopc, partial |-> partial, mems |-> mems]

MCDesigns ==
    {With(MCDevice("FDP80K", 3, 3), cs, ps, FALSE, -1, <<>>)
       : cs \in {c \in Orders(Pool80) : Legal(c)}, ps \in PipLists}
    \cup {With(MCDevice("FDP1000K", 3, 2), cs, ps, FALSE, -1, <<<<1, 2>>, <<0, 2>>>>)
            : cs \in {c \in Orders(Pool1000) : Legal(c)}, ps \in PipLists}
    \cup {With(MCDevice("FDP500KIP", 3, 6), cs, ps, FALSE, p, <<>>)
            : cs \in {<<Cfg(<<0, 0>>, "G", Hex)>>, <<Cfg(<<0, 2>>, "PORT", Named("ON"))>>},
              ps \in PipLists, p \in {-1, 0, 1}}
    \cup {With(MCDevice("FDP80K", 3, 3), <<Cfg(<<0, 1>>, "IDELMUX", Named("ON"))>>, ps, TRUE, -1, <<>>)
            : ps \in {<<>>}}
=============================================================================
