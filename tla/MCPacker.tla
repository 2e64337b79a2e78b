------------------------------ MODULE MCPacker ------------------------------
(***************************************************************************)
(* Netlists of tables and registers, of carry chains and of pads.  The     *)
(* rewriting layers pack a table and the register it feeds into one LF,    *)
(* and rewire pairs and tables; the pack library puts what is left into    *)
(* slices and pads.                                                        *)
(***************************************************************************)
EXTENDS Clusters

MCPinDir ==
    [LUT  |-> [i |-> "in", j |-> "in", o |-> "out"],
     FF   |-> [d |-> "in", c |-> "in", q |-> "out"],
     LF   |-> [i |-> "in", j |-> "in", c |-> "in", q |-> "out"],
     ADDF |-> [A |-> "in", B |-> "in", CI |-> "in", CO |-> "out", S |-> "out"],
     CYMUX |-> [S |-> "in", I1 |-> "in", OUT |-> "out"],
     XOR  |-> [A |-> "in", B |-> "in", O |-> "out"],
     IBUF |-> [i |-> "in", o |-> "out"],
     BUFGP |-> [i |-> "in", o |-> "out"],
     SLICE |-> [p \in {"F1", "F2", "G1", "G2", "BX", "BY", "CLK", "CIN"} |-> "in"]
               @@ [p \in {"X", "XQ", "XB", "Y", "YQ", "YB", "COUT"} |-> "out"],
     IOB  |-> [PAD |-> "inout", I |-> "out"],
     GCLKIOB |-> [PAD |-> "inout", GCLKOUT |-> "out"],
     GCLK |-> [I |-> "in", OUT |-> "out"]]

Port(n, d, c) == [net |-> n, dir |-> d, connect |-> c, ignore |-> FALSE]

(* A cell: types, nets by pin, ports. *)
Cell(types, nets, ports) == BuildGraph([type |-> types, net |-> nets, port |-> ports])

On(i, p, n) == <<i, p>> :> n

-----------------------------------------------------------------------------
(* Rules.                                                                  *)

Case(test, ops) == [test |-> test, ops |-> ops]

Always(ops) == <<Case([kind |-> "true", invert |-> FALSE], ops)>>

RuleOf(cell, cases) == [cell |-> cell, lock |-> [i \in cell.nodes |-> TRUE], cases |-> cases]

Create(n, ty) == [op |-> "create_inst", name |-> n, type |-> ty]

Slice(ty) == [op |-> "create_slice", name |-> "s", type |-> ty]

Do(op, i, p, j, q) == [op |-> op, from |-> <<i, p>>, to |-> <<j, q>>]

Move(i, p, q) == Do("reconnect", i, p, SliceInst, q)

DoFirst(i, p, pins) ==
    [op |-> "reconnect_opt", from |-> <<i, p>>, to |-> [k \in DOMAIN pins |-> <<SliceInst, pins[k]>>]]

Unhook(i, p) == [op |-> "unhook", from |-> <<i, p>>]

Copy(i, source, target) ==
    [op |-> "copy_property", from |-> i, to |-> SliceInst, source |-> source, target |-> target]

Set(i, values) == [op |-> "set_property", to |-> i, values |-> values]

Use(pin, other) == [op |-> "use", to |-> <<pin, other>>]

Index(i, values) == [op |-> "set_index", to |-> i, values |-> values]

(* A table whose only load is a register. *)
PackCell ==
    Cell([l |-> "LUT", f |-> "FF"],
         On("l", "i", "a") @@ On("l", "o", "w") @@ On("f", "d", "w") @@
            On("f", "c", "k") @@ On("f", "q", "y"),
         [A |-> Port("a", "in", FALSE), K |-> Port("k", "in", TRUE), Y |-> Port("y", "out", FALSE)])

PackRule(move) ==
    RuleOf(PackCell,
           Always(<<Create("n", "LF"), Do(move, "l", "i", "n", "i"), Do(move, "l", "j", "n", "j"),
                    Do("reconnect", "f", "c", "n", "c"), Do("reconnect", "f", "q", "n", "q"),
                    [op |-> "clone_property", from |-> "l", to |-> "n", name |-> "INIT", default |-> None],
                    Index("n", <<"packed">>)>>))

(* A table that feeds a table and, if need be, others. *)
FeedCell ==
    Cell([l |-> "LUT", m |-> "LUT"],
         On("l", "o", "w") @@ On("m", "i", "w") @@ On("m", "o", "y"),
         [W |-> Port("w", "out", FALSE), Y |-> Port("y", "out", FALSE)])

Share(i, p, q) ==
    [op |-> "share_net", first |-> <<i, p>>, second |-> <<i, q>>, from |-> <<i, p>>, to |-> <<i, q>>]

FeedRule == RuleOf(FeedCell, Always(<<Unhook("m", "j")>>))

(* Open its other input, then go over to it. *)
SideRule == [RuleOf(FeedCell, Always(<<Unhook("m", "j"), Share("m", "i", "j")>>)) EXCEPT !.lock.l = FALSE]

(* A table with two inputs: swap them, unless a table drives the first. *)
SwapRule ==
    RuleOf(Cell([l |-> "LUT"], On("l", "i", "a") @@ On("l", "j", "b") @@ On("l", "o", "y"),
                [A |-> Port("a", "in", TRUE), B |-> Port("b", "in", TRUE),
                 Y |-> Port("y", "out", FALSE)]),
           <<Case([kind |-> "if_pin_fanin", pin |-> <<"l", "i">>, types |-> {"LUT"}, invert |-> TRUE],
                  <<Do("exconnect", "l", "i", "l", "j")>>)>>)

(* Into slices. *)
TableRule ==
    RuleOf(Cell([x |-> "LUT"], On("x", "o", "y"), [Y |-> Port("y", "out", FALSE)]),
           Always(<<Slice("SLICE"), Move("x", "i", "F1"), Move("x", "j", "F2"), Move("x", "o", "X"),
                    Copy("x", "NAME", "LUT"), Copy("x", "INIT", "F")>>))

RegisterRule ==
    RuleOf(Cell([x |-> "FF"], On("x", "q", "y"), [Y |-> Port("y", "out", FALSE)]),
           Always(<<Slice("SLICE"), DoFirst("x", "d", <<"BX", "BY">>), Move("x", "c", "CLK"),
                    Move("x", "q", "XQ"), Copy("x", "NAME", "FFX")>>))

PackedRule ==
    RuleOf(Cell([x |-> "LF"], On("x", "q", "y"), [Y |-> Port("y", "out", FALSE)]),
           <<Case([kind |-> "current_process", inst |-> "x", value |-> "packed", invert |-> FALSE],
                  <<Slice("SLICE"), Move("x", "i", "F1"),
                    [op |-> "reconnect2", from |-> <<<<"x", "j">>, <<"x", "i">>>>, to |-> <<SliceInst, "F2">>],
                    Move("x", "c", "CLK"), Move("x", "q", "XQ"), Copy("x", "NAME", "LF"),
                    Copy("x", "INIT", "F")>>)>>)

(* Two registers of one clock, the first feeds the second: one slice. *)
ShiftRule ==
    RuleOf(Cell([f |-> "FF", g |-> "FF"],
                On("f", "c", "k") @@ On("g", "c", "k") @@ On("f", "q", "w") @@ On("g", "d", "w")
                @@ On("g", "q", "y"),
                [K |-> Port("k", "in", FALSE), W |-> Port("w", "out", FALSE), Y |-> Port("y", "out", FALSE)]),
           Always(<<Slice("SLICE"), DoFirst("f", "d", <<"BX", "BY">>), Move("f", "c", "CLK"),
                    Move("f", "q", "XQ"), Move("g", "c", "CLK"), Move("g", "q", "YQ"),
                    DoFirst("g", "d", <<"BX", "BY">>), Copy("f", "NAME", "FFX"), Copy("g", "NAME", "FFY")>>))

(* A cell of a chain, into F or G. *)
ChainCases(inF, inG) ==
    <<Case([kind |-> "if_slice_full", invert |-> FALSE], <<Slice("SLICE")>> \o inF),
      Case([kind |-> "if_slice_full", invert |-> TRUE], inG)>>

(* Its carry out, unless COUT is taken. *)
CarryCase(i, p) ==
    Case([kind |-> "is_pin_used", pin |-> <<SliceInst, "COUT">>, invert |-> TRUE],
         <<Move(i, p, "COUT"), Set(SliceInst, <<<<"COUTUSED", "0">>>>)>>)

AdderRule ==
    RuleOf(Cell([x |-> "ADDF"], On("x", "S", "y"), [Y |-> Port("y", "out", FALSE)]),
           Append(ChainCases(<<Move("x", "A", "F1"), Move("x", "B", "F2"), Move("x", "CI", "CIN"),
                               Move("x", "S", "X"), Copy("x", "NAME", "ADDX")>>,
                             <<Move("x", "A", "G1"), Move("x", "B", "G2"), Move("x", "S", "Y"),
                               Copy("x", "NAME", "ADDY")>>),
                  CarryCase("x", "CO")))

(* A table that propagates or generates, its multiplexer and its sum. *)
PropagateNets == On("l", "o", "p") @@ On("x", "A", "p") @@ On("x", "B", "c") @@ On("x", "O", "s")

InF == <<Move("l", "i", "F1"), Move("l", "j", "F2"), Move("x", "B", "CIN"), Move("x", "O", "X"),
         Copy("l", "NAME", "LUTF"), Copy("x", "NAME", "XORX"), Copy("l", "INIT", "F")>>

InG == <<Move("l", "i", "G1"), Move("l", "j", "G2"), Move("x", "O", "Y"),
         Copy("l", "NAME", "LUTG"), Copy("x", "NAME", "XORY"), Copy("l", "INIT", "G")>>

MultiplexerRule ==
    RuleOf(Cell([l |-> "LUT", m |-> "CYMUX", x |-> "XOR"],
                PropagateNets @@ On("m", "S", "p") @@ On("m", "I1", "c") @@ On("m", "OUT", "d"),
                [C |-> Port("c", "in", FALSE), D |-> Port("d", "out", FALSE), S |-> Port("s", "out", FALSE)]),
           Append(ChainCases(InF \o <<Copy("m", "NAME", "MUXX")>>, InG \o <<Copy("m", "NAME", "MUXY")>>),
                  CarryCase("m", "OUT")))

LastRule ==
    RuleOf(Cell([l |-> "LUT", x |-> "XOR"], PropagateNets,
                [C |-> Port("c", "in", FALSE), S |-> Port("s", "out", FALSE)]),
           ChainCases(InF, InG))

(* Pads, and the clock's pad with its driver. *)
PadRule ==
    RuleOf(Cell([b |-> "IBUF"], On("b", "i", "a") @@ On("b", "o", "y"),
                [A |-> Port("a", "in", TRUE), Y |-> Port("y", "out", FALSE)]),
           Always(<<[op |-> "create_iob", name |-> "p", type |-> "IOB", from |-> <<"b", "i">>],
                    Do("reconnect", "b", "i", "p", "PAD"), Do("reconnect", "b", "o", "p", "I"),
                    [Copy("b", "NAME", "BUF") EXCEPT !.to = "p"]>>))

ClockRule ==
    RuleOf(Cell([b |-> "BUFGP"], On("b", "i", "a") @@ On("b", "o", "y"),
                [A |-> Port("a", "in", TRUE), Y |-> Port("y", "out", FALSE)]),
           Always(<<[op |-> "create_iob", name |-> "p", type |-> "GCLKIOB", from |-> <<"b", "i">>],
                    Do("reconnect", "b", "i", "p", "PAD"), Slice("GCLK"),
                    Do("connect", "p", "GCLKOUT", SliceInst, "I"), Use(<<"p", "PAD">>, <<SliceInst, "I">>),
                    Move("b", "o", "OUT"),
                    [Copy("b", "NAME", "BUF") EXCEPT !.to = "p"], Copy("b", "NAME", "BUF")>>))

Seat(prop, pins, table) == [prop |-> prop, pins |-> pins, table |-> table]

MCSlots ==
    [LUT  |-> {Seat("LUT", [i |-> {"F1"}, j |-> {"F2"}, o |-> {"X"}], "F"),
               Seat("LUTF", [i |-> {"F1"}, j |-> {"F2"}, o |-> {"in F"}], "F"),
               Seat("LUTG", [i |-> {"G1"}, j |-> {"G2"}, o |-> {"in G"}], "G")},
     FF   |-> {Seat("FFX", [d |-> {"BX"}, c |-> {"CLK"}, q |-> {"XQ"}], "none"),
               Seat("FFY", [d |-> {"BY"}, c |-> {"CLK"}, q |-> {"YQ"}], "none")},
     LF   |-> {Seat("LF", [i |-> {"F1"}, j |-> {"F2"}, c |-> {"CLK"}, q |-> {"XQ"}], "F")},
     ADDF |-> {Seat("ADDX", [A |-> {"F1"}, B |-> {"F2"}, CI |-> {"CIN", "BX"}, S |-> {"X"},
                             CO |-> {"XB", "F to G"}], "none"),
               Seat("ADDY", [A |-> {"G1"}, B |-> {"G2"}, CI |-> {"F to G"}, S |-> {"Y"},
                             CO |-> {"COUT", "YB"}], "none")},
     CYMUX |-> {Seat("MUXX", [I1 |-> {"CIN", "BX"}, S |-> {"in F"}, OUT |-> {"XB", "F to G"}], "none"),
                Seat("MUXY", [I1 |-> {"F to G"}, S |-> {"in G"}, OUT |-> {"COUT", "YB"}], "none")},
     XOR  |-> {Seat("XORX", [B |-> {"CIN", "BX"}, A |-> {"in F"}, O |-> {"X"}], "none"),
               Seat("XORY", [B |-> {"F to G"}, A |-> {"in G"}, O |-> {"Y"}], "none")},
     IBUF |-> {Seat("BUF", [i |-> {"PAD"}, o |-> {"I"}], "none")},
     BUFGP |-> {Seat("BUF", [i |-> {"PAD"}, o |-> {"OUT"}], "none")}]

-----------------------------------------------------------------------------
(* Libraries: two that rewrite, one that packs.                            *)

Maps(rules) == [rules |-> rules, type |-> "none"]

Packs(type, rules) == [rules |-> rules, type |-> type]

PackLibrary ==
    <<Packs("IOB", <<PadRule>>), Packs("GCLKIOB", <<ClockRule>>),
      Packs("CARRY_CHAIN", <<AdderRule, MultiplexerRule>>), Packs("CARRY_CHAIN", <<LastRule>>),
      Packs("SLICE", <<ShiftRule, PackedRule>>), Packs("SLICE", <<RegisterRule, TableRule>>)>>

MCLibraries ==
    {<<Maps(<<PackRule("reconnect"), FeedRule>>), Maps(<<FeedRule, SwapRule>>)>> \o PackLibrary,
     <<Maps(<<SwapRule, PackRule("dupconnect")>>), Maps(<<SideRule, PackRule("reconnect")>>)>> \o PackLibrary}

MCFresh == <<"n1", "n2", "n3", "n4", "n5", "n6", "n7">>

-----------------------------------------------------------------------------
(* Designs.                                                                *)

In(n) == Port(n, "in", FALSE)
Out(n) == Port(n, "out", FALSE)

Unclocked ==
    [type |-> [l1 |-> "LUT", f1 |-> "FF", f2 |-> "FF", f3 |-> "FF"],
     net |-> On("l1", "i", "in") @@ On("l1", "o", "o1") @@ On("f1", "d", "o1") @@ On("f1", "q", "q1")
             @@ On("f2", "d", "q1") @@ On("f2", "q", "q2") @@ On("f3", "d", "q2")
             @@ On("f3", "q", "q3"),
     port |-> [DATA |-> In("in"), CLK |-> In("clk"), OUT |-> Out("q3")]]

(* The clock may also miss the register behind the table. *)
ThreeRegisters ==
    {[Unclocked EXCEPT !.net = @ @@ On("f3", "c", "clk") @@ On(f, "c", "clk")] : f \in {"f1", "f2"}}

(* The table that is packed feeds on one of two others. *)
ThreeTables ==
    [type |-> [l1 |-> "LUT", l2 |-> "LUT", l3 |-> "LUT", f1 |-> "FF"],
     net |-> On("l1", "i", "in") @@ On("l1", "o", "o1") @@ On("l2", "i", "o1") @@ On("l2", "o", "o2")
             @@ On("f1", "d", "o2") @@ On("f1", "c", "clk") @@ On("f1", "q", "q1")
             @@ On("l3", "i", "in") @@ On("l3", "o", "o3"),
     port |-> [DATA |-> In("in"), CLK |-> In("clk"), OUT |-> Out("q1"), SUM |-> Out("o3")]]

TwoByTwo ==
    {[type |-> [l1 |-> "LUT", l2 |-> "LUT", f1 |-> "FF", f2 |-> "FF"],
      net |-> On("l1", "o", "o1") @@ On("l2", "o", "o2") @@ On("f1", "q", "q1") @@ On("f2", "q", "q2")
              @@ On("f1", "c", "clk") @@ On("l1", "i", c.a) @@ On("l2", "i", c.b)
              @@ On("f1", "d", c.d1) @@ On("f2", "d", c.d2) @@ c.j @@ c.c2,
      port |-> [DATA |-> In("in"), CLK |-> In("clk"), OUT |-> Out(c.out)]] :
     c \in [a : {"in", "q1"}, b : {"o1"}, d1 : {"o1", "o2", "q1"}, d2 : {"o2", "q1"},
            j : {On("l1", "j", "q2"), On("l2", "j", "o1"), On("l1", "j", "in") @@ On("l2", "j", "in")},
            c2 : {On("f2", "c", "clk"), [x \in {} |-> "clk"]}, out : {"q2"}]}

(* Adders; the carry of each may also leave the chain. *)
Adders == <<"a1", "a2", "a3", "a4">>

CarryNet(k) == <<"c1", "c2", "c3", "c4">>[k]

CarryDesign(n, into, taps) ==
    [type |-> [a \in {Adders[k] : k \in 1 .. n} |-> "ADDF"],
     net |-> [p \in UNION {{<<Adders[k], "A">>, <<Adders[k], "B">>, <<Adders[k], "S">>} : k \in 1 .. n} |->
                 IF p[2] = "S" THEN p[1] ELSE "x"]
             @@ [p \in {<<Adders[k], "CO">> : k \in {k \in 1 .. n : k < n \/ k \in taps}} |->
                    CarryNet(CHOOSE k \in 1 .. n : Adders[k] = p[1])]
             @@ [p \in {<<Adders[k], "CI">> : k \in 2 .. n} |->
                    CarryNet((CHOOSE k \in 1 .. n : Adders[k] = p[1]) - 1)]
             @@ into,
     port |-> [q \in {"X"} |-> In("x")]
              @@ [q \in {Adders[k] : k \in 1 .. n} |-> Out(q)]
              @@ [q \in {CarryNet(k) : k \in taps} |-> Out(q)]]

Chains ==
    {CarryDesign(n, into, taps) : n \in 2 .. 3, into \in {[p \in {} |-> "x"], On("a1", "CI", "x")},
                                  taps \in SUBSET {1, 2}}
    \cup {CarryDesign(3, On("a1", "CI", "x"), {3})}

(* A carry that goes to two adders, from F or from G. *)
Forks ==
    {[CarryDesign(3, On("a1", "CI", "x"), {}) EXCEPT !.net[<<"a3", "CI">>] = "c1"],
     [CarryDesign(4, On("a1", "CI", "x"), {}) EXCEPT !.net[<<"a4", "CI">>] = "c2"]}

(* Tables with multiplexers; the last one has none. *)
PropagateDesign ==
    [type |-> [l1 |-> "LUT", m1 |-> "CYMUX", x1 |-> "XOR", l2 |-> "LUT", x2 |-> "XOR"],
     net |-> On("l1", "i", "a") @@ On("l1", "j", "b") @@ On("l1", "o", "p1") @@ On("m1", "S", "p1")
             @@ On("x1", "A", "p1") @@ On("m1", "I1", "a") @@ On("x1", "B", "a") @@ On("m1", "OUT", "c1")
             @@ On("x1", "O", "s1") @@ On("l2", "i", "a") @@ On("l2", "j", "b") @@ On("l2", "o", "p2")
             @@ On("x2", "A", "p2") @@ On("x2", "B", "c1") @@ On("x2", "O", "s2"),
     port |-> [A |-> In("a"), B |-> In("b"), S1 |-> Out("s1"), S2 |-> Out("s2")]]

ThreeLevels ==
    [type |-> PropagateDesign.type @@ [m2 |-> "CYMUX", l3 |-> "LUT", x3 |-> "XOR"],
     net |-> PropagateDesign.net @@ On("m2", "S", "p2") @@ On("m2", "I1", "c1") @@ On("m2", "OUT", "c2")
             @@ On("l3", "i", "b") @@ On("l3", "o", "p3") @@ On("x3", "A", "p3") @@ On("x3", "B", "c2")
             @@ On("x3", "O", "s3"),
     port |-> PropagateDesign.port @@ [S3 |-> Out("s3")]]

(* A register between pads. *)
Padded ==
    [type |-> [b1 |-> "IBUF", g1 |-> "BUFGP", f1 |-> "FF", f2 |-> "FF"],
     net |-> On("b1", "i", "in") @@ On("b1", "o", "d") @@ On("g1", "i", "clk") @@ On("g1", "o", "k")
             @@ On("f1", "d", "d") @@ On("f1", "c", "k") @@ On("f1", "q", "q")
             @@ On("f2", "d", "q") @@ On("f2", "c", "k") @@ On("f2", "q", "r"),
     port |-> [DATA |-> In("in"), CLK |-> In("clk"), OUT |-> Out("r")]]

(* The first table is in hexadecimal, an inverter of i, where no rule      *)
(* touches its pins: it has one input, that no table drives.  The others,  *)
(* which rules rewire, are expressions, for which exchange_expr is written. *)
Inverter == Hex(5)

Tabled1(cell) ==
    [p \in {<<i, "INIT">> : i \in {i \in DOMAIN cell.type : cell.type[i] = "LUT"}} |->
        IF p[1] = "l1" /\ <<"l1", "j">> \notin DOMAIN cell.net THEN Inverter ELSE Expr({{"i"}, {"i", "j"}})]

MCTasks ==
    {[cell |-> c, props |-> Tabled1(c), layers |-> library] :
        c \in ThreeRegisters \cup {ThreeTables, PropagateDesign, ThreeLevels, Padded} \cup Forks \cup Chains \cup TwoByTwo,
        library \in MCLibraries}
=============================================================================
