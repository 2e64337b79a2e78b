------------------------------ MODULE MCFrontEnd ------------------------------
(* A design of two instances of a module with two vector ports, a flip flop
   and a clock; the gates of the module, what its ports hang on and the
   assignments vary. *)
EXTENDS FrontEnd

Gate(ins, cubes) ==
    [kind |-> "COMB", cubes |-> cubes,
     pins |-> Append([k \in DOMAIN ins |-> Pin(ins[k])], Pin("Y")),
     dir  |-> [b \in {Pin(x) : x \in ToSet(ins)} |-> "in"] @@ (Pin("Y") :> "out")]

Leaf(kind, ins, outs) ==
    [kind |-> kind, pins |-> [k \in DOMAIN (ins \o outs) |-> Pin((ins \o outs)[k])],
     dir |-> [b \in {Pin(x) : x \in ToSet(ins)} |-> "in"] @@ [b \in {Pin(x) : x \in ToSet(outs)} |-> "out"]]

MCCells ==
    [ty \in {"AND2", "XOR2", "MUX2", "INV", "BUF"} |->
        CASE ty = "AND2" -> Gate(<<"A", "B">>, <<<<"1", "1">>>>)
          [] ty = "XOR2" -> Gate(<<"A", "B">>, <<<<"1", "0">>, <<"0", "1">>>>)
          [] ty = "MUX2" -> Gate(<<"S", "A", "B">>, <<<<"0", "1", "-">>, <<"1", "-", "1">>>>)
          [] ty = "INV"  -> Gate(<<"A">>, <<<<"0">>>>)
          [] ty = "BUF"  -> Gate(<<"A">>, <<<<"1">>>>)]
    @@ [ty \in {"IBUF", "OBUF", "CLKBUF"} |-> Leaf("BUF", <<"I">>, <<"O">>)]
    @@ ("DFF" :> Leaf("FFLATCH", <<"D", "CK">>, <<"Q">>))
    @@ ("DFFV" :> [kind |-> "FFLATCH",
                   pins |-> <<<<"D", 1>>, <<"D", 0>>, Pin("CK"), <<"Q", 1>>, <<"Q", 0>>>>,
                   dir  |-> [b \in {<<"D", 1>>, <<"D", 0>>, Pin("CK")} |-> "in"]
                            @@ [b \in {<<"Q", 1>>, <<"Q", 0>>} |-> "out"]])
    @@ ("VCC" :> Leaf("ONE", <<>>, <<"P">>))
    @@ ("GND" :> Leaf("ZERO", <<>>, <<"G">>))
    @@ ("LOGIC_1" :> Leaf("ONE", <<>>, <<"LOGIC_1_PIN">>))
    @@ ("LOGIC_0" :> Leaf("ZERO", <<>>, <<"LOGIC_0_PIN">>))
    @@ ("IPAD" :> Leaf("PAD", <<>>, <<"PAD">>))
    @@ ("OPAD" :> Leaf("PAD", <<"PAD">>, <<>>))
    @@ ("AigModuleAnd" :> AigModuleAnd)
    @@ [ty \in {"LUT2", "LUT3", "LUT4"} |->
          LutModule(CHOOSE k \in 2..4 : ty = "LUT" \o ToString(k))]

N(name) == [name |-> name, hi |-> -1, lo |-> -1]
B(name, k) == [name |-> name, hi |-> k, lo |-> k]
C(const) == [const |-> const, width |-> 1]

D(name, kind) == [name |-> name, kind |-> kind, hi |-> -1, lo |-> -1]
V(name, kind) == [name |-> name, kind |-> kind, hi |-> 1, lo |-> 0]

I(name, type, conns) == [name |-> name, type |-> type, conns |-> conns]
P(port, expr) == [port |-> port, expr |-> expr]

(* The module: q[1] a gate of both inputs, q[0] a gate or the input itself. *)
Sub(g, low) ==
    [decls |-> <<V("p", "input"), V("q", "output")>>,
     insts |-> <<IF g = "MUX2"
                 THEN I("g", g, <<P("S", <<B("p", 0)>>), P("A", <<B("p", 1)>>), P("B", <<C("1")>>), P("Y", <<B("q", 1)>>)>>)
                 ELSE I("g", g, <<P("A", <<B("p", 1)>>), P("B", <<B("p", 0)>>), P("Y", <<B("q", 1)>>)>>)>>
               \o (IF low = "assign" THEN <<>>
                   ELSE <<I("h", low, <<P("A", <<B("p", 0)>>), P("Y", <<B("q", 0)>>)>>)>>),
     assigns |-> IF low = "assign" THEN <<[l |-> <<B("q", 0)>>, r |-> <<B("p", 0)>>]>> ELSE <<>>]

(* The top module: the first instance on in, the second on the first. *)
Top(in, out, ff) ==
    [decls |-> <<D("a", "input"), D("b", "input"), D("clk", "input"), V("y", "output"), D("z", "output"),
                 V("w", "wire"), D("f", "wire"), D("x", "wire")>>,
     insts |-> <<I("u1", "sub", <<P("p", in), P("q", <<N("w")>>)>>),
                 I("u2", "sub", <<P("p", <<B("w", 0), N("f")>>), P("q", out)>>),
                 I(ff, "DFF", <<P("D", <<B("w", 1)>>), P("CK", <<N("clk")>>), P("Q", <<N("f")>>)>>)>>,
     assigns |-> IF out = <<N("y")>> THEN <<[l |-> <<N("z")>>, r |-> <<B("y", 1)>>]>>
                 ELSE <<[l |-> <<B("y", 1), B("y", 0)>>, r |-> <<N("f"), C("0")>>]>>]

(* What the ports hang on: two inputs, one twice, a constant, the clock,
   the output of the same instance; a vector or two nets. *)
AB  == <<N("a"), N("b")>>
AA  == <<N("a"), N("a")>>
B1  == <<N("b"), C("1")>>
C0  == <<C("0"), N("clk")>>
WA  == <<B("w", 0), N("a")>>
Vec == <<N("y")>>
ZX  == <<N("z"), N("x")>>

(* The flip flop is called d, or as an instance that is made later on. *)
Designs == {
    <<"AND2", "INV", AB, ZX, "d">>, <<"XOR2", "BUF", AB, Vec, "u1_g">>, <<"MUX2", "assign", AB, Vec, "d">>,
    <<"XOR2", "INV", B1, Vec, "d">>, <<"AND2", "assign", C0, ZX, "d">>, <<"AND2", "BUF", AA, ZX, "L0">>,
    <<"MUX2", "INV", C0, ZX, "d">>, <<"XOR2", "assign", AA, Vec, "d">>,
    <<"AND2", "assign", WA, Vec, "d">>, <<"MUX2", "INV", WA, ZX, "d">>}

MCVerilog ==
    {[order |-> <<"sub", "top">>,
      mod |-> "sub" :> Sub(d[1], d[2]) @@ "top" :> Top(d[3], d[4], d[5])] : d \in Designs}

-----------------------------------------------------------------------------
(* EDIF: two tables and a flip flop of two bits.  The names of the first
   table and of the flip flop vary, and how the ports are declared. *)
Id(id) == [id |-> id, old |-> id, complex |-> FALSE, bus |-> <<>>]
Rename(id, old) == [Id(id) EXCEPT !.old = old]
Complex(id) == [Id(id) EXCEPT !.old = "$old$", !.complex = TRUE]
Bus(id, old, hi, lo) == [Id(id) EXCEPT !.old = old, !.bus = <<hi, lo>>]

At(inst, port) == [inst |-> inst, port |-> port, member |-> -1]
Bit(inst, port, k) == [inst |-> inst, port |-> port, member |-> k]

Listed(ty) == [kind |-> "cell", name |-> Id(ty), ports |-> <<>>, insts |-> <<>>, nets |-> <<>>]

Inst(name, cell, table) == [name |-> name, cell |-> cell, table |-> table]

EdifTop(y, z, lut, ff) ==
    [kind |-> "cell", name |-> Rename("id00", "top"),
     ports |-> <<[name |-> Id("a"), array |-> 0, dir |-> "in"], [name |-> Rename("id01", "b.c"), array |-> 0, dir |-> "in"],
                 [name |-> Id("clk"), array |-> 0, dir |-> "in"],
                 [name |-> y, array |-> 2, dir |-> "out"], [name |-> z, array |-> 2, dir |-> "out"]>>,
     insts |-> <<Inst(lut, "LUT2", {{3}}), Inst(Id("l2"), "LUT2", {{1, 2}}), Inst(ff, "DFFV", {}),
                 Inst(Id("one"), "VCC", {}), Inst(Id("two"), "VCC", {}), Inst(Id("nil"), "GND", {})>>,
     nets |-> <<<<At("", "a"), At(lut.id, "ADR0")>>,
                <<At("", "id01"), At(lut.id, "ADR1")>>,
                <<At("", "clk"), At(ff.id, "CK")>>,
                <<At(lut.id, "O"), Bit(ff.id, "D", 0), Bit("", z.id, 0)>>,
                <<Bit(ff.id, "Q", 0), Bit("", y.id, 0), At("l2", "ADR0")>>,
                <<At("l2", "ADR1"), At("one", "P")>>,
                <<At("l2", "O"), Bit(ff.id, "D", 1)>>,
                <<Bit(ff.id, "Q", 1), Bit("", y.id, 1)>>,
                <<At("two", "P")>>,
                <<At("nil", "G"), Bit("", z.id, 1)>>>>]

MCEdif ==
    {[items |-> <<[kind |-> "library", name |-> Id("LIB")]>>
                \o [k \in 1..4 |-> Listed(<<"LUT2", "DFFV", "VCC", "GND">>[k])]
                \o <<[kind |-> "library", name |-> Rename("DESIGN", "work")], EdifTop(d[1], d[2], d[3], d[4]),
                     [kind |-> "design", cell |-> "id00"]>>] :
        d \in {<<Id("y"), Bus("id02", "z", 1, 0), Id("l1"), Complex("id03")>>,
               <<Bus("id02", "y", 0, 1), Id("z"), Rename("id03", "VCC"), Id("ff")>>,
               <<Bus("id02", "y", 3, 2), Bus("id03", "z", 0, 1), Rename("id04", "a_ipad"), Id("ff")>>,
               <<Id("y"), Id("z"), Rename("id02", "x"), Rename("id03", "x")>>}}
=============================================================================
