------------------------------- MODULE MCNLFiner -------------------------------
(* Two slices, a pad and a rail.  A slice has two tables with the generator
   of their write strobes, a multiplexer and a buffer before its output X, a
   register behind another multiplexer, and the inverter of its clock.      *)
EXTENDS NLFiner

Prim(ins, outs) ==
    [kind |-> "GENERIC", pins |-> [k \in DOMAIN (ins \o outs) |-> Scalar((ins \o outs)[k])],
     dir |-> [b \in {Scalar(x) : x \in ToSet(ins)} |-> "in"] @@ [b \in {Scalar(x) : x \in ToSet(outs)} |-> "out"]]

FTable == Prim(<<"A1", "WF1", "WS">>, <<"D">>)
GTable == Prim(<<"A1", "WG1", "WS">>, <<"D">>)

SlicePins == Prim(<<"F1", "G1", "BX", "CLK">>, <<"X", "XQ", "Y">>)
IobPins == Prim(<<"PAD", "O">>, <<"I">>)
RailPins == Prim(<<"UNUSED">>, <<"P">>)

MCCells ==
    [ty \in {"F", "F_LUT", "F_RAM"} |-> FTable] @@ [ty \in {"G", "G_LUT", "G_RAM"} |-> GTable]
    @@ ("WSGEN" :> Prim(<<"CK", "DIN">>, <<"WF1", "WSF", "WG1", "WSG">>))
    @@ ("FXMUX" :> Prim(<<"F", "BX">>, <<"OUT">>)) @@ ("DXMUX" :> Prim(<<"I0", "I1">>, <<"OUT">>))
    @@ [ty \in {"XUSED", "YUSED", "CKINV", "IBUF"} |-> Prim(<<"I">>, <<"OUT">>)]
    @@ ("FFX" :> Prim(<<"D", "CK", "CE">>, <<"Q">>)) @@ ("VCC" :> Prim(<<>>, <<"P">>))
    @@ ("IMUX" :> Prim(<<"I0", "I1">>, <<"OUT">>))
    @@ ("slice" :> SlicePins) @@ ("iob" :> IobPins) @@ ("vcc" :> RailPins)

(* A template: its instances, named and typed alike, and its nets, each as
   the pins that it joins. *)
Template(ports, prims, nets) ==
    LET pins == UNION nets
        pin(q) == <<IF q[1] = "port" THEN <<>> ELSE <<q[1]>>, Scalar(q[2])>>
    IN  [ports EXCEPT !.kind = "GENERIC"] @@
        [insts |-> [k \in DOMAIN prims |-> <<prims[k]>>],
         type  |-> [i \in {<<p>> : p \in ToSet(prims)} |-> i[1]],
         table |-> [i \in {<<p>> : p \in ToSet(prims)} |-> Empty],
         net   |-> [q \in {pin(p) : p \in pins} |-> CHOOSE n \in nets : \E p \in n : pin(p) = q]]

SliceNets ==
    {{<<"port", "F1">>, <<"F", "A1">>}, {<<"port", "G1">>, <<"G", "A1">>},
     {<<"port", "BX">>, <<"FXMUX", "BX">>, <<"DXMUX", "I1">>, <<"WSGEN", "DIN">>},
     {<<"port", "CLK">>, <<"CKINV", "I">>, <<"WSGEN", "CK">>},
     {<<"F", "D">>, <<"FXMUX", "F">>}, {<<"FXMUX", "OUT">>, <<"XUSED", "I">>, <<"DXMUX", "I0">>},
     {<<"XUSED", "OUT">>, <<"port", "X">>}, {<<"G", "D">>, <<"YUSED", "I">>},
     {<<"YUSED", "OUT">>, <<"port", "Y">>}, {<<"DXMUX", "OUT">>, <<"FFX", "D">>},
     {<<"CKINV", "OUT">>, <<"FFX", "CK">>}, {<<"FFX", "Q">>, <<"port", "XQ">>},
     {<<"VCC", "P">>, <<"FFX", "CE">>}, {<<"WSGEN", "WF1">>, <<"F", "WF1">>},
     {<<"WSGEN", "WSF">>, <<"F", "WS">>}, {<<"WSGEN", "WG1">>, <<"G", "WG1">>},
     {<<"WSGEN", "WSG">>, <<"G", "WS">>}}

MCTemplates ==
    [slice |-> Template(SlicePins, <<"XUSED", "F", "CKINV", "FFX", "WSGEN", "FXMUX", "DXMUX", "G", "YUSED", "VCC">>,
                        SliceNets),
     iob   |-> Template(IobPins, <<"IMUX", "IBUF">>,
                        {{<<"port", "PAD">>, <<"IBUF", "I">>}, {<<"IBUF", "OUT">>, <<"IMUX", "I0">>},
                         {<<"port", "O">>, <<"IMUX", "I1">>}, {<<"IMUX", "OUT">>, <<"port", "I">>}}),
     vcc   |-> Template(RailPins, <<"VCC">>, {{<<"VCC", "P">>, <<"port", "P">>}})]

Op(kind) == [kind |-> kind, prop |-> "none"]
Attr(prop) == [kind |-> "attr", prop |-> prop]
Prims(names, pos, bits) == [lib |-> names, pos |-> pos, bits |-> bits]
One(words, op) == [w \in words |-> op]

MCRepo ==
    [slice |->
        [F      |-> Prims(<<"F">>, <<1, 2>>, One({"LUT", "RAM"}, Attr("type"))),
         G      |-> Prims(<<"G">>, <<1>>, One({"LUT", "RAM"}, Attr("type"))),
         TABLES |-> Prims(<<"F", "G">>, <<1>>, One({"any"}, Attr("INIT"))),
         FXMUX  |-> Prims(<<"FXMUX">>, <<1>>, One({"F", "BX"}, Op("mux"))),
         XUSED  |-> Prims(<<"XUSED">>, <<1>>, One({"0"}, Op("none"))),
         DXMUX  |-> Prims(<<"DXMUX">>, <<1>>, One({"0", "1"}, Op("mux"))),
         FFX    |-> Prims(<<"FFX">>, <<1>>, One({"FF"}, Op("none"))),
         CKINV  |-> Prims(<<"CKINV">>, <<1>>, One({"1"}, Op("none"))),
         YUSED  |-> Prims(<<"YUSED">>, <<1>>, One({"0"}, Op("none"))),
         RAIL   |-> Prims(<<"VCC">>, <<1>>, One({"any"}, Op("vccgnd"))),
         THROUGH |-> Prims(<<"F">>, <<1>>, One({"1"}, Op("dummy")))],
     iob |-> [IMUX |-> Prims(<<"IMUX">>, <<1>>, One({"0", "1"}, Op("mux")))],
     vcc |-> [NONE |-> Prims(<<"VCC">>, <<1>>, One({"0"}, Op("none")))]]

(* The words that a field of the configuration of a slice may have, the usual
   one first; OFF is known to no primitive. *)
Fields ==
    [xused |-> <<"0", "OFF">>, g |-> <<"LUT", "RAM", "OFF">>, fx |-> <<"F", "BX">>, dx |-> <<"0", "1">>,
     reg |-> <<<<<<"FFX", "FF">>, <<"CKINV", "1">>>>, <<<<"FFX", "FF">>, <<"CKINV", "OFF">>>>,
               <<<<"FFX", "OFF">>, <<"CKINV", "1">>>>>>,
     table |-> <<<<<<"F", "name", "LUT">>, <<"TABLES", "0110">>>>, <<<<"F", "RAM">>>>, <<<<"F", "OFF">>>>>>,
     y |-> <<<<<<"YUSED", "0">>>>, <<<<"YUSED", "OFF">>>>, <<<<"YUSED", "0">>, <<"RAIL", "Y">>>>>>]

(* At most Unusual fields differ from the usual. *)
Unusual == 3

Chosen ==
    {c \in [DOMAIN Fields -> 1..3] :
        /\ \A x \in DOMAIN Fields : c[x] <= Len(Fields[x])
        /\ Cardinality({x \in DOMAIN Fields : c[x] # 1}) <= Unusual}

SliceLists ==
    {LET w(x) == Fields[x][c[x]]
     IN  <<<<"XUSED", w("xused")>>, w("reg")[1]>> \o w("table")
         \o <<<<"G", w("g")>>, <<"FXMUX", w("fx")>>, <<"DXMUX", w("dx")>>, w("reg")[2]>>
         \o w("y") \o <<<<"_BEL_PROP", "0">>>> : c \in Chosen}
    \cup {<<<<"THROUGH", "1">>, <<"RAIL", "X">>>>, <<<<"RAIL", "Y">>, <<"THROUGH", "1">>>>}

Plain ==
    <<<<"F", "OFF">>, <<"G", "LUT">>, <<"FXMUX", "OFF">>, <<"DXMUX", "1">>, <<"FFX", "FF">>, <<"CKINV", "1">>,
      <<"XUSED", "OFF">>, <<"YUSED", "0">>>>

Conf(block, list) == [block |-> block, list |-> list]

Design(list) ==
    LET type == <<"s1">> :> "slice" @@ <<"s2">> :> "slice" @@ <<"p">> :> "iob" @@ <<"v">> :> "vcc"
    IN  [top |-> [NewModule(<<>>, Empty) EXCEPT
                    !.insts = <<<<"s2">>, <<"s1">>, <<"p">>, <<"v">>>>,
                    !.type  = type,
                    !.net   = [q \in UNION {{i} \X ToSet(MCCells[type[i]].pins) : i \in DOMAIN type} |-> q]],
         configs |-> <<"s1">> :> Conf("slice", list) @@ <<"s2">> :> Conf("slice", Plain)
                     @@ <<"p">> :> Conf("iob", <<<<"IMUX", "0">>>>) @@ <<"v">> :> Conf("vcc", <<>>)]

MCDesigns == {Design(l) : l \in SliceLists \cup {Reverse(l) : l \in SliceLists}}

NLFSpec == NLFInit(MCDesigns) /\ [][NLFNext]_nvars
=============================================================================
