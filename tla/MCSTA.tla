------------------------------- MODULE MCSTA --------------------------------
(* Three tiles in a row, a slice with a register in each of the outer ones  *)
(* and a third register in the middle, in a slice or in a block memory that *)
(* reaches up from the tile below.  The register on the left drives the     *)
(* others over the routing matrices, every way the middle tile can be built *)
(* and every order of the switches where the route starts.                  *)
EXTENDS STA

W(k) == <<"G", k>>
Pin(side) == [side |-> side, width |-> 1]
Pip(f, t, type) == [from |-> W(f), to |-> W(t), type |-> type]

Joined(dir, w) == [dir |-> dir, net |-> w]
Logic(module, z, pins) == [module |-> module, z |-> z, pins |-> pins]
Slice(z, d, q) == Logic("SLICE", z, ("D" :> Joined("in", d)) @@ ("Q" :> Joined("out", q)))
Memory(d) == Logic("RAM", 0, "D" :> Joined("in", d))

(* Left tile: 1 is the output of the second slice, 2 the wire to the right,
   3 the slice's input, 4 a net that leads nowhere but to the first slice. *)
Left(paths) ==
    [ports |-> <<Pin("R")>>, grm |-> <<W(1), W(2), W(3), W(4)>>, paths |-> paths,
     nets |-> {[pins |-> {<<"R", 1>>}, grm |-> {W(2)}]},
     logic |-> <<Slice(0, W(4), Null), Slice(1, W(3), W(1))>>]
LeftPaths(type) ==
    {<<Pip(1, 2, type), Pip(1, 3, type)>>, <<Pip(1, 3, "buf"), Pip(1, 2, type)>>,
     <<Pip(1, 2, type), Pip(2, 3, type)>>, <<Pip(1, 2, type), Pip(2, 4, type), Pip(2, 3, type)>>,
     <<Pip(1, 2, type), Pip(2, 3, type), Pip(2, 4, type)>>}

(* Middle tile: the wire from the left is 1; it goes on to the right, or the
   wire to the right is 2; the input of its logic is 3. *)
Middle(through, type, logic) ==
    [ports |-> <<Pin("L"), Pin("R")>>, grm |-> <<W(1), W(2), W(3)>>,
     nets  |-> IF through THEN {[pins |-> {<<"L", 1>>, <<"R", 1>>}, grm |-> {W(1)}]}
               ELSE {[pins |-> {<<"L", 1>>}, grm |-> {W(1)}], [pins |-> {<<"R", 1>>}, grm |-> {W(2)}]},
     paths |-> <<Pip(1, 2, type), Pip(1, 3, "buf")>>, logic |-> <<logic>>]

(* Right tile: the wire from the left is 1, the slice's input 2. *)
Right == [ports |-> <<Pin("L")>>, grm |-> <<W(1), W(2)>>,
          nets |-> {[pins |-> {<<"L", 1>>}, grm |-> {W(1)}]}, paths |-> <<Pip(1, 2, "buf")>>,
          logic |-> <<Slice(0, W(2), Null)>>]

(* A tile below: nothing, or the foot of a memory whose input is above. *)
Below(grm, logic) == [ports |-> <<>>, grm |-> grm, nets |-> {}, paths |-> <<>>, logic |-> logic]

Tiles(through, type, paths, ram) ==
    [k \in (1..(IF ram THEN 2 ELSE 1)) \X (1..3) |->
        CASE k[1] = 2 /\ k[2] = 2 -> Below(<<W(4)>>, <<Memory(Null)>>)
          [] k[1] = 2 -> Below(<<>>, <<>>)
          [] k[2] = 1 -> Left(paths)
          [] k[2] = 2 -> Middle(through, type, IF ram THEN Memory(W(3)) ELSE Slice(0, W(3), Null))
          [] OTHER -> Right]

At1(c, f, t) == [pos |-> <<1, c>>, from |-> W(f), to |-> W(t)]
On(pin, pos, module, z, name, dir) ==
    [pin |-> pin, pos |-> pos, module |-> module, z |-> z, name |-> name, dir |-> dir]
Route(through, paths, ram) ==
    [src   |-> On("A.Q", <<1, 1>>, "SLICE", 1, "Q", "out"),
     sinks |-> <<On("A.D", <<1, 1>>, "SLICE", 1, "D", "in"),
                 IF ram THEN On("B.D", <<2, 2>>, "RAM", 0, "D", "in")
                 ELSE On("B.D", <<1, 2>>, "SLICE", 0, "D", "in"),
                 On("C.D", <<1, 3>>, "SLICE", 0, "D", "in")>>,
     pips  |-> <<At1(1, 1, 2),
                 IF \E k \in DOMAIN paths : paths[k].from = W(1) /\ paths[k].to = W(3)
                 THEN At1(1, 1, 3) ELSE At1(1, 2, 3),
                 At1(2, 1, 3)>>
               \o (IF through THEN <<>> ELSE <<At1(2, 1, 2)>>) \o <<At1(3, 1, 2)>>]

P(inst, sink, clk, net, inner) ==
    [inst |-> inst, sink |-> sink, clk |-> clk, net |-> net, inner |-> inner]

(* Slices A, B and C with a register each; B with a table between the input,
   its register's own output, and the register; one clock for A and B, and that or another for C,
   from ports through pads.  The output of B drives a port. *)
Netlist(clkC, useB) ==
    [pin |-> [p \in {"ck", "io.P", "io.O", "ck2", "io2.P", "io2.O", "A.D", "A.C", "A.Q", "A.f.D", "A.f.C",
                     "A.f.Q", "B.D", "B.C", "B.Q", "B.t.I", "B.t.J", "B.t.O", "B.f.D", "B.f.C",
                     "B.f.Q", "C.D", "C.C", "C.f.D", "C.f.C", "C.f.Q", "C.Q", "out", "o.I", "o.P"} |->
        CASE p = "ck"    -> P("top", FALSE, FALSE, "pad1", NoNet)
          [] p = "io.P"  -> P("io", TRUE, FALSE, "pad1", NoNet)
          [] p = "io.O"  -> P("io", FALSE, FALSE, "clk1", NoNet)
          [] p = "ck2"   -> P("top", FALSE, FALSE, "pad2", NoNet)
          [] p = "io2.P" -> P("io2", TRUE, FALSE, "pad2", NoNet)
          [] p = "io2.O" -> P("io2", FALSE, FALSE, "clk2", NoNet)
          [] p = "A.D"   -> P("A", TRUE, FALSE, "q", "A.d")
          [] p = "A.C"   -> P("A", TRUE, FALSE, "clk1", "A.c")
          [] p = "A.Q"   -> P("A", FALSE, FALSE, "q", "A.q")
          [] p = "A.f.D" -> P("A.f", TRUE, FALSE, "A.d", NoNet)
          [] p = "A.f.C" -> P("A.f", TRUE, TRUE, "A.c", NoNet)
          [] p = "A.f.Q" -> P("A.f", FALSE, FALSE, "A.q", NoNet)
          [] p = "B.D"   -> P("B", TRUE, FALSE, "q", "B.d")
          [] p = "B.C"   -> P("B", TRUE, FALSE, "clk1", "B.c")
          [] p = "B.Q"   -> P("B", FALSE, FALSE, IF useB THEN "r" ELSE NoNet, "B.q")
          [] p = "B.t.I" -> P("B.t", TRUE, FALSE, "B.d", NoNet)
          [] p = "B.t.J" -> P("B.t", TRUE, FALSE, "B.q", NoNet)
          [] p = "B.t.O" -> P("B.t", FALSE, FALSE, "B.e", NoNet)
          [] p = "B.f.D" -> P("B.f", TRUE, FALSE, "B.e", NoNet)
          [] p = "B.f.C" -> P("B.f", TRUE, TRUE, "B.c", NoNet)
          [] p = "B.f.Q" -> P("B.f", FALSE, FALSE, "B.q", NoNet)
          [] p = "C.D"   -> P("C", TRUE, FALSE, "q", "C.d")
          [] p = "C.C"   -> P("C", TRUE, FALSE, clkC, "C.c")
          [] p = "C.Q"   -> P("C", FALSE, FALSE, NoNet, "C.q")
          [] p = "C.f.D" -> P("C.f", TRUE, FALSE, "C.d", NoNet)
          [] p = "C.f.C" -> P("C.f", TRUE, TRUE, "C.c", NoNet)
          [] p = "C.f.Q" -> P("C.f", FALSE, FALSE, NoNet, NoNet)
          [] p = "out"   -> P("top", TRUE, FALSE, IF useB THEN "pad3" ELSE NoNet, NoNet)
          [] p = "o.I"   -> P("o", TRUE, FALSE, IF useB THEN "r" ELSE NoNet, NoNet)
          [] p = "o.P"   -> P("o", FALSE, FALSE, IF useB THEN "pad3" ELSE NoNet, NoNet)],
     order |-> <<"ck", "ck2", "out", "io.P", "io.O", "io2.P", "io2.O", "A.D", "A.C", "A.Q", "A.f.D",
                 "A.f.C", "A.f.Q", "B.D", "B.C", "B.Q", "B.t.I", "B.t.J", "B.t.O", "B.f.D",
                 "B.f.C", "B.f.Q", "C.D", "C.C", "C.Q", "C.f.D", "C.f.C", "C.f.Q", "o.I", "o.P">>,
     comp |-> {"A", "B", "C"}, top |-> {"pad1", "pad2", "clk1", "clk2", "q", "r", "pad3"},
     slices |-> <<"A", "B", "C">>, parent |-> [i \in {"A.f", "B.f", "B.t", "C.f"} |->
        CASE i = "A.f" -> "A" [] i = "C.f" -> "C" [] OTHER -> "B"],
     clkNamed |-> {"A.C", "B.C", "C.C"},
     arc |-> (<<"io.P", "io.O">> :> 1) @@ (<<"B.t.I", "B.t.O">> :> 2)
             @@ (<<"B.t.J", "B.t.O">> :> 50) @@ (<<"o.I", "o.P">> :> 1),
     setup |-> [p \in {"A.f.D", "B.f.D", "C.f.D"} |-> 1],
     clkq |-> [p \in {"A.f.Q", "B.f.Q"} |-> 2]]

(* Devices for the graph alone, with one pin per border, two by three, three
   by two and two by two tiles.  Every inner pin is left alone, joined to
   the net of the GRM of its tile or, in those of two by two, to a second net
   that either is in the GRM too (with a pip between the two) or only passes
   through; and a column of two tiles with two pins between them, joined in
   any way. *)
NoDesign ==
    [pin |-> <<>>, order |-> <<>>, comp |-> {}, top |-> {}, slices |-> <<>>, parent |-> <<>>,
     clkNamed |-> {}, arc |-> <<>>, setup |-> <<>>, clkq |-> <<>>]

Inner(rows, cols, k) ==
    SelectSeq(<<"L", "T", "R", "B">>,
              LAMBDA s : CASE s = "L" -> k[2] > 1 [] s = "R" -> k[2] < cols
                           [] s = "T" -> k[1] > 1 [] OTHER -> k[1] < rows)

(* join[<<k, pin>>] = n puts the pin on net n of the tile, 0 on none.  *)
MkTile(sides, width, grm, nets, join) ==
    LET pins == ToSet(sides) \X (1..width)
    IN  [ports |-> [i \in DOMAIN sides |-> [side |-> sides[i], width |-> width]],
         nets  |-> {[pins |-> {p \in pins : join[p] = n},
                     grm |-> IF n <= grm THEN {W(n)} ELSE {}] : n \in 1..nets}
                   \cup {[pins |-> {p}, grm |-> {}] : p \in {q \in pins : join[q] = 0}},
         grm   |-> [n \in 1..grm |-> W(n)],
         paths |-> IF grm = 2 THEN <<[from |-> W(1), to |-> W(2), type |-> "buf"]>> ELSE <<>>,
         logic |-> <<>>]

Grid(rows, cols, width, grm, least, nets) ==
    LET ks     == (1..rows) \X (1..cols)
        pins   == UNION {{<<k, p>> : p \in ToSet(Inner(rows, cols, k)) \X (1..width)} : k \in ks}
    IN  {[rows |-> rows, cols |-> cols, bram |-> {},
          tile |-> [k \in ks |->
                      MkTile(Inner(rows, cols, k), width, grm, nets,
                             [p \in ToSet(Inner(rows, cols, k)) \X (1..width) |-> j[<<k, p>>]])],
          routes |-> <<>>, design |-> NoDesign]
            : j \in [pins -> least..nets]}

Grids == Grid(1, 3, 1, 1, 0, 2) \cup Grid(3, 1, 1, 2, 0, 2) \cup Grid(2, 1, 2, 2, 0, 2)
         \cup Grid(2, 2, 1, 2, 0, 2) \cup Grid(2, 2, 1, 1, 1, 2)

MCMinTime == -10000

Routed ==
    UNION {UNION {UNION {
        {[rows |-> IF ram THEN 2 ELSE 1, cols |-> 3, bram |-> IF ram THEN {2} ELSE {},
          tile |-> Tiles(through, type, paths, ram),
          routes |-> ("q" :> Route(through, paths, ram)),
          design |-> Netlist(clkC, clkC = "clk1")] : clkC \in {"clk1", "clk2"}, ram \in BOOLEAN}
        : paths \in LeftPaths(type)} : type \in {"buf", "pt"}} : through \in BOOLEAN}

MCDevices == Routed \cup Grids
=============================================================================
