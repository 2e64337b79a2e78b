------------------------------- MODULE TechMap -------------------------------
(***************************************************************************)
(* map: a flat netlist of gates becomes a netlist of lookup tables, flip   *)
(* flops, buffers and pads (src/mapping).  Gates are taken apart into and  *)
(* nodes with inverters (aigtransform.cpp), the nodes are covered by cuts  *)
(* of at most lutSize leaves (mapping.cpp), the border gets its buffers    *)
(* and pads and the constants one source each (patternmap.cpp).            *)
(*                                                                         *)
(* A gate of the library has cubes, one row of "0", "1" or "-" per input.  *)
(* The table of a node is the set of a + 2b at which it is 1.  Designs are *)
(* driven throughout and have no combinational loop.                       *)
(***************************************************************************)
EXTENDS Netlist

CONSTANTS
    LutSizes,     \* values of the option lutSize
    CutBounds     \* values of maxCuts, 63 in the code

VARIABLES
    lutSize,
    maxCuts,
    todo,         \* what the present loop still has to visit
    cuts,         \* pAllCuts of the nodes
    best,         \* pBestCut
    golden        \* the netlist as it was read

mapvars == <<lutSize, maxCuts, todo, cuts, best, golden>>

Pin(name) == Scalar(name)

(* An instance the program makes in the top module. *)
New(name) == <<"", name>>

Y(i) == <<i, Pin("Y")>>

AigModuleAnd ==
    [kind |-> "AIG", pins |-> <<Pin("A"), Pin("B"), Pin("Y")>>,
     dir |-> [b \in {Pin("A"), Pin("B")} |-> "in"] @@ (Pin("Y") :> "out")]

ADR(k) == Pin("ADR" \o ToString(k))

LutModule(k) ==
    LET adr == [j \in 1..k |-> ADR(j - 1)]
    IN  [kind |-> "LUT", pins |-> Append(adr, Pin("O")),
         dir |-> [b \in ToSet(adr) |-> "in"] @@ (Pin("O") :> "out")]

IsKind(i, kind) == i # <<>> /\ Kind(top, i) = kind

OfKind(kind) == SelectSeq(top.insts, LAMBDA i : IsKind(i, kind))

InputsOf(ty) == SelectSeq(Cells[ty].pins, LAMBDA b : Cells[ty].dir[b] = "in")

OutputOf(ty) == CHOOSE b \in ToSet(Cells[ty].pins) : Cells[ty].dir[b] = "out"

-----------------------------------------------------------------------------
(* aigtransform.cpp: every gate as a tree of and nodes.                    *)

NodeTable(A, B, invY) ==
    LET on == {(IF A.inv THEN 0 ELSE 1) + (IF B.inv THEN 0 ELSE 2)}
    IN  IF invY THEN (0..3) \ on ELSE on

(* A pin of a module that gets a node has the net that is named after it. *)
MakeAigNode(m, A, B, invY) ==
    LET i == <<"Node" \o ToString(Len(m.insts))>>
        n == CreateInstance(m, i, "AigModuleAnd")
    IN  [Connect(n, (A.pin :> A.pin) @@ (B.pin :> B.pin)
                    @@ (<<i, Pin("A")>> :> A.pin) @@ (<<i, Pin("B")>> :> B.pin))
            EXCEPT !.table = @ @@ (i :> NodeTable(A, B, invY))]

Plain(q) == [pin |-> q, inv |-> FALSE]
Inverted(p) == [p EXCEPT !.inv = ~@]

NewestY(m) == Plain(Y(Last(m.insts)))

(* The two first become one, which goes to the end, until one is left. *)
RECURSIVE MakeNodeTree(_, _, _)
MakeNodeTree(m, pins, op) ==
    IF Len(pins) = 1 THEN [mod |-> m, pin |-> pins[1]]
    ELSE LET n == IF op = "And" THEN MakeAigNode(m, pins[1], pins[2], FALSE)
                  ELSE MakeAigNode(m, Inverted(pins[1]), Inverted(pins[2]), TRUE)
         IN  MakeNodeTree(n, Append(SubSeq(pins, 3, Len(pins)), NewestY(n)), op)

Literals(ty, cube) ==
    LET used == SelectSeq([k \in DOMAIN cube |-> k], LAMBDA k : cube[k] # "-")
    IN  [j \in DOMAIN used |-> [pin |-> MPin(InputsOf(ty)[used[j]]), inv |-> cube[used[j]] = "0"]]

MakeAigModule(ty) ==
    LET cubes == Cells[ty].cubes
        after[k \in 0..Len(cubes)] ==
            IF k = 0 THEN [mod |-> NewModule(Cells[ty].pins, Cells[ty].dir), mid |-> <<>>]
            ELSE LET t == MakeNodeTree(after[k - 1].mod, Literals(ty, cubes[k]), "And")
                 IN  [mod |-> t.mod, mid |-> Append(after[k - 1].mid, t.pin)]
        sum == MakeNodeTree(after[Len(cubes)].mod, after[Len(cubes)].mid, "Or")
        whole == IF sum.pin.inv THEN MakeAigNode(sum.mod, sum.pin, sum.pin, FALSE) ELSE sum.mod
        out == IF sum.pin.inv THEN NewestY(whole).pin ELSE sum.pin.pin
    IN  Connect(whole, (out :> out) @@ (MPin(OutputOf(ty)) :> out))

AigName(ty) == ty \o "_Aig"

IsYosys == "items" \in DOMAIN src

StartMapping ==
    /\ phase = "read" /\ ~IsYosys
    /\ phase' = "aig"
    /\ golden' = top
    /\ todo' = OfKind("COMB")
    /\ UNCHANGED <<top, lib, lutSize, maxCuts, cuts, best>>

(* What comes from Yosys is mapped already and gets its border only. *)
SkipMapping ==
    /\ phase = "read" /\ IsYosys
    /\ phase' = "ibuf"
    /\ golden' = top
    /\ todo' = SelectSeq(top.pins, LAMBDA b : top.dir[b] = "in")
    /\ UNCHANGED <<top, lib, lutSize, maxCuts, cuts, best>>

(* The instance that does the same hangs on the same nets. *)
MakeAigInstance ==
    /\ phase = "aig" /\ todo # <<>>
    /\ LET i   == Head(todo)
           ty  == top.type[i]
           aig == Append(i, "Aig")
       IN  /\ lib' = IF AigName(ty) \in DOMAIN lib THEN lib
                     ELSE lib @@ (AigName(ty) :> MakeAigModule(ty))
           /\ top' = Connect(CreateInstance(top, aig, AigName(ty)),
                             [q \in {<<aig, p[2]>> : p \in PinsOf(top, i) \cap DOMAIN top.net} |->
                                top.net[<<i, q[2]>>]])
    /\ todo' = Tail(todo)
    /\ UNCHANGED <<phase, lutSize, maxCuts, cuts, best, golden>>

DissolveAig ==
    /\ phase = "aig" /\ todo = <<>>
    /\ Flatten("release")
    /\ UNCHANGED <<lib, mapvars>>

-----------------------------------------------------------------------------
(* mapping.cpp: cuts.                                                      *)

Sinks(q) == SinkPins(top, top.net[q])

IsDfsRoot(i) == IsKind(i, "AIG") /\ \A s \in Sinks(Y(i)) : ~IsKind(s[1], "AIG")

IsLutRoot(i) == \E s \in Sinks(Y(i)) : ~IsKind(s[1], "AIG")

(* The net of a pin has one source once the gates are released. *)
GetFaninPin(i, name) == CHOOSE q \in SourcePins(top, top.net[<<i, Pin(name)>>]) : TRUE

RECURSIVE GetNodeDfsRec(_, _)
GetNodeDfsRec(nodes, i) ==
    IF ~IsKind(i, "AIG") \/ i \in ToSet(nodes) THEN nodes
    ELSE Append(GetNodeDfsRec(GetNodeDfsRec(nodes, GetFaninPin(i, "A")[1]),
                              GetFaninPin(i, "B")[1]), i)

GetNodeDfs == FoldLeft(GetNodeDfsRec, <<>>, SelectSeq(top.insts, IsDfsRoot))

(* The gates go, and the nodes are put in an order from inputs to outputs. *)
ReleaseComb ==
    /\ phase = "release"
    /\ top' = Release(top, ToSet(OfKind("COMB")))
    /\ phase' = "order"
    /\ UNCHANGED <<lib, mapvars>>

OrderNodes ==
    /\ phase = "order"
    /\ todo' = GetNodeDfs
    /\ phase' = "enum"
    /\ UNCHANGED <<lib, top, lutSize, maxCuts, cuts, best, golden>>

LeafCut(q) == [leaves |-> <<q>>, table |-> {{q}}, level |-> 0, area |-> 0]

(* A cut's table is the set of those sets of its leaves that make it 1. *)
CalcTruthtable(i, a, b, leaves) ==
    {on \in SUBSET leaves :
        (IF on \cap ToSet(a.leaves) \in a.table THEN 1 ELSE 0)
        + (IF on \cap ToSet(b.leaves) \in b.table THEN 2 ELSE 0) \in top.table[i]}

MapCut(i, a, b) ==
    LET leaves == a.leaves \o SelectSeq(b.leaves, LAMBDA q : q \notin ToSet(a.leaves))
        nodes  == {q[1] : q \in {x \in ToSet(leaves) : IsKind(x[1], "AIG")}}
    IN  [leaves |-> leaves, table |-> CalcTruthtable(i, a, b, ToSet(leaves)),
         level  |-> 1 + Max({0} \cup {best[n].level : n \in nodes}),
         area   |-> 1 + MapThenSumSet(LAMBDA n : best[n].area, nodes)]

Fits(a, b) == Cardinality(ToSet(a.leaves \o b.leaves)) <= lutSize

BetterCut(a, b) == a.level < b.level \/ (a.level = b.level /\ a.area < b.area)

(* Beyond maxCuts the worst cut goes, the last one of equals. *)
AddCut(all, cut) ==
    LET more  == Append(all, cut)
        worst == CHOOSE k \in DOMAIN more :
                    /\ \A j \in DOMAIN more : ~BetterCut(more[k], more[j])
                    /\ \A j \in k + 1..Len(more) : BetterCut(more[j], more[k])
    IN  IF Len(more) <= maxCuts THEN more ELSE RemoveAt(more, worst)

(* Mutant of GetAllCuts: a fanin is always a leaf. *)
LeafOnly(i, name) == <<LeafCut(GetFaninPin(i, name))>>

GetAllCuts(i, name) ==
    LET q == GetFaninPin(i, name)
    IN  <<LeafCut(q)>> \o (IF IsKind(q[1], "AIG") THEN cuts[q[1]] ELSE <<>>)

BestOf(all) ==
    all[CHOOSE k \in DOMAIN all : /\ \A j \in DOMAIN all : ~BetterCut(all[j], all[k])
                                  /\ \A j \in 1..k - 1 : BetterCut(all[k], all[j])]

CutsOf(i) ==
    LET a     == GetAllCuts(i, "A")
        b     == GetAllCuts(i, "B")
        pairs == FlattenSeq([j \in DOMAIN a |-> [k \in DOMAIN b |-> <<a[j], b[k]>>]])
        fit   == SelectSeq(pairs, LAMBDA p : Fits(p[1], p[2]))
    IN  FoldLeft(LAMBDA all, p : AddCut(all, MapCut(i, p[1], p[2])), <<>>, fit)

EnumNode ==
    /\ phase = "enum" /\ todo # <<>>
    /\ LET all == CutsOf(Head(todo))
       IN  /\ cuts' = cuts @@ (Head(todo) :> all)
           /\ best' = best @@ (Head(todo) :> BestOf(all))
    /\ todo' = Tail(todo)
    /\ UNCHANGED <<lib, top, phase, lutSize, maxCuts, golden>>

-----------------------------------------------------------------------------
(* mapping.cpp: tables.                                                    *)

(* The roots of the tables: the nodes somebody else needs, and the leaves
   of the best cuts of those already found. *)
RECURSIVE GrowRoots(_, _)
GrowRoots(roots, k) ==
    IF k > Len(roots) THEN roots
    ELSE LET leaves == best[roots[k]].leaves
             new == SelectSeq([j \in DOMAIN leaves |-> leaves[j][1]],
                              LAMBDA n : IsKind(n, "AIG") /\ n \notin ToSet(roots))
         IN  GrowRoots(roots \o new, k + 1)

(* Mutant of GetLutRoots: the leaves of the tables get none. *)
OuterRoots(dfs) == SelectSeq(dfs, IsLutRoot)

GetLutRoots(dfs) == GrowRoots(SelectSeq(dfs, IsLutRoot), 1)

ChooseRoots ==
    /\ phase = "enum" /\ todo = <<>>
    /\ todo' = GetLutRoots(GetNodeDfs)
    /\ phase' = "lut"
    /\ UNCHANGED <<lib, top, lutSize, maxCuts, cuts, best, golden>>

(* The address at which exactly these leaves are 1. *)
Address(leaves, on) ==
    MapThenSumSet(LAMBDA k : 2 ^ (k - 1), {k \in DOMAIN leaves : leaves[k] \in on})

(* A single leaf goes to both inputs of a LUT2, with the table it has. *)
MakeLut ==
    /\ phase = "lut" /\ todo # <<>>
    /\ LET cut    == best[Head(todo)]
           leaves == IF Len(cut.leaves) = 1 THEN cut.leaves \o cut.leaves ELSE cut.leaves
           lut    == New("L" \o ToString(Len(OfKind("LUT"))))
           new    == CreateInstance(top, lut, "LUT" \o ToString(Len(leaves)))
       IN  top' = [Connect(new, (<<lut, Pin("O")>> :> top.net[Y(Head(todo))])
                                @@ [q \in {<<lut, ADR(k - 1)>> : k \in DOMAIN leaves} |->
                                      top.net[leaves[CHOOSE k \in DOMAIN leaves : q[2] = ADR(k - 1)]]])
                     EXCEPT !.table = @ @@ (lut :> {Address(cut.leaves, on) : on \in cut.table})]
    /\ todo' = Tail(todo)
    /\ UNCHANGED <<lib, phase, lutSize, maxCuts, cuts, best, golden>>

ReleaseNodes ==
    /\ phase = "lut" /\ todo = <<>>
    /\ top' = Release(top, DOMAIN best)
    /\ cuts' = Empty /\ best' = Empty
    /\ todo' = SelectSeq(top.pins, LAMBDA b : top.dir[b] = "in")
    /\ phase' = "ibuf"
    /\ UNCHANGED <<lib, lutSize, maxCuts, golden>>

-----------------------------------------------------------------------------
(* patternmap.cpp: buffers, pads and constants.                            *)

(* Mutant of IsClock: one of the names only. *)
IsClkPin(b) == \E q \in Sinks(MPin(b)) : q[2] = Pin("CLK")

(* By name; no cell of a design has a pin of type CLOCK by another name,   *)
(* for which the code looks as well.                                       *)
IsClock(b) == \E q \in Sinks(MPin(b)) : q[2] \in {Pin("CK"), Pin("CKN"), Pin("CLK")}

Outer(b) == <<<<"pad">>, b>>

WithBuffer(c, buf, b, ty, in, out) ==
    LET i == New(buf \o PinName(b))
    IN  Connect(CreateInstance(c, i, ty), (<<i, Pin("I")>> :> in) @@ (<<i, Pin("O")>> :> out))

BufferInput ==
    /\ phase = "ibuf" /\ todo # <<>>
    /\ LET b    == Head(todo)
           p    == MPin(b)
           mid  == <<<<"clkpad">>, b>>
           used == p \in DOMAIN top.net
       IN  top' = IF ~used
                  THEN LET i == New("Buf-pad-" \o PinName(b))
                       IN  Connect(CreateInstance(top, i, "IBUF"),
                                   (p :> Outer(b)) @@ (<<i, Pin("I")>> :> Outer(b)))
                  ELSE IF IsClock(b)
                  THEN Connect(WithBuffer(WithBuffer(top, "Buf-pad-", b, "CLKBUF", Outer(b), mid),
                                          "IBuf-clkpad-", b, "CLKBUF", mid, top.net[p]),
                               p :> Outer(b))
                  ELSE Connect(WithBuffer(top, "Buf-pad-", b, "IBUF", Outer(b), top.net[p]),
                               p :> Outer(b))
    /\ todo' = Tail(todo)
    /\ UNCHANGED <<lib, phase, lutSize, maxCuts, cuts, best, golden>>

WithPads(bits, ty, suffix) ==
    FoldLeft(LAMBDA c, b : Connect(CreateInstance(c, New(PinName(b) \o suffix), ty),
                                   <<New(PinName(b) \o suffix), Pin("PAD")>> :> c.net[MPin(b)]),
             top, bits)

AddInputPads ==
    /\ phase = "ibuf" /\ todo = <<>>
    /\ top' = WithPads(SelectSeq(top.pins, LAMBDA b : top.dir[b] = "in"), "IPAD", "_ipad")
    /\ todo' = SelectSeq(top.pins, LAMBDA b : top.dir[b] = "out")
    /\ phase' = "obuf"
    /\ UNCHANGED <<lib, lutSize, maxCuts, cuts, best, golden>>

BufferOutput ==
    /\ phase = "obuf" /\ todo # <<>>
    /\ LET b == Head(todo)
       IN  top' = Connect(WithBuffer(top, "Buf-pad-", b, "OBUF", top.net[MPin(b)], Outer(b)),
                          MPin(b) :> Outer(b))
    /\ todo' = Tail(todo)
    /\ UNCHANGED <<lib, phase, lutSize, maxCuts, cuts, best, golden>>

AddOutputPads ==
    /\ phase = "obuf" /\ todo = <<>>
    /\ top' = WithPads(SelectSeq(top.pins, LAMBDA b : top.dir[b] = "out"), "OPAD", "_opad")
    /\ phase' = "const"
    /\ UNCHANGED <<lib, mapvars>>

(* The nets of all sources of a constant become the net of a new one. *)
OneSource(c, tys, i, pin) ==
    LET old  == SelectSeq(c.insts, LAMBDA x : c.type[x] \in tys)
        outs == [k \in DOMAIN old |-> <<old[k], Head(Shape(c.type[old[k]]).pins)>>]
        nets == SelectSeq(outs, LAMBDA q : q \in DOMAIN c.net)
        new  == CreateInstance(Release(c, ToSet(old)), i, CHOOSE ty \in tys : pin \in ToSet(Cells[ty].pins))
        all  == {c.net[q] : q \in ToSet(nets)}
    IN  IF nets = <<>> THEN new
        ELSE Connect([new EXCEPT !.net = [q \in DOMAIN @ |-> IF @[q] \in all THEN c.net[nets[1]] ELSE @[q]]],
                     <<i, pin>> :> c.net[nets[1]])

CreateConst ==
    /\ phase = "const"
    /\ top' = OneSource(OneSource(top, {"LOGIC_1", "VCC"}, New("VCC"), Pin("LOGIC_1_PIN")),
                        {"LOGIC_0", "GND"}, New("GND"), Pin("LOGIC_0_PIN"))
    /\ phase' = "done"
    /\ UNCHANGED <<lib, mapvars>>

MapInit ==
    /\ lutSize \in LutSizes
    /\ maxCuts \in CutBounds
    /\ todo = <<>>
    /\ cuts = Empty /\ best = Empty
    /\ golden = NewModule(<<>>, Empty)

MapNext ==
    \/ StartMapping \/ SkipMapping \/ MakeAigInstance \/ DissolveAig
    \/ ReleaseComb \/ OrderNodes \/ EnumNode \/ ChooseRoots \/ MakeLut \/ ReleaseNodes
    \/ BufferInput \/ AddInputPads \/ BufferOutput \/ AddOutputPads \/ CreateConst
=============================================================================
