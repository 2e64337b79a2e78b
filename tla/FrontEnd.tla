------------------------------- MODULE FrontEnd -------------------------------
(***************************************************************************)
(* The front end of the flow: vl2xml imports a design and writes it to a   *)
(* file, map reads the file and maps the design, or reads a mapped design  *)
(* from Yosys, and writes it to a file for the packer to read.  One step   *)
(* is one module, one instance, one node, one table, one pin or one file.  *)
(***************************************************************************)
EXTENDS VerilogImport, EdifImport, TechMap, NetlistFile

vars == <<src, lib, top, phase, file, edifvars, mapvars>>

Init ==
    /\ \/ ImportInit /\ at = 0 /\ curLib = "" /\ renames = Empty
       \/ EdifInit
    /\ MapInit
    /\ file = NoFile

SaveXML == phase = "flat" /\ WriteDesign("saved") /\ UNCHANGED <<src, edifvars, mapvars>>

DoReadDesign == phase = "saved" /\ LoadDesign("read") /\ UNCHANGED <<src, edifvars, mapvars>>

DoWriteDesign == phase = "done" /\ WriteDesign("mapped") /\ UNCHANGED <<src, edifvars, mapvars>>

(* The packer reads what map wrote. *)
ReadMapped == phase = "mapped" /\ LoadDesign("topack") /\ UNCHANGED <<src, edifvars, mapvars>>

Next == \/ ImportNext /\ UNCHANGED <<file, edifvars, mapvars>>
        \/ EdifNext /\ UNCHANGED <<file, mapvars>>
        \/ MapNext /\ UNCHANGED <<src, file, edifvars>>
        \/ SaveXML \/ DoReadDesign \/ DoWriteDesign \/ ReadMapped

Spec == Init /\ [][Next]_vars

-----------------------------------------------------------------------------
(* What a source means, as Verilog has it: bit by bit from the last, ports *)
(* and what is connected to them are one, through all levels.              *)

Const(c) == <<<<"const">>, Scalar(c)>>

PrimaryBits(m, path, p) ==
    IF "const" \in DOMAIN p THEN [k \in 1..p.width |-> Const(p.const)]
    ELSE LET d  == CHOOSE x \in Decls(m) : x.name = p.name
             hi == IF p.hi = -1 THEN d.hi ELSE p.hi
             lo == IF p.hi = -1 THEN d.lo ELSE p.lo
         IN  IF d.hi = -1 THEN <<<<path, Scalar(p.name)>>>>
             ELSE [k \in 1..hi - lo + 1 |-> <<path, <<p.name, hi + 1 - k>>>>]

Bits(m, path, expr) == FlattenSeq([k \in DOMAIN expr |-> PrimaryBits(m, path, expr[k])])

FormalBits(ty, path, port) ==
    IF ty \in DOMAIN Cells THEN <<<<path, Scalar(port)>>>>
    ELSE PrimaryBits(ty, path, [name |-> port, hi |-> -1, lo |-> -1])

Pairs(s, t) == {<<s[k], t[k]>> : k \in DOMAIN s}

RECURSIVE Equations(_, _)
Equations(m, path) ==
    UNION {Pairs(Bits(m, path, a.l), Bits(m, path, a.r)) : a \in ToSet(Mod(m).assigns)}
    \cup UNION {LET inner == Append(path, i.name)
                IN  UNION {Pairs(FormalBits(i.type, inner, pc.port), Bits(m, path, pc.expr)) :
                              pc \in ToSet(i.conns)}
                    \cup (IF i.type \in DOMAIN Cells THEN {} ELSE Equations(i.type, inner)) :
                i \in ToSet(Mod(m).insts)}

RECURSIVE Same(_, _)
Same(S, eqs) ==
    LET more == S \cup {e[1] : e \in {x \in eqs : x[2] \in S}}
                  \cup {e[2] : e \in {x \in eqs : x[1] \in S}}
    IN  IF more = S THEN S ELSE Same(more, eqs)

(* What an EDIF file means: identifiers within the cell, the members of an  *)
(* array counted from its first bit.                                       *)

TheCell == CHOOSE x \in ToSet(src.items) : x.kind = "cell" /\ x.insts # <<>>

Renamed(name) == IF name.complex THEN name.id ELSE name.old

MemberBit(name, size, r) ==
    LET first == IF name.bus = <<>> THEN size - 1 ELSE name.bus[1]
        up    == name.bus # <<>> /\ name.bus[1] < name.bus[2]
    IN  IF r.member = -1 THEN Scalar(Renamed(name))
        ELSE <<Renamed(name), IF up THEN first + r.member ELSE first - r.member>>

RefPin(r) ==
    IF r.inst = ""
    THEN LET p == CHOOSE x \in ToSet(TheCell.ports) : x.name.id = r.port
         IN  MPin(MemberBit(p.name, p.array, r))
    ELSE LET i == CHOOSE x \in ToSet(TheCell.insts) : x.name.id = r.inst
             n == Cardinality({b \in ToSet(Cells[i.cell].pins) : b[1] = r.port})
         IN  <<<<Renamed(i.name)>>,
               MemberBit([id |-> r.port, old |-> r.port, complex |-> FALSE, bus |-> <<>>], n, r)>>

EdifEquations ==
    UNION {{<<<<<<"net">>, <<"", k>>>>, RefPin(r)>> : r \in ToSet(TheCell.nets[k])} : k \in DOMAIN TheCell.nets}
    \cup {<<Const(IF Kind(top, q[1]) = "ONE" THEN "1" ELSE "0"), q>> :
             q \in UNION {PinsOf(top, i) : i \in {x \in ToSet(top.insts) : Kind(top, x) \in {"ONE", "ZERO"}}}}

-----------------------------------------------------------------------------
(* What a netlist computes, for given values of the inputs and flip flops; *)
(* 2 for a net without a value or with several.                            *)

Starts(c) == {MPin(b) : b \in {x \in ToSet(c.pins) : c.dir[x] = "in"}}
             \cup {q \in UNION {PinsOf(c, i) : i \in ToSet(c.insts)} :
                      Kind(c, q[1]) = "FFLATCH" /\ IsSource(c, q)}

Ends(c) == {MPin(b) : b \in {x \in ToSet(c.pins) : c.dir[x] = "out"}}
           \cup {q \in UNION {PinsOf(c, i) : i \in ToSet(c.insts)} :
                    Kind(c, q[1]) = "FFLATCH" /\ ~IsSource(c, q)}

Matches(cube, value) == \A k \in DOMAIN cube : cube[k] = "-" \/ cube[k] = ToString(value[k])

RECURSIVE NetValue(_, _, _)
NetValue(c, stim, n) ==
    LET In(i) ==
            LET ins == InputsOf(c.type[i])
            IN  [k \in DOMAIN ins |-> NetValue(c, stim, c.net[<<i, ins[k]>>])]
        Index(v) == MapThenSumSet(LAMBDA k : v[k] * 2 ^ (k - 1), DOMAIN v)
        One(b) == IF b THEN 1 ELSE 0
        Value(q) ==
            IF q \in DOMAIN stim THEN stim[q]
            ELSE LET kind == Kind(c, q[1])
                     v    == In(q[1])
                 IN  IF kind = "ONE" THEN 1
                     ELSE IF kind = "ZERO" THEN 0
                     ELSE IF \E k \in DOMAIN v : v[k] = 2 THEN 2
                     ELSE IF kind = "BUF" THEN v[1]
                     ELSE IF kind = "COMB"
                          THEN One(\E cube \in ToSet(Cells[c.type[q[1]]].cubes) : Matches(cube, v))
                     ELSE One(Index(v) \in c.table[q[1]])
        values == {Value(q) : q \in {x \in SourcePins(c, n) : x[1] = <<>> \/ Kind(c, x[1]) # "PAD"}}
    IN  IF Cardinality(values) = 1 THEN CHOOSE v \in values : TRUE ELSE 2

-----------------------------------------------------------------------------
(* Properties.                                                             *)

(* A table made of a cut with one leaf that is not an inverter. *)
OneLeafTables ==
    {i \in ToSet(OfKind("LUT")) :
        /\ top.type[i] = "LUT2" /\ top.net[<<i, ADR(0)>>] = top.net[<<i, ADR(1)>>]
        /\ top.table[i] # {0}}

(* After the import, and after map has read it from the file, two pins of  *)
(* cells are on one net exactly when the source makes them equal, through  *)
(* vectors, concatenations, assignments and levels of hierarchy, or in an  *)
(* EDIF file through renames and members of arrays (module.cpp, dissolve   *)
(* in netlist.cpp, savexml.cpp, loadxml.cpp, loadedif.cpp).                *)
ImportConnects ==
    phase \in {"flat", "read"} =>
        LET Called(q) == IF q[1] = <<>> \/ phase = "flat" THEN q ELSE <<<<Name(q[1])>>, q[2]>>
            eqs  == IF IsYosys THEN EdifEquations
                    ELSE {<<Called(e[1]), Called(e[2])>> : e \in Equations(TopModule, <<>>)}
            pins == Starts(top) \cup Ends(top)
                    \cup UNION {PinsOf(top, i) : i \in {x \in ToSet(top.insts) : Kind(top, x) = "COMB"}}
            Tied(q, kind) == \E s \in SourcePins(top, top.net[q]) : s[1] # <<>> /\ Kind(top, s[1]) = kind
        IN  \A p \in pins :
                LET same == Same({p}, eqs)
                IN  /\ p \in DOMAIN top.net <=> (same # {p} \/ (p[1] = <<>> /\ ~IsYosys))
                    /\ p \in DOMAIN top.net =>
                        /\ Tied(p, "ONE") <=> Const("1") \in same
                        /\ Tied(p, "ZERO") <=> Const("0") \in same
                        /\ same \cap {Const("0"), Const("1")} = {} =>
                            \A q \in pins \cap DOMAIN top.net :
                                top.net[p] = top.net[q] <=> q \in same

(* From the dissolved nodes to the buffered netlist, every flip flop and  *)
(* every output gets the value it had in the netlist that was read, for   *)
(* all values of inputs and flip flops, and whichever of several sources  *)
(* a net has while tables and nodes stand side by side (mapping.cpp       *)
(* calcTruthtable, getLutRoots, makeLut; patternmap.cpp).                 *)
MappedIsEquivalent ==
    phase \in {"order", "enum", "lut", "ibuf", "obuf", "const", "done", "topack"} /\ OneLeafTables = {} =>
        \A p \in Ends(golden) :
            /\ p \in DOMAIN golden.net <=> p \in DOMAIN top.net
            /\ p \in DOMAIN golden.net =>
                 \A stim \in [Starts(golden) -> {0, 1}] :
                    NetValue(top, stim, top.net[p]) = NetValue(golden, stim, golden.net[p])

RECURSIVE Covers(_, _)
Covers(L, q) ==
    \/ q \in L
    \/ /\ IsKind(q[1], "AIG")
       /\ \A x \in {"A", "B"} : Covers(L, GetFaninPin(q[1], x))

RECURSIVE Cone(_)
Cone(i) ==
    LET ins == {GetFaninPin(i, x) : x \in {"A", "B"}}
    IN  ins \cup UNION {Cone(q[1]) : q \in {x \in ins : IsKind(x[1], "AIG")}}

(* The best cut of a node is as shallow as any set of at most lutSize     *)
(* pins that cuts the node off allows, with a bound on the list of cuts   *)
(* that is not reached (enumNode and addCut in mapping.cpp).              *)
BestIsShallowest ==
    phase = "enum" /\ todo = <<>> /\ maxCuts = 63 =>
        \A i \in DOMAIN best :
            LET Level(L) == Max({0} \cup {best[q[1]].level : q \in {x \in L : IsKind(x[1], "AIG")}})
                sets == {L \in UNION {kSubset(k, Cone(i)) : k \in 1..lutSize} :
                            \A x \in {"A", "B"} : Covers(L, GetFaninPin(i, x))}
            IN  \A L \in sets : best[i].level <= 1 + Level(L)

(* A file that was written can be read again, unless two instances came to *)
(* have one name: by dissolving, since "u1_g" is the instance g of u1 or   *)
(* one of the top module, or by mapping, which calls its own L0, VCC or    *)
(* a_ipad (merge_names in netlist.cpp, load_pin in loadxml.cpp).  Nor does *)
(* EDIF stop unless renames give two instances one name (loadedif.cpp).    *)
OnlyClashesStop ==
    phase = "stopped" =>
        IF file = NoFile
        THEN \E j, k \in DOMAIN TheCell.insts :
                j # k /\ Renamed(TheCell.insts[j].name) = Renamed(TheCell.insts[k].name)
        ELSE \E j, k \in DOMAIN file.module.insts :
            j # k /\ file.module.insts[j].name = file.module.insts[k].name

(* What is handed to the packer: tables, flip flops, buffers, pads and at *)
(* most one source of each constant; behind each port a pad and a buffer  *)
(* and nothing else, a clock buffer exactly where a flip flop's clock is  *)
(* reached (patternmap.cpp).                                              *)
ReadyToPack ==
    phase \in {"done", "topack"} =>
        /\ \A i \in ToSet(top.insts) : Kind(top, i) \notin {"COMB", "AIG", "GENERIC"}
        /\ \A kind \in {"ONE", "ZERO"} : Len(OfKind(kind)) = 1
        /\ \A b \in ToSet(top.pins) :
            LET on   == PinsOn(top, top.net[MPin(b)]) \ {MPin(b)}
                clk  == \E q \in Ends(golden) :
                            /\ q[2] = Scalar("CK") /\ q \in DOMAIN golden.net
                            /\ MPin(b) \in DOMAIN golden.net /\ golden.net[q] = golden.net[MPin(b)]
                buf  == IF top.dir[b] = "out" THEN "OBUF" ELSE IF clk THEN "CLKBUF" ELSE "IBUF"
            IN  /\ Cardinality(on) = 2
                /\ {top.type[q[1]] : q \in on} = {buf, IF top.dir[b] = "out" THEN "OPAD" ELSE "IPAD"}

(* A cut with a single leaf makes an inverter, as the message of makeLut  *)
(* says ("INV to LUT2", mapping.cpp:298).                                 *)
OneLeafIsInverter == OneLeafTables = {}
=============================================================================
