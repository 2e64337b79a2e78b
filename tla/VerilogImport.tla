----------------------------- MODULE VerilogImport -----------------------------
(***************************************************************************)
(* vl2xml: a structural Verilog netlist becomes a flat netlist             *)
(* (src/vl2xml).  The top module is found, modules are converted as they   *)
(* are instantiated, vectors bit by bit, nets that assignments make equal  *)
(* are merged, and the hierarchy is dissolved.                             *)
(*                                                                         *)
(* A source is [order, mod]: the names of its modules as they are written  *)
(* and for each its declarations [name, kind, hi, lo] (-1 without a        *)
(* range), instances [name, type, conns] with connections [port, expr],    *)
(* and assignments [l, r].  An expression is the sequence of its           *)
(* primaries, several for a concatenation: a net [name, hi, lo] or a       *)
(* constant [const, width] with const one of "0", "1", "z".  Widths agree, *)
(* vectors are declared, "z" stands alone, nothing instantiates itself.    *)
(***************************************************************************)
EXTENDS Netlist

CONSTANT Verilog    \* the sources to import

Mod(m) == src.mod[m]

Decls(m) == ToSet(Mod(m).decls)

Rails == [c \in {"0", "1"} |->
            IF c = "1" THEN [inst |-> <<"logic1_VCC">>, type |-> "LOGIC_1",
                             pin |-> Scalar("LOGIC_1_PIN"), net |-> Scalar("logic1_rails")]
            ELSE [inst |-> <<"logic0_GND">>, type |-> "LOGIC_0",
                  pin |-> Scalar("LOGIC_0_PIN"), net |-> Scalar("logic0_rails")]]

HighZ == Scalar("HIGHZ!")

-----------------------------------------------------------------------------
(* Names: every vector from its highest to its lowest bit.                 *)

Larger(a, b) == IF a > b THEN a ELSE b
Smaller(a, b) == IF a < b THEN a ELSE b

ExpandRange(name, hi, lo) ==
    IF hi = -1 THEN <<Scalar(name)>>
    ELSE [k \in 1..(Larger(hi, lo) - Smaller(hi, lo) + 1) |-> <<name, Larger(hi, lo) - k + 1>>]

(* The bits of a port; of a range that ascends only the last is kept. *)
PortBits(d) ==
    IF d.hi < d.lo THEN <<<<d.name, d.lo>>>> ELSE ExpandRange(d.name, d.hi, d.lo)

(* A net without a range is what it was declared as. *)
ParsePrimaryNet(m, p) ==
    IF p.hi = -1 /\ \E d \in Decls(m) : d.name = p.name
    THEN LET d == CHOOSE x \in Decls(m) : x.name = p.name IN ExpandRange(d.name, d.hi, d.lo)
    ELSE ExpandRange(p.name, p.hi, p.lo)

PrimaryNames(m, p) ==
    IF "const" \in DOMAIN p
    THEN [k \in 1..p.width |-> IF p.const = "z" THEN HighZ ELSE Rails[p.const].net]
    ELSE ParsePrimaryNet(m, p)

PrimaryOrBundle(m, expr) == FlattenSeq([k \in DOMAIN expr |-> PrimaryNames(m, expr[k])])

-----------------------------------------------------------------------------
(* One module.                                                             *)

IsPort(d) == d.kind \in {"input", "output"}

PortDecls(m) == SelectSeq(Mod(m).decls, IsPort)

(* Modules without instances are taken for black boxes and get no nets. *)
ConvertNets(m) ==
    LET pins == FlattenSeq([k \in DOMAIN PortDecls(m) |-> PortBits(PortDecls(m)[k])])
        dir  == [b \in ToSet(pins) |->
                   IF \E d \in Decls(m) : d.name = b[1] /\ d.kind = "input" THEN "in" ELSE "out"]
        c    == NewModule(pins, dir)
    IN  IF Mod(m).insts = <<>> THEN c
        ELSE Connect(c, [q \in {MPin(b) : b \in ToSet(pins)} |-> q])

(* The pins that the bits of an expression go to, in the same order. *)
PortPins(ty, port, width) ==
    IF ty \in DOMAIN lib THEN SelectSeq(lib[ty].pins, LAMBDA b : b[1] = port)
    ELSE IF width > 1 THEN [k \in 1..width |-> <<port, width - k>>]
    ELSE IF Scalar(port) \in ToSet(Cells[ty].pins) THEN <<Scalar(port)>>
    ELSE <<<<port, 0>>>>

(* ConnectInstance for all instances: pairs of a pin and a net. *)
Hookups(m) ==
    UNION {UNION {LET names == PrimaryOrBundle(m, pc.expr)
                      pins  == PortPins(i.type, pc.port, Len(names))
                  IN  {<<<<<<i.name>>, pins[k]>>, MPin(names[k])>> :
                          k \in {j \in DOMAIN names : names[j] # HighZ}} :
                  pc \in ToSet(i.conns)} : i \in ToSet(Mod(m).insts)}

AssignedPairs(m) ==
    FlattenSeq([a \in DOMAIN Mod(m).assigns |->
        LET l == PrimaryOrBundle(m, Mod(m).assigns[a].l)
            r == PrimaryOrBundle(m, Mod(m).assigns[a].r)
        IN  [k \in DOMAIN l |-> <<l[k], r[k]>>]])

(* The rails that the expressions of a module use. *)
UsedRails(m) ==
    LET names == {h[2][2] : h \in Hookups(m)} \cup UNION {ToSet(p) : p \in ToSet(AssignedPairs(m))}
    IN  {c \in {"0", "1"} : Rails[c].net \in names}

ConvertInstances(m, c) ==
    LET rails == {Rails[x] : x \in UsedRails(m)}
        hook  == Hookups(m)
        named == Mod(m).insts
    IN  Connect([c EXCEPT
                    !.insts = SetToSeq({r.inst : r \in rails}) \o [k \in DOMAIN named |-> <<named[k].name>>],
                    !.type  = [i \in {r.inst : r \in rails} |-> (CHOOSE r \in rails : r.inst = i).type]
                              @@ [i \in {<<x.name>> : x \in ToSet(named)} |->
                                    (CHOOSE x \in ToSet(named) : <<x.name>> = i).type]],
                [q \in {h[1] : h \in hook} |-> (CHOOSE h \in hook : h[1] = q)[2]]
                @@ [q \in {<<r.inst, r.pin>> : r \in rails} |->
                      MPin((CHOOSE r \in rails : r.inst = q[1]).net)])

(* eg: the groups of nets that assignments make equal.  An assignment
   between two nets that already are in groups is taken for redundant. *)
AssignGroups(m) ==
    LET pairs == AssignedPairs(m)
        after[k \in 0..Len(pairs)] ==
            IF k = 0 THEN [group |-> Empty, no |-> 0]
            ELSE LET s == after[k - 1]
                     l == pairs[k][1]
                     r == pairs[k][2]
                     known == {l, r} \cap DOMAIN s.group
                 IN  IF known = {}
                     THEN [group |-> s.group @@ (l :> s.no) @@ (r :> s.no), no |-> s.no + 1]
                     ELSE IF Cardinality(known) = 2 \/ l = r THEN s
                     ELSE [s EXCEPT !.group = [x \in {l, r} |-> @[CHOOSE y \in known : TRUE]] @@ @]
    IN  after[Len(pairs)].group

MergeNets(m, c) ==
    LET group == AssignGroups(m)
    IN  [c EXCEPT !.net = [q \in DOMAIN @ |->
            IF @[q][2] \in DOMAIN group THEN MPin(<<"group", group[@[q][2]]>>) ELSE @[q]]]

Converted(m) == MergeNets(m, ConvertInstances(m, ConvertNets(m)))

-----------------------------------------------------------------------------
(* The design.                                                             *)

Types(m) == {i.type : i \in ToSet(Mod(m).insts)}

(* clarifyModules: of the modules nobody instantiates those with the most
   instances are converted, and the last one is the top module. *)
TopModules ==
    LET free == {m \in ToSet(src.order) : \A x \in ToSet(src.order) : m \notin Types(x)}
    IN  {m \in free : \A x \in free : Len(Mod(x).insts) <= Len(Mod(m).insts)}

TopModule ==
    src.order[CHOOSE k \in DOMAIN src.order :
                /\ src.order[k] \in TopModules
                /\ \A j \in k + 1..Len(src.order) : src.order[j] \notin TopModules]

RECURSIVE Reached(_)
Reached(S) ==
    LET more == S \cup (UNION {Types(m) : m \in S} \ DOMAIN Cells)
    IN  IF more = S THEN S ELSE Reached(more)

(* A module is complete when those it instantiates are. *)
ConvertModule ==
    /\ phase = "import"
    /\ \E m \in Reached({TopModule}) \ DOMAIN lib :
        /\ Types(m) \subseteq DOMAIN Cells \cup DOMAIN lib
        /\ IF m = TopModule THEN /\ top' = Converted(m)
                                 /\ phase' = "flatten"
                                 /\ lib' = lib
           ELSE /\ lib' = lib @@ (m :> Converted(m))
                /\ UNCHANGED <<top, phase>>
    /\ UNCHANGED src

FlattenDesign ==
    /\ phase = "flatten"
    /\ Flatten("flat")
    /\ UNCHANGED <<src, lib>>

ImportInit ==
    /\ src \in Verilog
    /\ lib = Empty
    /\ top = NewModule(<<>>, Empty)
    /\ phase = "import"

ImportNext == ConvertModule \/ FlattenDesign
=============================================================================
