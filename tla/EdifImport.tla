------------------------------ MODULE EdifImport ------------------------------
(***************************************************************************)
(* map in the flow with Yosys: the netlist of tables comes as EDIF         *)
(* (src/common/io/loadedif.cpp).  An EDIF file has identifiers of its own; *)
(* "rename" gives the name that stands behind one, an array of ports is    *)
(* referred to by members.                                                 *)
(*                                                                         *)
(* A source is the sequence items of what the file has: libraries [kind,   *)
(* name], cells [kind, name, ports, insts, nets] and the design [kind,     *)
(* cell].  A name is [id, old, complex, bus]: old the name behind id (id   *)
(* itself where there is no rename), complex when it has two dollar signs, *)
(* bus <<>> or the range in it.  A port is [name, array, dir], array its   *)
(* size or 0, an instance [name, cell, lib, table], a net the sequence of  *)
(* its portRefs [port, member, inst], member -1 and inst "" for none.      *)
(***************************************************************************)
EXTENDS Netlist

CONSTANT Edif       \* the EDIF files to read

VARIABLES
    at,             \* the next item
    curLib,         \* cur_lib
    renames         \* rename_map

edifvars == <<at, curLib, renames>>

IsRenamed(d) == d.old # d.id \/ d.bus # <<>>

(* Rename::name *)
GivenName(d) == IF d.complex THEN d.id ELSE d.old

AddRenames(owner, type, defs) ==
    LET some == {d \in defs : IsRenamed(d)}
    IN  [key \in {<<owner, type, d.id>> : d \in some} |->
            CHOOSE d \in some : <<owner, type, d.id>> = key]

(* The bits of a port named as an array, from msb to lsb. *)
BusBits(name, range) ==
    IF range[1] > range[2] THEN [k \in 1..range[1] - range[2] + 1 |-> <<name, range[1] - k + 1>>]
    ELSE [k \in 1..range[2] - range[1] + 1 |-> <<name, range[1] + k - 1>>]

GetRefname(rn, owner, type, id) ==
    IF <<owner, type, id>> \notin DOMAIN rn THEN Scalar(id)
    ELSE LET d == rn[<<owner, type, id>>]
         IN  IF d.bus = <<>> THEN Scalar(GivenName(d)) ELSE <<GivenName(d), d.bus[2]>>

LibraryName(name) == IF name = "LIB" THEN "cell_lib" ELSE name

-----------------------------------------------------------------------------
(* A library.                                                              *)

ParseLibrary ==
    /\ src.items[at].kind = "library"
    /\ LET d == src.items[at].name
       IN  /\ curLib' = LibraryName(GivenName(d))
           /\ renames' = AddRenames("design", "library", {d}) @@ renames
    /\ UNCHANGED <<lib, top, phase>>

-----------------------------------------------------------------------------
(* A cell: its ports, its instances, its nets.                             *)

(* An array without a rename goes from its size down to 0. *)
Range0(p) == IF p.name.bus = <<>> THEN <<p.array - 1, 0>> ELSE p.name.bus

ArrayName(p) == [p.name EXCEPT !.bus = Range0(p)]

ParsePort(p) ==
    IF p.array = 0 THEN <<Scalar(GivenName(p.name))>> ELSE BusBits(GivenName(p.name), Range0(p))

PortNames(cell) ==
    {IF p.array = 0 THEN p.name ELSE ArrayName(p) : p \in ToSet(cell.ports)}

InstName(cell, k) == GivenName(cell.insts[k].name)

(* Instances with one name stay apart, but only the first can be found. *)
InstId(cell, k) ==
    IF \E j \in 1..k - 1 : InstName(cell, j) = InstName(cell, k)
    THEN <<InstName(cell, k), "", ToString(k)>>
    ELSE <<InstName(cell, k)>>

(* cellRef: the identifier is looked up in the library that is being read. *)
ParseCellref(rn, id) == PinName(GetRefname(rn, curLib, "cell", id))

(* Mutant of MemberPin: members are counted from the other end. *)
MemberPinBack(pins, name, k) ==
    LET bits == SelectSeq(pins, LAMBDA b : b[1] = name) IN bits[Len(bits) - k]

MemberPin(pins, name, k) == SelectSeq(pins, LAMBDA b : b[1] = name)[k + 1]

NoBit == Scalar("")

(* portRef: the pin of a net, by identifiers of the cell it belongs to. *)
ParsePortref(rn, cell, m, r) ==
    LET inst == <<PinName(GetRefname(rn, cell, "instance", r.inst))>>
        ty   == IF r.inst = "" THEN cell ELSE m.type[inst]
        pins == IF r.inst = "" THEN m.pins ELSE Shape(ty).pins
        bit  == IF r.member = -1 THEN GetRefname(rn, ty, "port", r.port)
                ELSE IF <<ty, "port", r.port>> \notin DOMAIN rn THEN NoBit
                ELSE MemberPin(pins, GivenName(rn[<<ty, "port", r.port>>]), r.member)
    IN  IF r.inst = "" THEN MPin(bit) ELSE <<inst, bit>>

ParseContents(rn, name, cell) ==
    LET bits == [k \in DOMAIN cell.ports |-> ParsePort(cell.ports[k])]
        ids  == [k \in DOMAIN cell.insts |-> InstId(cell, k)]
        No(i) == CHOOSE k \in DOMAIN ids : ids[k] = i
        m    == [NewModule(FlattenSeq(bits),
                           [b \in UNION {ToSet(bits[k]) : k \in DOMAIN bits} |->
                              cell.ports[CHOOSE k \in DOMAIN bits : b \in ToSet(bits[k])].dir])
                    EXCEPT !.insts = ids,
                           !.type  = [i \in ToSet(ids) |-> ParseCellref(rn, cell.insts[No(i)].cell)],
                           !.table = [i \in {ids[k] : k \in {j \in DOMAIN ids : cell.insts[j].table # {}}} |->
                                        CHOOSE t \in cell.insts[No(i)].table : TRUE]]
        refs == {<<k, r>> \in (DOMAIN cell.nets) \X UNION {ToSet(n) : n \in ToSet(cell.nets)} :
                    r \in ToSet(cell.nets[k])}
        PinAt(x) == ParsePortref(rn, name, m, x[2])
        known == {MPin(b) : b \in ToSet(m.pins)} \cup UNION {PinsOf(m, i) : i \in ToSet(ids)}
        ok    == /\ \A x \in refs : PinAt(x) \in known
                 /\ \A x, y \in refs : PinAt(x) = PinAt(y) => x = y
    IN  [ok |-> ok,
         mod |-> Connect(m, [q \in {PinAt(x) : x \in refs} |->
                               <<<<"net">>, <<"", (CHOOSE x \in refs : PinAt(x) = q)[1]>>>>])]

(* A cell the library has is skipped, the ranges of its ports remembered. *)
KnownPorts(ty) ==
    {[id |-> n, old |-> n, complex |-> FALSE,
      bus |-> <<Cardinality({b \in ToSet(Cells[ty].pins) : b[1] = n}) - 1, 0>>] :
        n \in {b[1] : b \in {x \in ToSet(Cells[ty].pins) : x[2] # -1}}}

ParseCell ==
    /\ src.items[at].kind = "cell"
    /\ LET cell == src.items[at]
           name == GivenName(cell.name)
           rn   == AddRenames(curLib, "cell", {cell.name})
                   @@ AddRenames(name, "port", PortNames(cell))
                   @@ AddRenames(name, "instance", {i.name : i \in ToSet(cell.insts)})
                   @@ renames
           read == ParseContents(rn, name, cell)
       IN  IF curLib = "cell_lib" /\ name \in DOMAIN Cells
           THEN /\ renames' = AddRenames(curLib, "cell", {cell.name})
                              @@ AddRenames(name, "port", KnownPorts(name)) @@ renames
                /\ UNCHANGED <<lib, phase>>
           ELSE /\ renames' = rn
                /\ lib' = lib @@ (name :> read.mod)
                /\ phase' = IF read.ok THEN phase ELSE "stopped"
    /\ UNCHANGED <<top, curLib>>

ParseDesign ==
    /\ src.items[at].kind = "design"
    /\ top' = lib[ParseCellref(renames, src.items[at].cell)]
    /\ phase' = "read"
    /\ UNCHANGED <<lib, curLib, renames>>

EdifInit ==
    /\ src \in Edif
    /\ at = 1
    /\ curLib = ""
    /\ renames = Empty
    /\ lib = Empty
    /\ top = NewModule(<<>>, Empty)
    /\ phase = "edif"

EdifNext ==
    /\ phase = "edif"
    /\ ParseLibrary \/ ParseCell \/ ParseDesign
    /\ at' = at + 1
    /\ UNCHANGED src
=============================================================================
