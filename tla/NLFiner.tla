-------------------------------- MODULE NLFiner --------------------------------
(***************************************************************************)
(* The netlist finer (src/NLFiner), run on a netlist of slices and pads:   *)
(* each of them gets a copy of the template of its block, a module         *)
(* with all that the block could be, and the configurations the packer     *)
(* wrote cut the copy down to what the block is: instances go, the inputs  *)
(* a multiplexer does not choose are opened, tables learn their kind.      *)
(* Sweeps remove what then leads nowhere, ports of the block with it.      *)
(*                                                                         *)
(* In a module (see Netlist) table[i] holds the properties of instance i.  *)
(* A configuration is its words: the name of the primitive, then the       *)
(* values; src[i] are those of instance i, in the order they are kept in.  *)
(***************************************************************************)
EXTENDS Netlist

CONSTANTS
    Templates,  \* the block modules of the cell library, by block
    Repo        \* Repo[block][primitive]: [lib, pos, bits], bits maps words
                \* to operations [kind, prop]

VARIABLE work   \* the instance being worked on: [at, todo, dummy]

nvars == <<src, lib, top, phase, work>>

None == [kind |-> "none", prop |-> "none"]

Blocks == top.insts

Inst == Blocks[work.at]

Block(i) == src[i].block

Cell == lib[top.type[Inst]]

-----------------------------------------------------------------------------
(* ConfigRepo::get_operation.  bit is the last word looked at, the one     *)
(* that is found or not.                                                   *)

Positions(conf, r) == SelectSeq(r.pos, LAMBDA p : p < Len(conf))

GetOperation(block, conf) ==
    IF conf[1] \notin DOMAIN Repo[block] THEN [bit |-> "none", op |-> None, lib |-> <<>>]
    ELSE LET r     == Repo[block][conf[1]]
             word(p) == conf[p + 1]
             valid == Positions(conf, r)
             hits  == SelectSeq(valid, LAMBDA p : word(p) \in DOMAIN r.bits)
             Found(bit, op) == [bit |-> bit, op |-> op, lib |-> r.lib]
         IN  CASE DOMAIN r.bits = {"any"} /\ valid # <<>> -> Found(word(valid[1]), r.bits["any"])
               [] Len(hits) = 1 -> Found(word(Last(valid)), r.bits[word(hits[1])])
               [] Len(hits) # 1 /\ "OFF" \in ToSet(conf) ->
                      Found("OFF", [kind |-> "remove", prop |-> "none"])
               [] OTHER -> Found("none", [kind |-> "fail", prop |-> "none"])

-----------------------------------------------------------------------------
(* The operations, on the instances of the named primitives.               *)

Named(c, prim) == SelectSeq(c.insts, LAMBDA i : c.type[i] = prim)

Disconnect(c, pins) == [c EXCEPT !.net = Without(@, pins)]

OpRemove(c, prim) == Release(c, {Head(Named(c, prim))})

ActualBit(bit) == CASE bit = "0" -> "I0" [] bit = "1" -> "I1" [] OTHER -> bit

(* Mutant of OpMux: a multiplexer keeps all its inputs. *)
OpMuxOpen(c, prim, bit) == c

OpMux(c, prim, bit) ==
    LET i == Head(Named(c, prim))
    IN  Disconnect(c, {q \in PinsOf(c, i) : ~IsSource(c, q) /\ q[2] # Scalar(ActualBit(bit))})

OpVccGnd(c, prim, port) ==
    LET pin == IF prim = "VCC" THEN "P" ELSE "G"
        net == c.net[<<Head(Named(c, prim)), Scalar(pin)>>]
    IN  [c EXCEPT !.net = (MPin(Scalar(port)) :> net) @@ @]

OpAttr(c, prim, prop, bit) ==
    IF Named(c, prim) = <<>> THEN c
    ELSE [c EXCEPT !.table = (Head(Named(c, prim)) :> ((prop :> bit) @@ @[Head(Named(c, prim))])) @@ @]

(* What an operation asserts. *)
CanOperate(c, f) ==
    CASE f.op.kind = "fail" -> FALSE
      [] f.op.kind \in {"remove", "mux"} -> \A k \in DOMAIN f.lib : Named(c, f.lib[k]) # <<>>
      [] f.op.kind = "vccgnd" -> Len(f.lib) = 1 /\ Named(c, f.lib[1]) # <<>>
      [] OTHER -> TRUE

Restructure(c, f) ==
    FoldLeft(LAMBDA cell, prim :
                 CASE f.op.kind = "remove" -> OpRemove(cell, prim)
                   [] f.op.kind = "mux"    -> OpMux(cell, prim, f.bit)
                   [] f.op.kind = "vccgnd" -> OpVccGnd(cell, prim, f.bit)
                   [] f.op.kind = "attr"   -> OpAttr(cell, prim, f.op.prop, f.bit)
                   [] OTHER -> cell,
             c, f.lib)

-----------------------------------------------------------------------------
(* op_sweep.                                                               *)

IsRail(c, i) == c.type[i] \in {"VCC", "GND"}

Hooked(c, i, source) == {q \in PinsOf(c, i) \cap DOMAIN c.net : IsSource(c, q) = source}

KindOf(c, i) == IF "type" \in DOMAIN c.table[i] THEN c.table[i].type ELSE "none"

(* Mutant of KeptAnyway: a memory goes when nobody reads it. *)
KeptUnlessUnread(c, i) == IsRail(c, i) /\ Hooked(c, i, TRUE) # {}

KeptAnyway(c, i) ==
    \/ IsRail(c, i) /\ Hooked(c, i, TRUE) # {}
    \/ KindOf(c, i) = "RAM"

UnusedInsts(c) ==
    {i \in ToSet(c.insts) : ~KeptAnyway(c, i) /\ (Hooked(c, i, FALSE) = {} \/ Hooked(c, i, TRUE) = {})}

OpenNets(c) ==
    {n \in {c.net[q] : q \in DOMAIN c.net} : SourcePins(c, n) = {} \/ SinkPins(c, n) = {}}

UnusedPorts(c) == {b \in ToSet(c.pins) : MPin(b) \notin DOMAIN c.net}

OpSweep(c) ==
    LET unused == UnusedInsts(c)
        used   == Release(c, unused)
        open   == OpenNets(used)
        closed == Disconnect(used, {q \in DOMAIN used.net : used.net[q] \in open})
        lost   == UnusedPorts(closed)
    IN  [closed EXCEPT !.pins = SelectSeq(@, LAMBDA b : b \notin lost)]

Size(c) == <<Len(c.insts), Cardinality({c.net[q] : q \in DOMAIN c.net})>>

-----------------------------------------------------------------------------
(* handle_WSGEN: tables that are no memories lose their write strobes, and *)
(* all get the module of their kind.                                       *)

Strobes(i) == IF i = <<"F">> THEN {"WF1", "WS"} ELSE {"WG1", "WS"}

Tables(c) == {i \in {<<"F">>, <<"G">>} : i \in ToSet(c.insts)}

StrobePins(c) == UNION {{<<i, Scalar(p)>> : p \in Strobes(i)} : i \in Tables(c)}

NoMemory(c) == \A i \in Tables(c) : KindOf(c, i) \in {"LUT", "none"}

(* Mutant of WithoutStrobes: the generator stays. *)
WithStrobes(c) == c

WithoutStrobes(c) ==
    LET left == Release(c, {<<"WSGEN">>})
        nets == {c.net[q] : q \in StrobePins(c)}
    IN  Disconnect(left, {q \in DOMAIN left.net : left.net[q] \in nets})

KindModule(c, i) == c.type[i] \o "_" \o KindOf(c, i)

HandleFG(c) ==
    LET kinds == {i \in Tables(c) : KindOf(c, i) \in {"LUT", "RAM", "ROM"}}
    IN  [c EXCEPT !.type = [i \in DOMAIN @ |-> IF i \in kinds THEN KindModule(c, i) ELSE @[i]]]

HandleWSGEN(c) == HandleFG(IF NoMemory(c) THEN WithoutStrobes(c) ELSE c)

(* A strobe without a net is released all the same. *)
NullNet(c) == NoMemory(c) /\ ~(StrobePins(c) \subseteq DOMAIN c.net)

-----------------------------------------------------------------------------
NLFInit(designs) ==
    /\ \E d \in designs : top = d.top /\ src = d.configs
    /\ lib = Empty
    /\ phase = "rebuild"
    /\ work = [at |-> 1, todo |-> <<>>, dummy |-> FALSE]

Begin(at) == [at |-> at, todo |-> src[Blocks[at]].list, dummy |-> FALSE]

(* Mutant of CopyName: blocks of one kind share a module. *)
CopyNameShared(i) == "c" \o Block(i)

CopyName(i) ==
    LET before == {k \in 1 .. work.at - 1 : Block(Blocks[k]) = Block(i)}
    IN  "c" \o Block(i) \o "__" \o ToString(Cardinality(before))

RebuildVerboseInstance ==
    /\ phase = "rebuild"
    /\ LET name == CopyName(Inst)
       IN  /\ lib' = (name :> Templates[Block(Inst)]) @@ lib
           /\ top' = [top EXCEPT !.type[Inst] = name]
    /\ IF work.at = Len(Blocks) THEN phase' = "configure" /\ work' = Begin(1)
       ELSE phase' = "rebuild" /\ work' = [work EXCEPT !.at = @ + 1]
    /\ UNCHANGED src

Becomes(c) == lib' = [lib EXCEPT ![top.type[Inst]] = c]

Configure ==
    /\ phase = "configure"
    /\ work.todo # <<>>
    /\ LET f == GetOperation(Block(Inst), Head(work.todo))
       IN  IF CanOperate(Cell, f)
           THEN /\ Becomes(Restructure(Cell, f))
                /\ work' = [work EXCEPT !.todo = Tail(@), !.dummy = @ \/ f.op.kind = "dummy"]
                /\ UNCHANGED phase
           ELSE phase' = "failed" /\ UNCHANGED <<lib, work>>
    /\ UNCHANGED <<src, top>>

(* A slice that only feeds a wire through has nothing but its rails. *)
EndConfigure ==
    /\ phase = "configure"
    /\ work.todo = <<>>
    /\ Becomes(IF work.dummy /\ Block(Inst) = "slice"
               THEN Release(Cell, {i \in ToSet(Cell.insts) : ~IsRail(Cell, i)}) ELSE Cell)
    /\ phase' = "sweep"
    /\ UNCHANGED <<src, top, work>>

(* Pins of the instance go with the ports of its module. *)
LosePins(c, swept) ==
    [top EXCEPT !.net = Without(@, {<<Inst, b>> : b \in ToSet(c.pins) \ ToSet(swept.pins)})]

(* Mutant of Settled: one sweep is enough. *)
SettledAtOnce(c, swept) == TRUE

Settled(c, swept) == Size(swept) = Size(c)

Sweep ==
    /\ phase = "sweep"
    /\ LET swept == IF Block(Inst) = "vcc" THEN Cell ELSE OpSweep(Cell)
       IN  /\ Becomes(swept)
           /\ top' = LosePins(Cell, swept)
           /\ phase' = IF Settled(Cell, swept) THEN "strobes" ELSE "sweep"
    /\ UNCHANGED <<src, work>>

EndInstance ==
    /\ phase = "strobes"
    /\ LET tables == Block(Inst) = "slice" /\ ~work.dummy
       IN  IF tables /\ NullNet(Cell)
           THEN phase' = "undefined" /\ UNCHANGED <<lib, work>>
           ELSE /\ Becomes(IF tables THEN HandleWSGEN(Cell) ELSE Cell)
                /\ IF work.at = Len(Blocks) THEN phase' = "refined" /\ UNCHANGED work
                   ELSE phase' = "configure" /\ work' = Begin(work.at + 1)
    /\ UNCHANGED <<src, top>>

Refined == phase = "refined" /\ UNCHANGED nvars

NLFNext ==
    \/ RebuildVerboseInstance \/ Configure \/ EndConfigure \/ Sweep \/ EndInstance \/ Refined

-----------------------------------------------------------------------------
(* What the configurations of a block ask of its template, in any order.   *)

Asked(i) == {GetOperation(Block(i), src[i].list[k]) : k \in DOMAIN src[i].list}

Of(asked, kind) == {f \in asked : f.op.kind = kind}

GoneFrom(t, asked) ==
    {j \in ToSet(t.insts) :
        \/ \E f \in Of(asked, "remove") : t.type[j] \in ToSet(f.lib)
        \/ Of(asked, "dummy") # {} /\ ~IsRail(t, j)}

CutIn(t, muxes) ==
    {q \in DOMAIN t.net : /\ q[1] # <<>>
                          /\ ~IsSource(t, q)
                          /\ \E f \in muxes : t.type[q[1]] \in ToSet(f.lib) /\ q[2][1] # ActualBit(f.bit)}

TiedIn(t, rails) ==
    [q \in {MPin(Scalar(f.bit)) : f \in rails} |-> t.net[<<<<"VCC">>, Scalar("P")>>]]

Told(attrs, prim) ==
    [p \in {f.op.prop : f \in {f \in attrs : prim \in ToSet(f.lib)}} |->
        (CHOOSE f \in attrs : prim \in ToSet(f.lib) /\ f.op.prop = p).bit]

Configured(t, asked) ==
    Release([t EXCEPT !.net = TiedIn(t, Of(asked, "vccgnd")) @@ Without(@, CutIn(t, Of(asked, "mux"))),
                      !.table = [j \in DOMAIN @ |-> Told(Of(asked, "attr"), t.type[j])]],
            GoneFrom(t, asked))

(* A net is live among S if somebody drives it and somebody reads it; S    *)
(* supports itself if every member is on live nets on both sides.  drives  *)
(* and reads hold instances and nets, ports are instance <<>>.             *)
Wiring(c) ==
    [drives |-> {<<q[1], c.net[q]>> : q \in {q \in DOMAIN c.net : IsSource(c, q)}},
     reads  |-> {<<q[1], c.net[q]>> : q \in {q \in DOMAIN c.net : ~IsSource(c, q)}}]

Among(ends, S) == {e[2] : e \in {e \in ends : e[1] \in S \cup {<<>>}}}

Live(w, S) == Among(w.drives, S) \cap Among(w.reads, S)

On(ends, nets) == {e[1] : e \in {e \in ends : e[2] \in nets}}

SupportsItself(c, S, drivers, readers) ==
    \A j \in S : KindOf(c, j) = "RAM" \/ (j \in drivers /\ (IsRail(c, j) \/ j \in readers))

Used(c, w) ==
    UNION {S \in SUBSET ToSet(c.insts) :
              LET live == Live(w, S) IN SupportsItself(c, S, On(w.drives, live), On(w.reads, live))}

Strobed(used) == {<<"F">>, <<"G">>} \cap used

HasMemory(c, used) == \E i \in Strobed(used) : KindOf(c, i) = "RAM"

(* The strobes go with their generator where no table is a memory. *)
StrobeNets(c, used) ==
    {c.net[<<s[1], Scalar(s[2])>>] : s \in UNION {{i} \X Strobes(i) : i \in Strobed(used)}}

Agrees(i, c, made, left, nets) ==
    /\ ToSet(made.insts) = left
    /\ \A j \in left : made.table[j] = c.table[j]
    /\ made.net = [q \in {q \in DOMAIN c.net : q[1] \in left \cup {<<>>} /\ c.net[q] \in nets} |-> c.net[q]]
    /\ {q[2] : q \in {q \in DOMAIN top.net : q[1] = i}} =
          IF Block(i) = "vcc" THEN ToSet(c.pins) ELSE {b \in ToSet(c.pins) : MPin(b) \in DOMAIN made.net}

AgreesUsing(i, c, made, w, used) ==
    IF Block(i) = "slice" /\ ~HasMemory(c, used)
    THEN Agrees(i, c, made, used \ {<<"WSGEN">>}, Live(w, used) \ StrobeNets(c, used))
    ELSE Agrees(i, c, made, used, Live(w, used))

AgreesWith(i, c, w) == AgreesUsing(i, c, lib[top.type[i]], w, Used(c, w))

IsConfigured(i) ==
    LET c == Configured(Templates[Block(i)], Asked(i))
    IN  AgreesWith(i, c, Wiring(c))

(* A refined block is what its configurations say, whatever their order:   *)
(* the largest part of the configured template in which everything is      *)
(* driven and read (memories are kept anyway), with the nets of the        *)
(* configuration and no others, and pins where it still has ports.  No     *)
(* block fails, and none takes from another.                               *)
RefinedIsConfigured ==
    /\ phase \notin {"failed", "undefined"}
    /\ phase = "refined" => \A k \in DOMAIN Blocks : IsConfigured(Blocks[k])
=============================================================================
