------------------------------- MODULE Clusters -------------------------------
(***************************************************************************)
(* The second half of the packer (src/packing Packer.cpp, Match.cpp,       *)
(* MacroProcess.cpp, Transformer.cpp).  Every match of the pack library is *)
(* a virtual cell.  Kind by kind they are moved into slices, pads and the  *)
(* rest: the instructions of the rule create the slice and hand its pins   *)
(* the nets of the instances.  Cells of carry chains come first in line,   *)
(* lowest level first, two to a slice.  At the end the instances that were *)
(* moved are removed with the nets they leave behind.                      *)
(***************************************************************************)
EXTENDS Packer

CONSTANT
    Slots   \* per type: where its instances end up, [prop, pins, table], prop
            \* the property with the name, pins the pins or inner wires of the
            \* slice for each of its pins, table the property with the table

VARIABLE
    pack    \* virtual cells: what is left, what to do next, what was done

vars == <<top, locks, csp, layers, props, job, pack>>

VCell(k) == job.todo[k]

Images(k) == {VCell(k).match[i] : i \in DOMAIN VCell(k).match}

-----------------------------------------------------------------------------
(* Seeds: cells on many nets first, of those the ones whose nets touch few *)
(* cells.                                                                  *)

PortNets(k) ==
    LET r == VCell(k).rule.cell
        pins(q) == {<<VCell(k).match[p[1]], p[2]>> : p \in {p \in Hooked(r) : r.net[p] = r.port[q].net}}
    IN  [q \in DOMAIN r.port |-> {top.net[p] : p \in pins(q) \cap Hooked(top)}]

Degree(k) == Cardinality(UNION {PortNets(k)[q] : q \in DOMAIN PortNets(k)})

(* Ports of virtual cells on the nets of one of them. *)
Terminals(k) ==
    LET nets == UNION {PortNets(k)[q] : q \in DOMAIN PortNets(k)}
    IN  Cardinality({<<j, q>> \in (DOMAIN job.todo) \X UNION {DOMAIN PortNets(j) : j \in DOMAIN job.todo} :
                        q \in DOMAIN PortNets(j) /\ PortNets(j)[q] \cap nets # {}})

Before(k, j) ==
    \/ Degree(k) > Degree(j)
    \/ Degree(k) = Degree(j) /\ Terminals(k) < Terminals(j)
    \/ Degree(k) = Degree(j) /\ Terminals(k) = Terminals(j) /\ k < j

Seeds == SetToSortSeq(DOMAIN job.todo, Before)

OfType(types) == SelectSeq(pack.left, LAMBDA k : VCell(k).type \in types)

-----------------------------------------------------------------------------
(* Carry chains, of full adders or of tables with a multiplexer each.      *)

Member(k, ty) == {i \in Images(k) : top.type[i] = ty}

IsAdder(k) == Member(k, "ADDF") # {}

CarryIn(k) ==
    IF IsAdder(k) THEN {<<i, "CI">> : i \in Member(k, "ADDF")}
    ELSE {<<i, "I1">> : i \in Member(k, "CYMUX")}

CarryOut(k) ==
    IF IsAdder(k) THEN {<<i, "CO">> : i \in Member(k, "ADDF")}
    ELSE {<<i, "OUT">> : i \in Member(k, "CYMUX")}

Owner(i) == CHOOSE k \in DOMAIN job.todo : i \in Images(k)

(* The pins of the name on the net of pins S, and their virtual cells. *)
Named(S, name) ==
    {p \in Hooked(top) : p[2] = name /\ \E s \in S \cap Hooked(top) : top.net[s] = top.net[p]}

Carrying(k) == IF IsAdder(k) THEN "ADDF" ELSE "CYMUX"

Below(k) == {Owner(p[1]) : p \in {p \in Named(CarryIn(k), IF IsAdder(k) THEN "CO" ELSE "OUT") :
                                    top.type[p[1]] = Carrying(k)}}

Above(k) == {Owner(p[1]) : p \in {p \in Named(CarryOut(k), IF IsAdder(k) THEN "CI" ELSE "I1") :
                                    top.type[p[1]] = Carrying(k)}}

(* A last cell without multiplexer: its gate takes the carry. *)
LastGate(k) ==
    IF IsAdder(k) \/ Above(k) # {} THEN {}
    ELSE {Owner(p[1]) : p \in {p \in Named(CarryOut(k), "B") : top.type[p[1]] = "XOR"}}

Reached(st, k) == [st EXCEPT !.used = @ \cup {k}]

(* Adders stop at a cell some chain has; multiplexers do not look. *)
Stops(st, k) == IsAdder(k) /\ k \in st.used

RECURSIVE Descend(_, _)
Descend(st, k) ==
    LET here == [Reached(st, k) EXCEPT !.chain = IF k \in ToSet(@) THEN @ ELSE <<k>> \o @]
    IN  IF CarryIn(k) \cap Hooked(top) = {} THEN here
        ELSE IF \A b \in Below(k) : Stops(here, b) THEN [here EXCEPT !.first = @ \cup {k}]
        ELSE Descend(here, CHOOSE b \in Below(k) : TRUE)

RECURSIVE Ascend(_, _, _)
Ascend(st, k, choice) ==
    LET here == [Reached(st, k) EXCEPT !.chain = IF k \in ToSet(@) THEN @ ELSE Append(@, k)]
    IN  IF LastGate(k) # {}
        THEN LET g == CHOOSE g \in LastGate(k) : TRUE
             IN  [Reached(here, g) EXCEPT !.chain = Append(@, g)]
        ELSE IF Above(k) = {} \/ Stops(here, choice[k]) THEN here
        ELSE Ascend(here, choice[k], choice)

(* Where a carry forks, the net names one of the cells above first. *)
NextAbove(cells) ==
    {c \in [cells -> cells \cup {0}] :
        \A k \in cells : IF Above(k) = {} THEN c[k] = 0 ELSE c[k] \in Above(k)}

Grouped(cells, choice) ==
    FoldLeft(LAMBDA st, k :
                 IF k \in st.used \/ ~(IsAdder(k) \/ Member(k, "CYMUX") # {}) THEN st
                 ELSE LET up == Ascend(Descend([st EXCEPT !.chain = <<>>], k), k, choice)
                      IN  [up EXCEPT !.chains = Append(@, up.chain)],
             [used |-> {}, first |-> {}, chain |-> <<>>, chains |-> <<>>], cells)

-----------------------------------------------------------------------------
(* What is to be done, kind by kind.                                       *)

Kinds ==
    <<{"BRAM"}, {"DRAM"}, {"MULTIPLIER"}, {"CARRY_CHAIN"}, {"LUT6"}, {"LUT5"}, {"SLICE"},
      {"IOB"}, {"GCLKIOB", "BUFGMUX"}, {"DLL"}, {"TBUF"}>>

Item(k, half, chain) == [vcell |-> k, half |-> half, chain |-> chain]

Alone(cells) == [n \in DOMAIN cells |-> Item(cells[n], "whole", 0)]

(* Two levels to a slice; the last may be alone in it. *)
InPairs(chains) ==
    FlattenSeq([c \in DOMAIN chains |->
        [n \in DOMAIN chains[c] |->
            Item(chains[c][n],
                 CASE n % 2 = 0 -> "G"
                   [] n % 2 = 1 /\ n < Len(chains[c]) -> "F"
                   [] n % 2 = 1 /\ n = Len(chains[c]) -> "last F", c)]])

NoPack ==
    [kind |-> 0, left |-> <<>>, queue |-> <<>>, first |-> {}, slices |-> <<>>, gone |-> {},
     lower |-> None,
     clocks |-> {}, asked |-> [cell |-> top, props |-> props], golden |-> [cell |-> top, props |-> props]]

Init == PackerInit /\ pack = NoPack

Mapping == Map /\ UNCHANGED pack

(* golden, what is to be packed, and asked, what came in, are not in the code. *)
ComputeSeeds ==
    /\ job.phase = "seeds"
    /\ job' = [job EXCEPT !.phase = "cluster"]
    /\ pack' = [pack EXCEPT !.left = Seeds, !.golden = [cell |-> top, props |-> props]]
    /\ UNCHANGED <<top, locks, csp, layers, props>>

NextKind ==
    /\ job.phase = "cluster"
    /\ pack.queue = <<>>
    /\ pack.kind < Len(Kinds)
    /\ LET cells == OfType(Kinds[pack.kind + 1])
       IN  IF Kinds[pack.kind + 1] = {"CARRY_CHAIN"}
           THEN \E choice \in NextAbove(ToSet(cells)) :
                    LET grouped == Grouped(cells, choice)
                    IN  /\ grouped.used = ToSet(cells)
                        /\ pack' = [pack EXCEPT !.kind = @ + 1, !.queue = InPairs(grouped.chains),
                                                !.first = grouped.first]
           ELSE pack' = [pack EXCEPT !.kind = @ + 1, !.queue = Alone(cells)]
    /\ UNCHANGED <<top, locks, csp, layers, props, job>>

BeginCell ==
    /\ job.phase = "cluster"
    /\ pack.queue # <<>>
    /\ LET k == pack.queue[1].vcell
       IN  job' = [job EXCEPT !.phase = "slice", !.current = VCell(k), !.cases = VCell(k).rule.cases,
                              !.full = pack.queue[1].half # "G"]
    /\ UNCHANGED <<top, locks, csp, layers, props, pack>>

MoveIn == job.phase = "slice" /\ Work /\ UNCHANGED pack


-----------------------------------------------------------------------------
(* Carries that leave and enter a slice.  FDP3's names of the multiplexers.*)

At(pin) == <<job.slice, pin>>

Carry == top.net[At("COUT")]

Goes == At("COUT") \in Hooked(top)

(* Pins of instances, and ports, the carry goes to. *)
CarrySinks == SinkPins(top, Carry) \cup {<<q>> : q \in PortsOf(top, Carry, "out")}

NextCarries == {p \in SinkPins(top, Carry) : p[2] = "CI"}

Configured(s, name, value) == [s EXCEPT !.props = (At(name) :> value) @@ @]

HookedUp(s, n, pin) == [s EXCEPT !.top = PinHooked(@, n, At(pin)), !.used = @ \cup {At(pin)}]

Freed(s, pin) == [s EXCEPT !.top = PinUnhooked(@, At(pin)), !.used = @ \ {At(pin)}]

(* Anybody but the cell in G gets the carry of F from XB. *)
TakesXB(half) == Goes /\ (half = "last F" \/ (half = "F" /\ Cardinality(CarrySinks) > 1))

(* Anybody but the next slice gets the carry of G from YB. *)
TakesYB(half) == Goes /\ half = "G" /\ Cardinality(CarrySinks) > 1 /\ NextCarries # {}

LeavesByXB(half, s) ==
    IF TakesXB(half) THEN Configured(HookedUp(s, Carry, "XB"), "XBUSED", "0") ELSE s

(* Inside the slice the carry goes on without COUT. *)
StaysInside(half, s) ==
    IF Goes /\ half \in {"F", "last F"}
    THEN [Freed(s, "COUT") EXCEPT !.props = Without(@, {At("COUTUSED")})] ELSE s

(* Mutant of LeavesByYB: the ports stay with the carry. *)
LeavesByYBAlone(half, s) ==
    LET boy == Carry \o "_boy_net"
        others == CarrySinks \ NextCarries
        split == [s EXCEPT
            !.top.net = [p \in DOMAIN @ |-> IF p \in others THEN boy ELSE @[p]]]
    IN  IF TakesYB(half) THEN Configured(HookedUp(split, boy, "YB"), "YBMUX", "1") ELSE s

LeavesByYB(half, s) ==
    LET boy == Carry \o "_boy_net"
        others == CarrySinks \ NextCarries
        split == [s EXCEPT
            !.top.net = [p \in DOMAIN @ |-> IF p \in others THEN boy ELSE @[p]],
            !.top.port = [q \in DOMAIN @ |-> IF <<q>> \in others THEN [@[q] EXCEPT !.net = boy] ELSE @[q]]]
    IN  IF TakesYB(half) THEN Configured(HookedUp(split, boy, "YB"), "YBMUX", "1") ELSE s

Left(half) ==
    LeavesByYB(half, StaysInside(half, LeavesByXB(half, [top |-> top, used |-> job.used, props |-> props])))

(* Once both cells are in: the carry that enters a chain comes by BX. *)
EntersByBX(opened, s) ==
    IF opened /\ At("CIN") \in Hooked(s.top) /\ At("BX") \notin Hooked(s.top)
    THEN Configured(Configured(HookedUp(Freed(s, "CIN"), s.top.net[At("CIN")], "BX"), "BXMUX", "BX"),
                    "CYINIT", "BX")
    ELSE s

-----------------------------------------------------------------------------
(* A virtual cell is in.                                                   *)

ChainsWith(slices, item) ==
    IF item.half \notin {"F", "last F"} THEN slices
    ELSE IF item.chain > Len(slices) THEN Append(slices, <<job.slice>>)
    ELSE [slices EXCEPT ![item.chain] = Append(@, job.slice)]

(* The placer keeps the slices of a set in a column, the first one on top. *)
Placed(slices) ==
    LET at == UNION {{<<c, n>> : n \in DOMAIN slices[c]} : c \in DOMAIN slices}
        set(name, value(_)) == [x \in {<<slices[a[1]][a[2]], name>> : a \in at} |-> value(x[1])]
        chain(s) == CHOOSE c \in DOMAIN slices : s \in ToSet(slices[c])
        row(s) == CHOOSE n \in DOMAIN slices[chain(s)] : slices[chain(s)][n] = s
    IN  set("h_set", LAMBDA s : slices[chain(s)][1])
        @@ set("rloc", LAMBDA s : Len(slices[chain(s)]) - row(s))
        @@ set("set_type", LAMBDA s : "carry_chain")

EndCell ==
    /\ job.phase = "slice"
    /\ RuleDone
    /\ LET item == pack.queue[1]
           half == item.half
           lower == IF half = "G" THEN pack.lower ELSE item.vcell
           paired == half \in {"G", "last F"}
           done == EntersByBX(paired /\ lower \in pack.first, Left(half))
           slices == ChainsWith(pack.slices, item)
       IN  /\ TakesXB(half) => At("XB") \notin Hooked(top)
           /\ TakesYB(half) => At("YB") \notin Hooked(top)
           /\ top' = done.top
           /\ props' = IF half = "whole" \/ Len(pack.queue) > 1 THEN done.props
                       ELSE Placed(slices) @@ done.props
           /\ job' = [job EXCEPT !.phase = "cluster", !.used = done.used,
                                 !.made = [n \in {} |-> None]]
           /\ pack' = [pack EXCEPT !.queue = Tail(@), !.lower = lower, !.slices = slices,
                                   !.left = SelectSeq(@, LAMBDA k : k # item.vcell),
                                   !.gone = @ \cup Images(item.vcell)]
    /\ UNCHANGED <<locks, csp, layers>>

(* What was moved goes, then, looked at once, the nets left open. *)
Finish ==
    /\ job.phase = "cluster"
    /\ pack.queue = <<>>
    /\ pack.kind = Len(Kinds)
    /\ pack.left = <<>>
    /\ LET kept == InstsRemoved(top, pack.gone)
           open == {n \in Nets(kept) : DanglingNet(kept, n)}
           final == IF pack.gone = {} THEN kept ELSE NetsRemoved(kept, open)
           drivers == {p \in UNION {Pins(final, i) : i \in Insts(final)} :
                          final.type[p[1]] \in {"GCLK", "BUFGMUX"} /\ Dir(final, p) # "in"}
       IN  /\ drivers \subseteq Hooked(final)
           /\ top' = final
           /\ pack' = [pack EXCEPT !.clocks = {final.net[p] : p \in drivers}]
    /\ job' = [job EXCEPT !.phase = "finished"]
    /\ UNCHANGED <<locks, csp, layers, props>>

Finished == job.phase = "finished" /\ UNCHANGED vars

Next ==
    \/ Mapping \/ ComputeSeeds \/ NextKind \/ BeginCell \/ MoveIn \/ EndCell \/ Finish \/ Finished

Spec == Init /\ [][Next]_vars

(* The packer is one thread and stops only at its end.  Next is enabled    *)
(* until then (no run deadlocks), so this is the weak fairness of Next,    *)
(* without the evaluation of ENABLED.                                      *)
FairSpec == Spec /\ ([]<><<Next>>_vars \/ <>[](job.phase = "finished"))

-----------------------------------------------------------------------------
(* Properties.                                                             *)

PackingEnds == <>(job.phase = "finished")

Design == pack.golden.cell

(* Pins of instances, and ports. *)
Ends(c) == Hooked(c) \cup {<<q>> : q \in DOMAIN c.port}

EndNet(c, e) == IF Len(e) = 1 THEN c.port[e[1]].net ELSE c.net[e]

Drives(c, e) == IF Len(e) = 1 THEN c.port[e[1]].dir = "in" ELSE Dir(c, e) # "in"

(* Where an instance of the design is now. *)
Seats(i) ==
    {<<s, slot>> \in Insts(top) \X Slots[Design.type[i]] : Has(s, slot.prop) /\ props[<<s, slot.prop>>] = i}

(* The nets, and the wires inside a slice, an end of the design is on now. *)
Lands(e) ==
    {<<"net", EndNet(top, d)>> : d \in {e} \cap Ends(top)} \cup
    (IF Len(e) = 1 THEN {}
     ELSE UNION {LET wires == IF e[2] \in DOMAIN seat[2].pins THEN seat[2].pins[e[2]] ELSE {}
                 IN  {<<"net", top.net[<<seat[1], w>>]>> : w \in {w \in wires : <<seat[1], w>> \in Hooked(top)}}
                     \cup {<<seat[1], w>> : w \in {w \in wires : <<seat[1], w>> \notin Pins(top, seat[1])}} :
                 seat \in Seats(e[1])})

EndsConnected ==
    \A s, t \in Ends(Design) :
        IF EndNet(Design, s) = EndNet(Design, t)
        THEN Drives(Design, s) /\ ~Drives(Design, t) => Lands(s) \cap Lands(t) # {}
        ELSE Lands(s) \cap Lands(t) = {}

(* The table of a LUT over the nets of its pins. *)
TableOver(d, i) ==
    {{d.cell.net[<<i, p>>] : p \in row} : row \in Rows(d.props[<<i, "INIT">>])}

Tabled(d) == {i \in Insts(d.cell) : d.cell.type[i] = "LUT" /\ {<<i, "i">>, <<i, "j">>} \subseteq Hooked(d.cell)}

TablesFollowPins ==
    /\ \A i \in Tabled(pack.asked) \cap Tabled(pack.golden) :
            TableOver(pack.asked, i) = TableOver(pack.golden, i)
    /\ \A i \in Tabled(pack.golden) : \A seat \in Seats(i) :
            Rows(props[<<seat[1], seat[2].table>>]) = Rows(pack.golden.props[<<i, "INIT">>])

(* What the packed netlist connects is what the mapped one connected:      *)
(* pins, moved one by one into slices, some for good on nets of their own, *)
(* drive the pins they drove and no others, and tables are those of the    *)
(* design although their pins were swapped.                                *)
PackedIsDesign == job.phase = "finished" => EndsConnected /\ TablesFollowPins

(* The slices of a carry set, from the largest row on, are joined from     *)
(* COUT to CIN; there is no other way into CIN, and a carry that goes on   *)
(* to a CIN goes nowhere else, unless it opens another chain by its BX.    *)
ChainsFollowCarry ==
    job.phase = "finished" =>
        LET slices == {i \in Insts(top) : Has(i, "rloc")}
            follows(s, u) == /\ props[<<s, "h_set">>] = props[<<u, "h_set">>]
                             /\ props[<<s, "rloc">>] = props[<<u, "rloc">>] + 1
            carries(s, u) == /\ {<<s, "COUT">>, <<u, "CIN">>} \subseteq Hooked(top)
                             /\ top.net[<<s, "COUT">>] = top.net[<<u, "CIN">>]
        IN  /\ \A s, u \in slices : follows(s, u) <=> carries(s, u)
            /\ \A p \in Hooked(top) : p[2] = "CIN" =>
                    /\ \E s \in slices : carries(s, p[1])
                    /\ PortsOf(top, top.net[p], "out") = {}
                    /\ \A q \in SinkPins(top, top.net[p]) \ {p} :
                           q[2] = "BX" /\ props[<<q[1], "h_set">>] = q[1]
=============================================================================
