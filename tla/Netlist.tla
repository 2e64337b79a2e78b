------------------------------- MODULE Netlist -------------------------------
(***************************************************************************)
(* The netlist that the programs of the flow share (src/common/netlist):   *)
(* a module has ports and instances, and nets join pins.                   *)
(*                                                                         *)
(* A module is a record: pins and dir are its ports bit by bit, insts the  *)
(* instances in the order of their list, type the module of each, net the  *)
(* net of each connected pin, table what the node or table of an instance  *)
(* computes.  A bit is <<name, index>>.  Instances are named by the path   *)
(* to them, the ports of the module by the empty path; pins and nets are   *)
(* <<path, bit>>.  A net exists as long as a pin is on it.                 *)
(***************************************************************************)
EXTENDS Integers, FiniteSets, SequencesExt

CONSTANT Cells      \* the cell library: [kind, pins, dir, ...] by name

VARIABLES
    src,      \* the source of the design, Verilog or EDIF
    lib,      \* the modules the programs add to it
    top,      \* the top module of the design
    phase     \* what is being done to it

Scalar(name) == <<name, -1>>

(* The name of a pin. *)
PinName(b) == IF b[2] = -1 THEN b[1] ELSE b[1] \o "[" \o ToString(b[2]) \o "]"

MPin(bit) == <<<<>>, bit>>

Empty == [x \in {} |-> x]

Without(f, S) == [x \in DOMAIN f \ S |-> f[x]]

NewModule(pins, dir) ==
    [pins |-> pins, dir |-> dir, insts |-> <<>>, type |-> Empty, net |-> Empty, table |-> Empty]

Shape(ty) == IF ty \in DOMAIN Cells THEN Cells[ty] ELSE lib[ty]

Kind(c, i) == IF c.type[i] \in DOMAIN Cells THEN Cells[c.type[i]].kind ELSE "GENERIC"

-----------------------------------------------------------------------------
(* Pins and nets.                                                          *)

(* A port is a source of the nets inside when it is an input. *)
IsSource(c, q) ==
    IF q[1] = <<>> THEN c.dir[q[2]] = "in" ELSE Shape(c.type[q[1]]).dir[q[2]] = "out"

PinsOn(c, n) == {q \in DOMAIN c.net : c.net[q] = n}

SourcePins(c, n) == {q \in PinsOn(c, n) : IsSource(c, q)}

SinkPins(c, n) == PinsOn(c, n) \ SourcePins(c, n)

PinsOf(c, i) == {<<i, b>> : b \in ToSet(Shape(c.type[i]).pins)}

Connect(c, f) == [c EXCEPT !.net = f @@ @]

MergedInto(net, to, from) == [q \in DOMAIN net |-> IF net[q] = from THEN to ELSE net[q]]

Merge(c, to, from) == [c EXCEPT !.net = MergedInto(@, to, from)]

-----------------------------------------------------------------------------
(* Instances.                                                              *)

CreateInstance(c, i, ty) ==
    [c EXCEPT !.insts = Append(@, i), !.type = @ @@ (i :> ty)]

Release(c, S) ==
    [c EXCEPT !.insts = SelectSeq(@, LAMBDA i : i \notin S),
              !.type  = Without(@, S),
              !.table = Without(@, S),
              !.net   = [q \in {p \in DOMAIN @ : p[1] \notin S} |-> @[q]]]

IsComposite(ty) == ty \in DOMAIN lib /\ (lib[ty].net # Empty \/ lib[ty].insts # <<>>)

Composites(c) == SelectSeq(c.insts, LAMBDA i : IsComposite(c.type[i]))

-----------------------------------------------------------------------------
(* Instance::dissolve: the contents of a composite instance take its place.*)

(* Mutant of RelatedNets: nets joined inside stay apart outside. *)
RelatedNetsApart(c, i) ==
    LET b    == lib[c.type[i]]
        hooked == {p \in ToSet(b.pins) : MPin(p) \in DOMAIN b.net /\ <<i, p>> \in DOMAIN c.net}
    IN  [net |-> c.net, freed |-> {}, wild |-> FALSE,
         rel |-> [n \in {b.net[MPin(p)] : p \in hooked} |->
                    c.net[<<i, CHOOSE p \in hooked : b.net[MPin(p)] = n>>]]]

(* rel_net: which net outside a net inside is.  Nets outside that are one
   inside are merged, the later one into the first; a merged net is freed,
   and nobody looks whether another net inside is related to it. *)
RelatedNets(c, i) ==
    LET b == lib[c.type[i]]
        after[k \in 0..Len(b.pins)] ==
            IF k = 0 THEN [net |-> c.net, rel |-> Empty, freed |-> {}, wild |-> FALSE]
            ELSE LET s     == after[k - 1]
                     outer == <<i, b.pins[k]>>
                     inner == MPin(b.pins[k])
                 IN  IF outer \notin DOMAIN s.net \/ inner \notin DOMAIN b.net THEN s
                     ELSE LET o == s.net[outer]
                              n == b.net[inner]
                          IN  IF n \notin DOMAIN s.rel THEN [s EXCEPT !.rel = @ @@ (n :> o)]
                              ELSE IF s.rel[n] = o THEN s
                              ELSE [s EXCEPT !.net   = MergedInto(@, s.rel[n], o),
                                             !.freed = @ \cup {o},
                                             !.wild  = @ \/ s.rel[n] \in s.freed]
    IN  after[Len(b.pins)]

(* The nets inside have pins of instances that would be put on a freed net. *)
IsWild(c, i) ==
    LET b == lib[c.type[i]]
        s == RelatedNets(c, i)
    IN  s.wild \/ \E q \in DOMAIN b.net :
                     q[1] # <<>> /\ b.net[q] \in DOMAIN s.rel /\ s.rel[b.net[q]] \in s.freed

Dissolve(c, i) ==
    LET b      == lib[c.type[i]]
        s      == RelatedNets(c, i)
        NewNet(n) == IF n \in DOMAIN s.rel THEN s.rel[n] ELSE <<i \o n[1], n[2]>>
        Inside(f) == [x \in {i \o j : j \in DOMAIN f} |-> f[SubSeq(x, Len(i) + 1, Len(x))]]
        inner  == {q \in DOMAIN b.net : q[1] # <<>>}
        rest   == Release([c EXCEPT !.net = s.net], {i})
    IN  [rest EXCEPT
            !.insts = @ \o [k \in DOMAIN b.insts |-> i \o b.insts[k]],
            !.type  = @ @@ Inside(b.type),
            !.table = @ @@ Inside(b.table),
            !.net   = @ @@ [q \in {<<i \o p[1], p[2]>> : p \in inner} |->
                              NewNet(b.net[<<SubSeq(q[1], Len(i) + 1, Len(q[1])), q[2]>>])]]

(* Module::flatten, one instance at a time.  What follows a freed net is
   undefined: the model stops there. *)
Flatten(next) ==
    IF Composites(top) = <<>> THEN phase' = next /\ top' = top
    ELSE LET i == Head(Composites(top))
         IN  IF IsWild(top, i) THEN phase' = "undefined" /\ top' = top
             ELSE top' = Dissolve(top, i) /\ phase' = phase
=============================================================================
