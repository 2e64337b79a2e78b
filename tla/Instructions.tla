----------------------------- MODULE Instructions -----------------------------
(***************************************************************************)
(* The instructions of the packer's rules (src/packing Instruction.cpp,    *)
(* TestExpression.cpp, Transformer.cpp).  A rule has cases, each a test    *)
(* and the instructions done when it holds.  The same instructions rewrite *)
(* the netlist at a match and move a virtual cell into a slice.  A pin     *)
(* once used is passed over for good, whether or not a net came with it.   *)
(* The text of the instructions is parsed beforehand (IsCase).  Where an   *)
(* ASSERT fires or a null pointer is followed there is no step; the ASSERTs *)
(* of a debug build only are left out.                                     *)
(***************************************************************************)
EXTENDS Matcher

CONSTANTS
    FreshNames  \* names make_name may hand out, in order

VARIABLES
    props,  \* properties: <<instance, name>> to value
    job     \* where try_pack stands

SliceInst == "slice_inst"

(* A name means the slice, an instance just created, or an image. *)
FindInstance(i) ==
    IF i = SliceInst THEN job.slice
    ELSE IF i \in DOMAIN job.made THEN job.made[i] ELSE job.current.match[i]

Pin(at) == <<FindInstance(at[1]), at[2]>>

Op == job.ops[1]

(* What the parser accepts: each instruction with its parameters. *)
CreatedBy ==
    [create_inst |-> {"name", "type"}, create_iob |-> {"name", "type", "from"},
     create_slice |-> {"name", "type"}]

MovedBy ==
    [reconnect |-> {"from", "to"}, connect |-> {"from", "to"}, exconnect |-> {"from", "to"},
     reconnect_opt |-> {"from", "to"}]

ReleasedBy == [unhook |-> {"from"}, dupconnect |-> {"from", "to"}, use |-> {"to"}]

DescribedBy ==
    [set_property |-> {"to", "values"}, set_index |-> {"to", "values"},
     clone_property |-> {"from", "to", "name", "default"},
     copy_property |-> {"from", "to", "source", "target"}]

SharedBy ==
    [share_net |-> {"first", "second", "from", "to"}, reconnect2 |-> {"from", "to"}]

Parameters == CreatedBy @@ MovedBy @@ ReleasedBy @@ DescribedBy @@ SharedBy

IsInstruct(o) == o.op \in DOMAIN Parameters /\ DOMAIN o = Parameters[o.op] \cup {"op"}

TestParameters ==
    [true |-> {}, if_slice_full |-> {}, if_pin_fanin |-> {"pin", "types"},
     is_pin_used |-> {"pin"}, current_process |-> {"inst", "value"}]

IsCase(c) ==
    /\ c.test.kind \in DOMAIN TestParameters
    /\ DOMAIN c.test = TestParameters[c.test.kind] \cup {"kind", "invert"}
    /\ \A k \in DOMAIN c.ops : IsInstruct(c.ops[k])

Suspected(i) == [job.suspects EXCEPT !.insts = @ \cup {i}]

Next1(j) == job' = [j EXCEPT !.ops = Tail(@)]

Moved(c, old, new) == PinHooked(PinUnhooked(c, old), c.net[old], new)

FirstUnused(pins) ==
    LET free == {k \in DOMAIN pins : Pin(pins[k]) \notin job.used}
    IN  IF free = {} THEN <<>> ELSE Pin(pins[Min(free)])

-----------------------------------------------------------------------------
(* Look-up tables: in hexadecimal, the row of all ones first, or as an     *)
(* expression, the set of rows that give one, a row the set of pins that   *)
(* are high.                                                               *)

TableInputs == <<"i", "j">>

Bit(n, k) == (n \div 2 ^ (k - 1)) % 2

Rows(table) ==
    IF table.form = "expr" THEN table.rows
    ELSE {{TableInputs[k] : k \in {k \in DOMAIN TableInputs : Bit(Len(table.bits) - n, k) = 1}} :
            n \in {n \in DOMAIN table.bits : table.bits[n] = 1}}

Expr(rows) == [form |-> "expr", rows |-> rows]

(* A table of one hexadecimal digit. *)
Hex(digit) == [form |-> "hex", bits |-> [n \in 1..4 |-> Bit(digit, 5 - n)]]

(* exchange_expr and sub_expr replace the characters 1 and 2 wherever they *)
(* stand.  In an expression that renames its pins: a row gives one if, read *)
(* under the old names, it did.  In a hexadecimal table it puts one digit  *)
(* for another, which has nothing to do with the pins.                     *)
Renamed(table, f) ==
    IF table.form = "expr"
    THEN Expr({row \in SUBSET DOMAIN f : {p \in DOMAIN f : f[p] \in row} \in table.rows})
    ELSE LET digits == {k \in DOMAIN TableInputs : table = Hex(k)}
         IN  IF digits = {} THEN table
             ELSE Hex(CHOOSE n \in DOMAIN TableInputs :
                          \E k \in digits : TableInputs[n] = f[TableInputs[k]])

Exchange(a, b) ==
    [p \in {TableInputs[k] : k \in DOMAIN TableInputs} |-> IF p = a THEN b ELSE IF p = b THEN a ELSE p]

Substitute(a, b) ==
    [p \in {TableInputs[k] : k \in DOMAIN TableInputs} |-> IF p = a THEN b ELSE p]

-----------------------------------------------------------------------------
(* Instances.                                                              *)

Created(i, ty, j) ==
    /\ top' = InstCreated(top, i, ty)
    /\ Next1([j EXCEPT !.made = (Op.name :> i) @@ @])

CreateInst ==
    /\ Op.op = "create_inst"
    /\ job.fresh <= Len(FreshNames)
    /\ Created(FreshNames[job.fresh], Op.type, [job EXCEPT !.fresh = @ + 1])
    /\ UNCHANGED props

CreateSlice ==
    /\ Op.op = "create_slice"
    /\ job.fresh <= Len(FreshNames)
    /\ LET i == FreshNames[job.fresh]
       IN  Created(i, Op.type, [job EXCEPT !.fresh = @ + 1, !.slice = i])
    /\ UNCHANGED props

(* A pad has the name of the port its buffer stands at. *)
CreateIob ==
    /\ Op.op = "create_iob"
    /\ \E q \in DOMAIN top.port :
        /\ top.port[q].net = top.net[Pin(Op.from)]
        /\ Created(q, Op.type, job)
    /\ UNCHANGED props

-----------------------------------------------------------------------------
(* Pins.                                                                   *)

Reconnect ==
    /\ Op.op = "reconnect"
    /\ LET old == Pin(Op.from)
           new == Pin(Op.to)
       IN  IF new \in job.used \/ old \notin Hooked(top)
           THEN /\ Next1([job EXCEPT !.used = @ \cup {new}])
                /\ UNCHANGED top
           ELSE /\ new \notin Hooked(top)
                /\ top' = Moved(top, old, new)
                /\ Next1([job EXCEPT !.used = @ \cup {new}, !.suspects = Suspected(old[1])])
    /\ UNCHANGED props

(* The first pin still unused takes the net, and is used only if one came. *)
ReconnectOpt ==
    /\ Op.op = "reconnect_opt"
    /\ LET old == Pin(Op.from)
           new == FirstUnused(Op.to)
       IN  /\ new \notin Hooked(top)
           /\ IF new = <<>> \/ old \notin Hooked(top)
              THEN Next1(job) /\ UNCHANGED top
              ELSE /\ top' = Moved(top, old, new)
                   /\ Next1([job EXCEPT !.used = @ \cup {new}])
    /\ UNCHANGED props

(* The first pin that has a net gives it. *)
Reconnect2 ==
    /\ Op.op = "reconnect2"
    /\ LET new == Pin(Op.to)
           giving == {k \in DOMAIN Op.from : Pin(Op.from[k]) \in Hooked(top)}
       IN  /\ top' = IF new \in job.used \/ giving = {} THEN top
                     ELSE Moved(top, Pin(Op.from[Min(giving)]), new)
           /\ Next1([job EXCEPT !.used = @ \cup {new}])
    /\ UNCHANGED props

DupConnect ==
    /\ Op.op = "dupconnect"
    /\ LET src == Pin(Op.from)
           tar == Pin(Op.to)
       IN  IF src \notin Hooked(top) THEN UNCHANGED top
           ELSE /\ tar \notin Hooked(top)
                /\ top' = PinHooked(top, top.net[src], tar)
    /\ Next1(job)
    /\ UNCHANGED props

(* A net of their own, which the graph is not told of. *)
Connect ==
    /\ Op.op = "connect"
    /\ LET old == Pin(Op.from)
           new == Pin(Op.to)
       IN  /\ {old, new} \cap Hooked(top) = {}
           /\ top' = [top EXCEPT !.net = [p \in {old, new} |-> old[1] \o "_net_" \o new[1]] @@ @]
    /\ Next1(job)
    /\ UNCHANGED props

UnhookPin ==
    /\ Op.op = "unhook"
    /\ LET p == Pin(Op.from)
       IN  /\ top' = IF p \in Hooked(top) THEN PinUnhooked(top, p) ELSE top
           /\ Next1([job EXCEPT
                         !.suspects = [nets  |-> @.nets \cup {top.net[q] : q \in {p} \cap Hooked(top)},
                                       insts |-> @.insts \cup {p[1]}]])
    /\ UNCHANGED props

(* Mutant of PinsExchanged: the table stays as it is. *)
TableLeft(old, new) == props

(* The table of a LUT follows its pins. *)
PinsExchanged(old, new) ==
    IF old[1] = new[1] /\ top.type[new[1]] = "LUT"
    THEN [props EXCEPT ![<<new[1], "INIT">>] = Renamed(@, Exchange(old[2], new[2]))]
    ELSE props

(* Two pins swap their nets: both are unhooked before either is hooked. *)
Exconnect ==
    /\ Op.op = "exconnect"
    /\ LET old == Pin(Op.from)
           new == Pin(Op.to)
       IN  /\ {old, new} \subseteq Hooked(top)
           /\ top' = PinHooked(PinHooked(PinUnhooked(PinUnhooked(top, old), new),
                                         top.net[old], new),
                               top.net[new], old)
           /\ props' = PinsExchanged(old, new)
    /\ Next1(job)

SameNet(p, q) ==
    \/ {p, q} \subseteq Hooked(top) /\ top.net[p] = top.net[q]
    \/ {p, q} \cap Hooked(top) = {}

(* Only if two pins are not on one net, a third one takes over a net. *)
ShareNet ==
    /\ Op.op = "share_net"
    /\ LET old == Pin(Op.from)
           new == Pin(Op.to)
       IN  IF SameNet(Pin(Op.first), Pin(Op.second)) \/ old \notin Hooked(top) \/ new \in job.used
           THEN Next1(job) /\ UNCHANGED <<top, props>>
           ELSE /\ new \notin Hooked(top)
                /\ top' = Moved(top, old, new)
                /\ Next1([job EXCEPT !.used = @ \cup {new}, !.suspects = Suspected(old[1])])
                /\ props' = IF old[1] = new[1] /\ top.type[new[1]] = "LUT"
                            THEN [props EXCEPT ![<<new[1], "INIT">>] =
                                                  Renamed(@, Substitute(old[2], new[2]))]
                            ELSE props

(* The first pin still unused becomes used, and so does its net: a null    *)
(* pointer when it has none.  The marks of nets and instances are read by  *)
(* nothing modelled (is_inst_used, and remove_residues, which is not called). *)
UsePin ==
    /\ Op.op = "use"
    /\ LET p == FirstUnused(Op.to)
       IN  /\ p # <<>> => p \in Hooked(top)
           /\ Next1([job EXCEPT !.used = @ \cup ({p} \ {<<>>})])
    /\ UNCHANGED <<top, props>>

-----------------------------------------------------------------------------
(* Properties.                                                             *)

Has(i, name) == <<i, name>> \in DOMAIN props

With(i, name, value) == (<<i, name>> :> value) @@ props

(* The first of the properties that is not there yet. *)
SetProperty ==
    /\ Op.op = "set_property"
    /\ LET i == FindInstance(Op.to)
           new == {k \in DOMAIN Op.values : ~Has(i, Op.values[k][1])}
       IN  props' = IF new = {} THEN props
                    ELSE With(i, Op.values[Min(new)][1], Op.values[Min(new)][2])
    /\ Next1(job)
    /\ UNCHANGED top

CloneProperty ==
    /\ Op.op = "clone_property"
    /\ LET i == FindInstance(Op.from)
       IN  props' = With(FindInstance(Op.to), Op.name,
                         IF Has(i, Op.name) THEN props[<<i, Op.name>>] ELSE Op.default)
    /\ Next1(job)
    /\ UNCHANGED top

(* A table becomes an expression on its way to a LUT and keeps its old form beside. *)
CopyProperty ==
    /\ Op.op = "copy_property"
    /\ LET i == FindInstance(Op.from)
           j == FindInstance(Op.to)
       IN  props' =
            IF Op.source = "NAME" THEN With(j, Op.target, i)
            ELSE IF ~Has(i, Op.source) THEN props
            ELSE IF Op.target = "INIT"
            THEN (<<j, "INIT_HEX">> :> props[<<i, Op.source>>])
                    @@ With(j, "INIT", Expr(Rows(props[<<i, Op.source>>])))
            ELSE With(j, Op.target, props[<<i, Op.source>>])
    /\ Next1(job)
    /\ UNCHANGED top

(* The first of the values that is not there yet goes to the front. *)
Indexed(i, values) ==
    IF ~Has(i, "INDEX") THEN <<values[1]>>
    ELSE LET old == props[<<i, "INDEX">>]
             new == {k \in DOMAIN values : values[k] \notin ToSet(old)}
         IN  IF new = {} THEN old ELSE <<values[Min(new)]>> \o old

SetIndex ==
    /\ Op.op = "set_index"
    /\ LET i == FindInstance(Op.to)
       IN  props' = With(i, "INDEX", Indexed(i, Op.values))
    /\ Next1(job)
    /\ UNCHANGED top

-----------------------------------------------------------------------------
(* Tests.                                                                  *)

FaninType(t) ==
    /\ Pin(t.pin) \in Hooked(top)
    /\ \E p \in SourcePins(top, top.net[Pin(t.pin)]) : top.type[p[1]] \in t.types

CurrentProcess(t) ==
    LET i == FindInstance(t.inst)
    IN  Has(i, "INDEX") /\ (props[<<i, "INDEX">>][1] = t.value) # t.invert

TestHolds(t) ==
    CASE t.kind = "true" -> ~t.invert
      [] t.kind = "if_pin_fanin" -> FaninType(t) # t.invert
      [] t.kind = "if_slice_full" -> job.full # t.invert
      [] t.kind = "is_pin_used" -> (Pin(t.pin) \in job.used) # t.invert
      [] t.kind = "current_process" -> CurrentProcess(t)

-----------------------------------------------------------------------------
(* A rule at work.                                                         *)

AtWork == job.phase \in {"execute", "slice"}

NextCase ==
    /\ AtWork
    /\ job.ops = <<>>
    /\ job.cases # <<>>
    /\ job' = [job EXCEPT !.cases = Tail(@),
                          !.ops = IF TestHolds(job.cases[1].test) THEN job.cases[1].ops ELSE <<>>]
    /\ UNCHANGED <<top, props>>

Execute ==
    /\ AtWork
    /\ job.ops # <<>>
    /\ \/ CreateInst \/ CreateSlice \/ CreateIob
       \/ Reconnect \/ ReconnectOpt \/ Reconnect2 \/ DupConnect \/ Connect
       \/ UnhookPin \/ Exconnect \/ ShareNet \/ UsePin
       \/ SetProperty \/ CloneProperty \/ CopyProperty \/ SetIndex

RuleDone == job.ops = <<>> /\ job.cases = <<>>
=============================================================================
