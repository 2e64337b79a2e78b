----------------------------- MODULE NetlistFile -----------------------------
(***************************************************************************)
(* The file that one program of the flow leaves for the next               *)
(* (src/common/io): the modules in use, libraries other than the work      *)
(* library as external ones without contents, instances by their names,    *)
(* nets as lists of pins by name.  The design written is flat, so that the *)
(* modules in use are the top module and the cells it instantiates.        *)
(*                                                                         *)
(* A file is [external, module]: the cells in the order they are met, and  *)
(* the top module as [pins, dir, insts, nets], an instance as [name, ref,  *)
(* table] with the set of the table it has, a net as the set of its pins   *)
(* [inst, pin], with inst "" for a port of the module.                     *)
(***************************************************************************)
EXTENDS Netlist

VARIABLE file     \* what the last program wrote

NoFile == [external |-> <<>>, module |-> Empty]

(* merge_names along a path: the name of an instance after dissolving. *)
MergeNames(s, t) == IF s = "" THEN t ELSE IF t = "" THEN s ELSE s \o "_" \o t

Name(path) == FoldLeft(MergeNames, "", path)

-----------------------------------------------------------------------------
(* Writing.                                                                *)

MarkModuleUsed(used, ty) == IF ty \in ToSet(used) THEN used ELSE Append(used, ty)

MarkUsed(c) == FoldLeft(MarkModuleUsed, <<>>, [k \in DOMAIN c.insts |-> c.type[c.insts[k]]])

WriteInstance(c, i) ==
    [name |-> Name(i), ref |-> c.type[i], table |-> {c.table[j] : j \in {i} \cap DOMAIN c.table}]

(* Mutant of WritePin: the name within the composite instance. *)
WritePinShort(q) == [inst |-> IF q[1] = <<>> THEN "" ELSE Last(q[1]), pin |-> q[2]]

WritePin(q) == [inst |-> Name(q[1]), pin |-> q[2]]

WriteNet(c, n) == {WritePin(q) : q \in PinsOn(c, n)}

WriteModule(c) ==
    LET nets == FoldSet(LAMBDA n, listed : Append(listed, n), <<>>, Range(c.net))
    IN  [pins |-> c.pins, dir |-> c.dir,
         insts |-> [k \in DOMAIN c.insts |-> WriteInstance(c, c.insts[k])],
         nets |-> [k \in DOMAIN nets |-> WriteNet(c, nets[k])]]

(* The program ends once its file is written. *)
WriteDesign(next) ==
    /\ file' = [external |-> MarkUsed(top), module |-> WriteModule(top)]
    /\ top' = NewModule(<<>>, Empty)
    /\ lib' = Empty
    /\ phase' = next

-----------------------------------------------------------------------------
(* Reading.  Names are looked up from the front of a list: with two        *)
(* instances of one name every pin goes to the first.                      *)

(* A cell that the program's own library has is not read again. *)
LoadLibrary(f) == [ty \in ToSet(f.external) \ DOMAIN Cells |-> NewModule(<<>>, Empty)]

LoadInstance(m, k) ==
    IF \E j \in 1..k - 1 : m.insts[j].name = m.insts[k].name
    THEN <<m.insts[k].name, "", ToString(k)>>
    ELSE <<m.insts[k].name>>

LoadPin(p) == IF p.inst = "" THEN MPin(p.pin) ELSE <<<<p.inst>>, p.pin>>

FileNet(k) == <<<<"file">>, <<"", k>>>>

LoadInstances(m) ==
    LET id == [k \in DOMAIN m.insts |-> LoadInstance(m, k)]
        No(i) == CHOOSE k \in DOMAIN id : id[k] = i
    IN  [NewModule(m.pins, m.dir) EXCEPT
            !.insts = id,
            !.type  = [i \in ToSet(id) |-> m.insts[No(i)].ref],
            !.table = [i \in {id[k] : k \in {j \in DOMAIN id : m.insts[j].table # {}}} |->
                          CHOOSE t \in m.insts[No(i)].table : TRUE]]

(* The assertions of load_pin and Pin::connect: the pin is there and free. *)
CanConnect(c, m) ==
    LET refs == {<<k, p>> \in (DOMAIN m.nets) \X UNION ToSet(m.nets) : p \in m.nets[k]}
        known == {MPin(b) : b \in ToSet(c.pins)} \cup UNION {PinsOf(c, i) : i \in ToSet(c.insts)}
    IN  /\ \A r \in refs : LoadPin(r[2]) \in known
        /\ \A r, s \in refs : LoadPin(r[2]) = LoadPin(s[2]) => r = s

LoadNets(c, m) ==
    Connect(c, [q \in {LoadPin(p) : p \in UNION ToSet(m.nets)} |->
                   FileNet(CHOOSE k \in DOMAIN m.nets : \E p \in m.nets[k] : LoadPin(p) = q)])

LoadModule(m) == LoadNets(LoadInstances(m), m)

LoadDesign(next) ==
    /\ IF CanConnect(LoadInstances(file.module), file.module)
       THEN /\ lib' = LoadLibrary(file)
            /\ top' = LoadModule(file.module)
            /\ phase' = next
       ELSE phase' = "stopped" /\ UNCHANGED <<lib, top>>
    /\ file' = file
=============================================================================
