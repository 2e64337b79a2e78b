-------------------------------- MODULE Packer --------------------------------
(***************************************************************************)
(* The mapping loop of the packer (src/packing Packer.cpp, Transformer.cpp,*)
(* Match.cpp).  Dangling elements go first.  Then, layer by layer of the   *)
(* hardware and macro libraries, the matches of all rules of the layer are *)
(* found, afterwards the instructions of each rule rewrite the netlist at  *)
(* each of its matches, and what came to dangle is removed.  The layers of *)
(* the pack library only match: their matches become virtual cells of the  *)
(* type of the layer, an instance stays locked from one layer to the next, *)
(* and the netlist is not rewritten before all are found.                  *)
(***************************************************************************)
EXTENDS Instructions

CONSTANTS
    Tasks       \* [cell, props, layers]: flat cells, the properties of their
                \* instances, and rule libraries, sequences of layers [rules, type]

VARIABLES
    layers      \* the rule library

packerVars == <<top, locks, csp, layers, props, job>>

ASSUME RulesAssumption ==
    \A t \in Tasks : \A l \in DOMAIN t.layers : \A r \in ToSet(t.layers[l].rules) :
        \A k \in DOMAIN r.cases : IsCase(r.cases[k])

Layer == layers[job.layer]

Rule == Layer.rules[job.rule]

(* The hardware and macro libraries rewrite; the others give virtual cells. *)
Rewrites(layer) == layer.type = "none"

-----------------------------------------------------------------------------
(* Dangling elements.                                                      *)

DanglingNet(c, n) ==
    \/ SourcePins(c, n) = {} /\ PortsOf(c, n, "in") = {}
    \/ SinkPins(c, n) = {} /\ PortsOf(c, n, "out") = {}

DanglingInst(c, i) ==
    LET has(dir) == \E p \in Pins(c, i) : Dir(c, p) = dir
        uses(dir) == \E p \in Pins(c, i) \cap Hooked(c) : Dir(c, p) = dir
    IN  ~ \/ ~has("out") /\ uses("in")
          \/ ~has("in") /\ uses("out")
          \/ uses("in") /\ uses("out")
          \/ uses("inout")

NetsOf(c, S) == {c.net[p] : p \in {p \in Hooked(c) : p[1] \in S}}

InstsOf(c, N) == {p[1] : p \in {p \in Hooked(c) : c.net[p] \in N}}

(* One loop over the nets, or over the instances, that may dangle. *)
SweepNets(c, s) ==
    LET gone == {n \in s.nets \cap Nets(c) : DanglingNet(c, n)}
    IN  [top |-> NetsRemoved(c, gone), nets |-> {}, insts |-> s.insts \cup InstsOf(c, gone)]

(* Mutants of SweepInsts: the nets of what goes are not looked at; the     *)
(* instances stay under suspicion.                                         *)
SweepInstsAlone(c, s) ==
    [top |-> InstsRemoved(c, {i \in s.insts : DanglingInst(c, i)}), nets |-> s.nets, insts |-> {}]

SweepInstsAgain(c, s) ==
    LET gone == {i \in s.insts : DanglingInst(c, i)}
    IN  [top |-> InstsRemoved(c, gone), nets |-> s.nets \cup NetsOf(c, gone), insts |-> s.insts \ gone]

SweepInsts(c, s) ==
    LET gone == {i \in s.insts : DanglingInst(c, i)}
    IN  [top |-> InstsRemoved(c, gone), nets |-> s.nets \cup NetsOf(c, gone), insts |-> {}]

Sweep(turn) ==
    LET swept == IF turn = "nets" THEN SweepNets(top, job.suspects) ELSE SweepInsts(top, job.suspects)
    IN  /\ top' = swept.top
        /\ job' = [job EXCEPT !.suspects = [nets |-> swept.nets, insts |-> swept.insts],
                              !.turn = IF turn = "nets" THEN "insts" ELSE "nets"]
        /\ UNCHANGED <<locks, csp, layers, props>>

NoSuspects == job.suspects.nets \cup job.suspects.insts = {}

-----------------------------------------------------------------------------
(* The loop.                                                               *)

NoSolver == [status |-> "idle"]

NoLocks == [rule |-> {}, layer |-> {}]

PackerInit ==
    /\ \E t \in Tasks :
        /\ top = [BuildGraph(t.cell) EXCEPT !.nodes = {}, !.arcs = [a \in {} |-> {}]]
        /\ props = t.props
        /\ layers = t.layers
    /\ locks = NoLocks
    /\ csp = NoSolver
    /\ job = [phase |-> "first_sweep", layer |-> 1, rule |-> 1, todo |-> <<>>, cases |-> <<>>,
              ops |-> <<>>, current |-> None, made |-> [n \in {} |-> None], slice |-> None,
              full |-> FALSE, used |-> {}, fresh |-> 1, turn |-> "nets",
              suspects |-> [nets  |-> {n \in Nets(top) : DanglingNet(top, n)},
                            insts |-> {i \in Insts(top) : DanglingInst(top, i)}]]

FirstSweep ==
    /\ job.phase = "first_sweep"
    /\ ~NoSuspects
    /\ Sweep(job.turn)

(* The first match of the first layer has the graph built. *)
FirstGraph ==
    /\ job.phase = "first_sweep"
    /\ NoSuspects
    /\ top' = BuildGraph(top)
    /\ job' = [job EXCEPT !.phase = "match"]
    /\ UNCHANGED <<locks, csp, layers, props>>

BeginRule ==
    /\ job.phase = "match"
    /\ csp.status = "idle"
    /\ job.rule <= Len(Layer.rules)
    /\ StartSolve(Rule)
    /\ UNCHANGED <<top, locks, layers, props, job>>

Match ==
    /\ job.phase = "match"
    /\ csp.status # "idle"
    /\ SolveStep
    /\ UNCHANGED <<layers, props, job>>

EndRule ==
    /\ job.phase = "match"
    /\ csp.status = "done"
    /\ csp' = NoSolver
    /\ job' = [job EXCEPT !.rule = @ + 1,
                          !.todo = @ \o [k \in DOMAIN csp.found |->
                                            [rule |-> Rule, type |-> Layer.type,
                                             match |-> csp.found[k]]]]
    /\ UNCHANGED <<top, locks, layers, props>>

(* After the last layer the virtual cells are clustered, and the graph is left behind. *)
Advance ==
    IF job.layer < Len(layers)
    THEN /\ job' = [job EXCEPT !.phase = "match", !.rule = 1, !.layer = @ + 1]
         /\ UNCHANGED top
    ELSE /\ job' = [job EXCEPT !.phase = "seeds"]
         /\ top' = [top EXCEPT !.follows = FALSE]

(* All rules of the layer have their matches. *)
EndMatching ==
    /\ job.phase = "match"
    /\ csp.status = "idle"
    /\ job.rule > Len(Layer.rules)
    /\ IF Rewrites(Layer) THEN job' = [job EXCEPT !.phase = "next_match"] /\ UNCHANGED top
       ELSE Advance
    /\ UNCHANGED <<locks, csp, layers, props>>

NextMatch ==
    /\ job.phase = "next_match"
    /\ job' = IF job.todo = <<>> THEN [job EXCEPT !.phase = "sweep", !.turn = "nets"]
              ELSE [job EXCEPT !.phase = "execute", !.current = job.todo[1],
                               !.cases = job.todo[1].rule.cases]
    /\ UNCHANGED <<top, locks, csp, layers, props>>

Work == (NextCase \/ Execute) /\ UNCHANGED <<locks, csp, layers>>

Rewrite == job.phase = "execute" /\ Work

EndMatch ==
    /\ job.phase = "execute"
    /\ RuleDone
    /\ job' = [job EXCEPT !.phase = "next_match", !.todo = Tail(@), !.made = [n \in {} |-> None]]
    /\ UNCHANGED <<top, locks, csp, layers, props>>

LayerSweep ==
    /\ job.phase = "sweep"
    /\ ~NoSuspects
    /\ Sweep(job.turn)

EndLayer ==
    /\ job.phase = "sweep"
    /\ NoSuspects
    /\ locks' = NoLocks
    /\ Advance
    /\ UNCHANGED <<csp, layers, props>>

Map ==
    \/ FirstSweep \/ FirstGraph \/ BeginRule \/ Match \/ EndRule \/ EndMatching
    \/ NextMatch \/ Rewrite \/ EndMatch \/ LayerSweep \/ EndLayer

-----------------------------------------------------------------------------
(* Properties.                                                             *)

(* Matches are all found before the first is rewritten: where every role   *)
(* locks, each is still there when its turn comes.                         *)
MatchStillThere ==
    /\ job.phase = "execute"
    /\ job.cases = job.current.rule.cases
    /\ \A k \in DOMAIN Layer.rules : \A i \in Layer.rules[k].cell.nodes : Layer.rules[k].lock[i]
    => Joined(job.current.rule, job.current.match)

(* Every match the solver saves embeds the rule in the design, and when it *)
(* gives up, jumping back has skipped no embedding of instances the type   *)
(* queries admit: it was saved or uses one locked.  When its turn comes it *)
(* is still there (NetlistCSP.cpp, Packer.cpp).                            *)
MatchesAreEmbeddings ==
    /\ csp.status # "idle" => \A k \in DOMAIN csp.found : IsEmbedding(csp.rule, csp.found[k])
    /\ csp.status = "done" =>
        LET r == csp.rule
        IN  \A m \in [r.cell.nodes -> top.nodes] :
                /\ \A i \in r.cell.nodes : Node(m[i]) \in csp.tq[Node(i)]
                /\ IsEmbedding(r, m)
                => m \in ToSet(csp.found) \/ \E i \in r.cell.nodes : m[i] \in locks.rule
    /\ MatchStillThere

(* The graph that follows the netlist is the graph built from it. *)
GraphFollows ==
    job.phase \in {"match", "next_match", "execute", "sweep"} =>
        top.nodes = Insts(top) /\ top.arcs = BuiltArcs(top)

(* Between layers nothing dangles. *)
NothingDangles ==
    job.phase \in {"match", "seeds"} =>
        /\ \A n \in Nets(top) : ~DanglingNet(top, n)
        /\ \A i \in Insts(top) : ~DanglingInst(top, i)
=============================================================================
