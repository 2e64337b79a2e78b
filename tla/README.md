# TLA+ models of the FDE tool chain

This directory models FDE, the tool chain for the FDP FPGA family, from the
import of a netlist to the bit stream: specifications in TLA+, model-checked
with TLC on small instances, and theorems about the core of the router checked
by TLAPS. `PROJECT.json` relates every definition to the lines of source it
stands for.

1. [The system](#1-the-system)
2. [The models](#2-the-models)
3. [The runs](#3-the-runs)
4. [Fairness](#4-fairness)
5. [What is proved](#5-what-is-proved)
6. [Disagreements found](#6-disagreements-found)
7. [Remarks on the code](#7-remarks-on-the-code)
8. [What is not modelled](#8-what-is-not-modelled)
9. [Plan](#9-plan)

## 1. The system

FDE is a pipeline of command-line programs. Each reads a netlist in XML, the
device description (`arch`, `cil`) and sometimes a constraint file, and writes a
netlist for the next:

    Verilog -> vl2xml -> map --\
                                +-> pack -> place -> route -> sta
    Yosys (EDIF) -----> map --/                          \---> bitgen

`NLFiner` stands beside the flow: it spells out what the slices and pads of a
packed netlist are. `viewer` displays the device and a routed design.

They are single-threaded processes without shared state, sockets or recovery:
nothing in this system is lost, duplicated or restarted, and no step of one
program interleaves with a step of another. What is hard in them is of three
kinds.

- Long-running heuristics, placement by annealing and negotiated routing, keep
  *redundant* state (counters, costs, tables, boxes, marks, arrival times) in
  step with the design through millions of incremental updates. Nobody ever
  compares the two again.
- Transformations of the netlist (dissolving, mapping, packing) are sequences of
  small destructive steps in the middle of which the netlist is neither the old
  nor the new one, with graphs and lists that are kept beside it through
  callbacks.
- Constructions (routing graph, delay trees, bit stream) walk the device in an
  order that a result depends on, with state that is recycled between steps.

The tests, where there are any, look at single designs. That is what these
modules are about.

| part | source | state it keeps | what makes it correct | module |
|---|---|---|---|---|
| Verilog import | `src/vl2xml` | modules, bit lists, groups of equal nets | the flat netlist joins what the source makes equal | `VerilogImport` |
| EDIF import | `src/common/io/loadedif.cpp` | names behind identifiers, per cell | as above, through renames and members of arrays | `EdifImport` |
| netlist | `src/common/netlist` | modules, instances, pins, nets | dissolving keeps connections | `Netlist` |
| netlist files | `src/common/io`, `io/xml` | modules in use; names | what is written can be read again and is the same | `NetlistFile` |
| technology mapping | `src/mapping` | and nodes, cuts, best cuts | the mapped netlist computes what was read, in tables of least depth | `TechMap` |
| packer | `src/packing` | cell graph, domains and blames of the matcher, locks, virtual cells | matches are embeddings, none is missed; the graph follows the netlist; slices compute what was packed; carry chains are neighbours; it ends | `CellGraph`, `Matcher`, `Instructions`, `Packer`, `Clusters` |
| placer, inference | `plc_carry_infer.*`, `plc_lut6_infer.*`, `plc_netlist.cpp` | chains, pairs, objects | chains are those of the carry nets, constraints that cannot be met are refused | `Inference` |
| placer, floorplan | `src/placer/plc_floorplan.cpp`, `plc_device.*`, `plc_netlist.*` | slots and counters of tiles, positions of instances, positions still to try, positions a chain may go to | slots, counters and positions agree; constraints, pairs and chains keep their shape | `Floorplan` |
| placer, cost | `plc_boundingbox.*`, `plc_algorithm.*` | box of each net with counts per side, saved box, running cost, delays of the connections | boxes, cost and delays are those of the placement | `Placer` |
| routing resource graph | `src/common/rrg` | cells of two recycled pools per column, nodes, edges | one node per wire, of the wire's extent | `RRG` |
| router, base costs | `Router.cpp`, `rutils.h`, `RRGNode` | class of each wire, cost of each class | costs are those of the device's wires | `BaseCost` |
| router, negotiation | `src/router/src/RouteBreadthFirst.cpp`, `Router.cpp`, `RTFactory.cpp` | occupancy, present and history cost of nodes, paths of nets, the present factor | occupancy = users; a search never reads a stale cost; success means no overuse; a design that fits is not given up | `PathFinder`, `Router` |
| router, search | `RouteBreadthFirst.cpp`, `rheap.cpp`, `RTFactory.cpp` | heap, cost and predecessor per node, flags, marks, list of modified nodes | the route is a tree with all sinks; marks never survive; unroutable means unreachable; the path is cheapest | `NetSearch`, `OneNet` |
| router, timing driven | `RouteTiming.cpp`, `rtree.cpp` | as above plus a route tree with Elmore delays, criticalities | delays of the tree are those of its resistances; occupancy is use | `RouteTree`, `TimingRouter` |
| timing engine | `src/common/tengine` | timing graph, order, arrival and required times | slacks are safe although arrivals are never reset | `TEngine` |
| static timing analyser | `src/sta` | delay tree of each net, clock domains, paths | delays follow the route, the reported path is the longest, no register is left out | `RDTree`, `STA` |
| netlist finer | `src/NLFiner` | copies of the block templates, configurations | a block becomes what its configurations say, none takes from another | `NLFiner` |
| bit stream generator | `src/bitgen` | bit array of each tile, memories, frames | every bit is what the circuit asks of that place | `Bitgen` |

How they interact. The programs interact through files: `NetlistFile` is that
interface where it is modelled (between vl2xml, map and the packer), the others
start from states that stand for what they read. Within a program:
`Router::initialize` builds nodes from the routing resource graph and nets from
the netlist; the loop calls the search once per net and iteration; search and
loop share the nodes (`occ_`, `pres_cost`, `hist_cost` are written by the loop
and read by the search; `path_cost`, `prev_node`, flags and `mdf_nodes_` are
written by the search and have to be clean before the next one) and the net's
`path_`. The timing driven loop loads the delays of its route trees into the
timing engine and reads its next criticalities out of it. In the placer,
`SAPlacer::try_swap` calls `Floorplan::swap_insts`, which changes positions,
then `find_affected_nets` and `compute_delta_bb_cost`, which change boxes, then
`maintain`, which commits both or puts both back. The packer's netlist calls the
cell graph before and after each change of a pin; the matcher reads that graph,
the instructions change the netlist. The static timing analyser builds the
routing graph, walks the routed pips over it and hands delays to the engine.

`PROJECT.json` lists the hazards of this code at their lines with the properties
that cover them.

## 2. The models

    Placement (abstract)            PathFinder (abstract search)
        ^ refines                        ^ refines
    Inference <- Floorplan <- Placer     BaseCost <- NetSearch <- Router <- TimingRouter
                                                     NetSearch <- OneNet    RouteTree, TEngine <-

    RRG <- RDTree <- STA -> TEngine      Bitgen      Netlist <- NLFiner

    CellGraph <- Matcher <- Instructions <- Packer <- Clusters

    Netlist <- VerilogImport, EdifImport, TechMap, NetlistFile <- FrontEnd

`A <- B` reads: B EXTENDS A. Each tree is one composed specification, and each
has one MC module with the devices, netlists or designs of its run.

### PathFinder

The negotiation loop with the search of a net as one step. `path` is the set of
nodes of `RTNet::path_`, `occ`, `pres`, `hist` are the fields of `RTNode` and
`RTInfo`; `pc`, `itry`, `idx`, `presFac`, `result` are the program counter and
the locals of `try_breadth_first_and_directd_search_route`. `RipUp` is the call
`path_update_one_cost(-1)` plus what the search does first: it clears the path
and, for a partially routed net, runs `load_info_from_fixed_path`. `Commit(r)` is
a search that returned `r` and `path_update_one_cost(1)`; `Unroutable` a search
that returned false, `Succeed` and `NextIteration` the end of the iteration
(`infeasible_route`, `update_nodes_cost`). The search may return any member of
`Routes[n]`, an arbitrary set of node sets: whatever holds here holds of every
search. Costs are exact: they are integers in halves, since the defaults of the
code (`RTParams`) are multiples of 0.5, and floating-point rounding is left out.

### NetSearch, OneNet

`breadth_first_and_directed_search_route_net`, step by step. The heap is the set
of its entries; a pop takes any entry of least cost, so ties are explored in
every order. `BeginNet` is the head of the function, `SkipSink` and `BeginSink`
the head of the loop over sinks, `PopStale`, `PopExpand` and `ReachSink` the
three things a pop can lead to, `FailSearch` the empty heap and `FinishNet` the
end. The list `path_` is kept as the code keeps it: the branch to a later sink
starts with the node it shares with the route, and `Visited` is the iteration
that skips the element after a sink. The functions of the code that derive a
net's status from its pips (`is_completely_routed`, `is_ignore`,
`is_partial_routed`) are operators on the record of the net. The bounding box
of the net, its widening and its cutting to the device are `BBox`, the test on a
node `InBox`. `BaseCost` is what a wire costs before any congestion: the class of
a node by name, extent and what hangs on it (`CostIndex`), the cost of a class from
the segments of the tile in the middle of the device (`NormFac`, `SavedCost`,
`ModifiedCost`) and its resistance and capacitance; `Initialized` puts them on the
device. Costs are integers in sixteenths (base costs in quarters, history and
present cost in halves), distance and the A* factor likewise. `OneNet`
runs the search for one net on every device and case listed, with constant node
costs, against a reference definition of reachability and cheapest paths
(`PathCosts`).

### Router

The loop with `NetSearch` inside, from the state after `initialize` to the pips
that `save_path` writes. It implements `PathFinder`: `PF` maps `path` to the
nodes of the list, and to the empty set while the net is being searched for
(PathFinder commits in one step what the search builds branch by branch); the
remaining variables map to themselves. `Negotiates == PF!Spec` is the
refinement; it is where the occupancy counted over the list (with the skipping
traversal) is compared with the one counted over sets.

### RouteTree, TimingRouter

`RouteTree` is `RTree`: a branch is hung on the tree for every sink, its loads
are added up to the nearest buffer and only the part behind that buffer gets new
delays. `TimingRouter` is `try_timing_driven_route`: the loop of `Router` with a
search whose cost mixes congestion and delay by the sink's criticality, sinks in
the order of their criticality, the whole tree put back in the heap after each
sink, and occupancy that is raised branch by branch. After an iteration the
delays of the trees go into the timing engine (an INCREMENT analysis) and the
slacks become the criticalities. Criticalities are fractions rounded down.

### TEngine

`TEngine::timing_analyse`: nodes and edges from the netlist (`BuildGraph`), the
topological sort as the recursion `topo_visit` (`stack`, `seen`) from any source
first, arrival times forward, required times backward, slack per connection, and
the second and later analyses that load delays and run again without clearing
arrivals. Delays are integers, rising and falling alike.

### RRG, RDTree, STA

`RRG` is `build_rrg`: columns from right to left; in each the pins get cells for
node pointers, cells are joined through nets and the routing matrix, nodes are
spread over them, edges are built, and the cells of the column but one before are
used again. One action is one row of one step of one column. `RDTree` walks from
a net's source over its pips to a tree of source, line, switch and output nodes
(`NetWalkGuider`, `RDTEngine`), sums capacitance up and delay down. `STA` puts
both before the timing graph, finds clock nets and the domain of each register,
computes arrivals per domain and traces back a path for each end of each of the
three reports. The nodes of pips and pins are found as `find_grm_net_node` and
`find_logic_pin_node` find them, also for a memory that spans several rows.

### Placement, Floorplan, Placer

`Inference` reads chains (`CIN`/`COUT` nets), pairs (`F5` nets), objects and ignored
nets off the packed netlist and has the checks of the constraints. `Placement` is
what the placer promises without any bookkeeping: an object is
put somewhere in its shape, and then instances change places, subject to the
constraints, one instance per slot, and the shapes that the carry and F5 nets
of the design ask for. `Floorplan` is the program: `slot` and `occ` are the tiles
(`Site::_occ_insts`, `_occ`), `avail` the positions a tile may still try
(`_available_pos`), `pos` and `past` the two positions of an instance, `objs` the
swap objects, `qual` the table `_qualified_pos`, `from` and `swaps` the exchange
in flight. `PlaceChain`, `PlaceLut6`, `PlaceSite` and their failures are
`init_place`; `PickObject`, `GiveUp`, `Refuse`, `Exchange` are `swap_insts` with
`find_to`; `Keep` and `Undo` are the two branches of `maintain`; `Finish` is
`check_place`. The three sets of rules `satisfy_cst_rules_for_*` are `SiteVerdict`,
`Lut6Verdict`, `ChainVerdict`: whether a position is taken, popped for good, or
refused and left to be drawn again, the difference on which the termination of
`find_to` rests. `rand()` is a choice by `\E`, and any exchange may be kept or
refused, so the checks cover every cost function and temperature. The refinement
maps `place` to the position in force: `pos`, or `past` while an exchange is
being decided. An exchange that is undone is then no step of `Placement` at all.

`Placer` begins with the computation and the incremental update of a net's box,
operators per axis, and extends the floorplan by the boxes, the saved boxes and
the running cost: `PExchange` is an exchange with `find_affected_nets` and
`compute_delta_bb_cost`, `PKeep` and `PUndo` the matching ends of `maintain`.
The factor of `compute_bb_cost` is left out because it is one constant for all
nets: the function keeps the fanout of the first net in a static variable. In mode
TIMING_DRIVEN an exchange also looks the delays of the connections it may change
up in the device's table (`Visited`, `P2PDelay`, clamped at the table's edge);
they become those of the connections when it is kept.

### Bitgen

From a circuit's configurations and pips to the words of the stream. Library
data (tile types, sites, elements, srams) are records with opaque names; an sram
is a place, the distance to the tile that physically holds it, and that tile's
type. Actions follow `bstrGener`: initial content, configurations and pips turned
into bits, foreign bits handed over tile by tile (the only loop whose order
matters), then the defaults, which have three sources: the defaults of an
element's functions (`DefaultCfgs`), the paths (`pathDefaults`), and the srams no
one asked for. `WriteCommand` is one command of the library's list: a register,
a header of a major with the frames behind it, the content of the memories, a
filling. The stream is a sequence of words, and the property reads it as the
device would (`Device`): a header opens a register, the words that follow are its
burst, and every burst must have the length its header announced. Widths are
parameters.

### CellGraph, Matcher, Instructions, Packer, Clusters

`CellGraph` is the graph of a cell, a node per instance and an arc per source pin
and instance reached, built once (`BuiltArcs`) and kept in step by the callbacks
of `Factory.cpp`. `Matcher` is the backjumping solver of `NetlistCSP.cpp`: a
variable per object of the rule's graph, domains computed by queries from
variables that are bound, blame lists that say how far to jump back, locks.
`Instructions` is the rule language: one action per instruction, with the tests
of `TestExpression.cpp`; the same instructions rewrite the netlist and move cells
into slices. Where an `ASSERT` fires or a null pointer is followed an action has no
step, so that the run, which checks deadlock, would show it. The `is_inst_used` test, the marks
on instances and nets it reads, and the `ASSERTSD` of debug builds are left out. `Packer` is the loop over layers and rules with the sweep of what
dangles, `Clusters` the pack library: virtual cells, seeds, chains through `COUT`,
`XB` or `YB`, slices, and the removal of what was moved.

### Netlist, VerilogImport, EdifImport, TechMap, NetlistFile, FrontEnd

`Netlist` has modules as records and `Instance::dissolve` as an operator with the
net merging it does in place. `VerilogImport` converts modules bit by bit in the
order they become complete and flattens; `EdifImport` reads items of an EDIF file
one by one with the table of renames; `TechMap` goes through gates, and nodes,
cuts, tables, buffers, pads and constants, one instance per step; a mapped EDIF
design enters at the buffers. `NetlistFile` writes the modules in use and reads
them back by name, as the next program does; names of dissolved instances are
paths, and become one name with underscores in the file. `FrontEnd` composes them
and states what a source means independently: as equations between bits
(`Equations`, `EdifEquations`) and as the value of a net (`NetValue`).

### NLFiner

A slice or pad gets a copy of the template of its block (`RebuildVerboseInstance`).
`GetOperation` is `ConfigRepo::get_operation`, which finds the operation for the
words of a configuration; `OpRemove`, `OpMux`, `OpVccGnd` and `OpAttr` are the
operations, one `Configure` step each, in the order of the configurations; the write
strobe (`EndConfigure`) and the sweeps follow as in `refine_instance`. Template and
configuration library are invented in the form of the real ones, which are not in
the repository.

## 3. The runs

All runs use TLC's exhaustive search with two workers; the longest takes about
three minutes.

| run | module | shows |
|---|---|---|
| `negotiation` | `MCPathFinder` | Three nets negotiate for three wires (one of capacity two) beside a net that came complete, any choice of routes in every iteration: `OccAccounting`, `PresCurrent`, `SuccessIsLegal`, `HistoryIsEarned`. |
| `one_net` | `MCOneNet` | One net with two sinks on 256 devices: six optional switches, two classes of wires, both algorithms, A* and box factors, clock and ordinary nets, also with a fixed path to one sink (by directed search). `RouteIsTree`, `UnroutableIsReal`, `SettledAtCheapest`, `CleanSlate`, `SearchEnds`. |
| `router` | `MCRouter` | Two nets and a complete one on 128 devices, both algorithms, searches included: the loop implements `PathFinder` (`Negotiates`) and returns (`Terminates`), a routed design is legal (`RoutedIsLegal`) and one given up as congested really does not fit (`CongestedIsReal`). |
| `router_partial_legal` | `MCRouter` | violation, section 6 |
| `placer` | `MCPlacer` | Designs with carry chains, LUT6 pairs, single and constrained slices on devices of one and two columns, two and four slices per tile, some with constraints that cannot be met; any exchange, kept or undone, in any order. `BookkeepingAgrees` (slots, counters, chain table), `StaysLegal` (refinement of `Placement`), `CostIsCurrent` (boxes, cost, delays), `FindEnds`. |
| `sta` | `MCSTA` | First the routing resource graph of devices from 1x3 and 3x1 to 2x2 tiles (`NodesAreExactlyWires`); then three tiles in a row, with or without a memory that spans two rows, from the routed design to the report: `DelayFollowsRoute`, `PathsAreLongest`, `NoRegisterMissed`, `ReportEnds`. |
| `timing_router` | `MCTimingRouter` | Three nets over three wires, timing driven, with route trees and timing engine: `TreeDelayIsElmore`, `OccupancyIsUse`, `SlackIsSafe`, `TDRoutedIsLegal`. |
| `bitgen` | `MCBitgen` | Twelve designs on four devices of up to 2x3 tiles: a device that reads the stream word by word stays in step and ends with the design (`StreamIsDesign`), `BitsStayInPlace`. |
| `packer` | `MCPacker` | Two rule libraries on designs of tables, registers, carry chains and pads, from flat netlist to slices: `MatchesAreEmbeddings`, `GraphFollows`, `NothingDangles`, `PackedIsDesign`, `ChainsFollowCarry`, `PackingEnds`. |
| `front_end` | `MCFrontEnd` | Ten Verilog designs of two levels and four mapped EDIF designs, tables of 2 and 4 inputs, through the files between the programs: `ImportConnects`, `OnlyClashesStop`, `MappedIsEquivalent`, `BestIsShallowest`, `ReadyToPack`. |
| `front_end_inverters` | `MCFrontEnd` | violation, section 6 |
| `netlist_finer` | `MCNLFiner` | Two slices, a pad and a rail in 650 configurations, read forwards and backwards: `RefinedIsConfigured`. |

Bounds, and why they are enough:

- `MaxIters` (30 in the code) is 4 to 6. The accounting needs two iterations to go
  wrong (a net ripped up and committed again); congestion needs the factor to grow
  past the difference of two detours, which four to six doublings do for the wires
  of these devices. `CongestedIsReal` is a statement about these costs: with a dearer
  detour more iterations would be needed. For the safety properties of `PathFinder`
  the theorems remove the bound.
- `Huge` is the code's `HUGE_FLOAT`; it only has to be above every cost that arises.
- `FirstPresFac` and `InitPresFac` are 1 half, `PresFacMult` is 2 and `HistFac` 1: the
  program's defaults 0.5, 0.5, 2 and 1 (`RTApp.h` 33-35).
- Two sinks per net are what the list iteration distinguishes: trunk, branch, end;
  the second search meets the marks of the first. What a third sink adds, a branch
  that leaves a branch, only `timing_router` has.
- The optional switches of the devices generate all subsets, so that searches meet
  joins at the source, inside the trunk, at a sink's predecessor, dead ends and
  unreachable sinks.
- `minRlim` bounds the placer's range limit from below: 1 is the code's own limit,
  and designs whose question is the boxes take the maximum. A tile has the two
  slices of `plc_utils.cpp:11` or the four that a device description can ask for;
  three tiles in a column are what a chain over a tile boundary with a free tile
  above or below needs. The delay table is smaller than the device, so that
  clamping at its edge happens.
- The grids of the routing resource graph are the smallest in which a column has
  a left, a right, both or no neighbour and the pool of cells is used again.
- `lutSize` is 2 and 4; `maxCuts` is 2, with eviction of cuts, and 63 (the default),
  without.
- In the designs of `MCPacker` tables that rules rewire are expressions, for which
  `exchange_expr` is written; a hexadecimal one has one input, and no rule touches its
  pins. `use` is applied to connected pins. Section 7 says what the code does else.
- Rules of the packer, templates and configurations of the finer and the tile
  library of the bit stream generator are inventions in the form of the real ones,
  which are not in the repository. `Unusual` bounds the fields of a slice's
  configuration that differ from the usual at once to three.
- Symmetry sets are not used: nets, tiles and slots differ by position.

`CHECK_DEADLOCK` is off in `MCSTA` and `MCFrontEnd`, whose programs simply end;
elsewhere an action (`Returned`, `Stopped`, `Refined`, ...) stands for the program
having come to an end, and no other state is final.

Every property of a passing run has a mutant in `PROJECT.json`: a changed
definition, like the code with a plausible slip, under which TLC finds the
property violated. The definitions named as mutants in the modules serve only
that purpose.

## 4. Fairness

The programs have one thread and call nothing that blocks, so the thread always
takes its next step: weak fairness of `Next` in `PathFinder`, `OneNet`, `Router` and
`Placer`, of `WriteReport` in `STA` (the steps before it are bounded and checked to
end), and of `Next` in `Clusters`, where `FairSpec` states it as "not for ever enabled
without a step" by the condition under which a step exists. That is enough for
`Terminates`, `SearchEnds`, `ReportEnds` and `PackingEnds`: no choice in these modules
can be repeated for ever.

In the placer weak fairness says a little more. A drawn position that is refused
without being popped leaves the state as it is; weak fairness says that such a draw
is not repeated for ever while another step is possible, that is, `rand()` does not
return the same refused position for ever. `FindEnds` is about one call of `find_to`
and about the objects for which the rules leave no position both refused and
available (`PopsWhatItRefuses`): chains; pairs, if no slice is constrained; single
slices, if besides the design has not both chains and pairs. For the others `find_to`
may be left with nothing but positions that are refused and never popped, and does
not return (section 7). The annealing as a whole is not claimed to end: it
does by the temperature, which the model leaves open.

## 5. What is proved

The theorems hold for every device, netlist and set of options that the named
assumptions on the constants admit; TLC evaluates those assumptions on every run.
Eight modules hold them.

| theorem | module | says |
|---|---|---|
| `TypeCorrect`, `Inductive` | `PathFinder_proofs` | `TypeOK` and `IInv` are invariants of the negotiation |
| `OccupancyAccounted`, `PresentCostCurrent`, `SuccessLegal`, `HistoryEarned` | `PathFinder_proofs` | the four properties of `negotiation` |
| `SlateIsClean` | `OneNet_proofs` | `CleanSlate` |
| `RouteTree` | `OneNet_proofs` | `RouteIsTree`: the list of a routed net is a tree along switches with all its sinks |
| `Unroutable` | `OneNet_proofs` | `UnroutableIsReal`: a search fails only where the graph has no way |
| `Cheapest` | `OneNet_proofs` | `SettledAtCheapest`: a node is settled at the cost of a cheapest path |
| `LoopInvariance` | `Router_proofs` | `LoopInv`, the invariant of the loop with its searches |
| `RouterNegotiates` | `Router_proofs` | `Negotiates`: the loop implements `PathFinder` |
| `RoutedLegal` | `Router_proofs` | `RoutedIsLegal`: what is reported as routed is routed |
| `TDInvariance` | `TimingRouter_proofs` | `TDInv`, the invariant of the timing driven loop with its searches and trees |
| `OccupancyCounts` | `TimingRouter_proofs` | `OccupancyIsUse`: occupancy, counted per branch and taken back per list, is the number of users |
| `SlackSafe` | `TimingRouter_proofs` | `SlackIsSafe`: no sink is taken for less critical than it is |
| `DelaysAreElmore` | `TimingRouter_proofs` | `TreeDelayIsElmore`: delays corrected branch by branch are the Elmore delays of the finished route |
| `TDRoutedLegal` | `TimingRouter_proofs` | `TDRoutedIsLegal`: what the timing driven router reports as routed is routed |
| `BookkeepingIsInvariant` | `Placer_proofs` | `BookkeepingAgrees`: slots, counters and the table of chain positions are what the positions make them |
| `PlacerKeepsBook` | `Placer_proofs` | the same of the placer with its boxes and costs |
| `ObjectsMirror` | `Placer_proofs` | chains, pairs and single objects are what the nets ask for |
| `FloorplanStaysLegal` | `Placer_proofs` | `StaysLegal`: the floorplan implements `Placement` |
| `PlacerStaysLegal` | `Placer_proofs` | the same of the placer with its boxes and costs |
| `CostFollows` | `PlacerCost_proofs` | `CostIsCurrent`, as long as no exchange moves a net in two of its pairs |
| `SitesCostFollows` | `PlacerCost_proofs` | the same, unconditionally, for designs of single slices |
| `UpdateIsExact` | `PlacerCost_proofs` | the box that `update_bounding_box` makes, case by case, is the box computed anew |

`Induction` and `NetSearch_proofs` have the lemmas they rest on.

### Assumptions and hypotheses

The assumptions on constants are those of the modules: finitely many nodes and
nets, listed without repetition; `NULL` is no node; `Huge` is positive; the device
has its parameters in the types of the code, a base cost is a natural; capacities
are positive; parameters are natural. For the placer, `DeviceAssumption` says that
the tiles with a `SLICE` lie below the top row, where `plc_floorplan.cpp:295` puts
the upper IOBs, and that chain `x` of a tile takes the `x`-th group of slices, which
`plc_floorplan.cpp:550` supposes when it makes a slot of the index of a chain;
`NetsAssumption` is what packer and wires give the nets (`TidyNets`): an instance is
listed once and is on one carry net at most through its `COUT` pin and one through
its `CIN` pin; a net has one `COUT`, `CIN`, `F5` or `F5IN` pin; the two slices of an
`F5` net are those of no other, are on no carry net, have no constraint, and the
tiles have two slices. The code checks none of it. `FieldsAssumption` says that a
design has no other fields than the ones `Inference` names. For the cost,
`PhyAssumption` says that the physical places of tiles are on the device, at most one
beyond its last row and column, where `plc_boundingbox.cpp:38-41` starts its extremes;
`TableAssumption` that the table of delays is a matrix, as `load_table` of
`plc_load_delay_lib.cpp` makes it; `UnsetAssumption` that no delay or box is taken for
one that is not set: for boxes the code tests a negative cost. What is not an assumption but a hypothesis of
a theorem is a predicate on the first state:

- `Partial = {}` (`PathFinder`, all but `TypeCorrect`) and `Posed` (`Router`): no net
  is partially routed. For those nets the claims are false, as
  `router_partial_legal` shows.
- `WellPosed(n)`: the net is to be routed, its sinks are distinct and not its source,
  and no wire leaves a sink. In the code the sinks of a net are the pins of
  different instances, whose nodes are ends of the routing graph. If it has a fixed
  path, that is a route and the search is directed; breadth first it may be
  returned with a sink missing (section 7). `Posed` asks it of every net that is
  routed.
- `CostsBelow(M)`: no node costs more than `M`, and `M` times the number of nodes and
  one is below `Huge`. The code compares a path cost with `HUGE_FLOAT` to find out
  whether a node has been reached; a node that costs as much is never reached, and
  the theorems about verdict and cost would be false.
- `CameComplete`: a net that is not routed came with pips that form a route to its
  sinks, or with neither pips nor sinks; those nets together fit the device.

- `[]OnePairEach(swaps)` (`CostFollows`): no net has instances in two pairs of an
  exchange. Where one has, `CostIsCurrent` may be false (section 7). All states of
  `MCPlacer` satisfy it, and those of a chain of two with nets to a constrained
  slice, on two columns of three tiles, which TLC checked besides (331,779 states).
  `SitesCostFollows` has no such hypothesis but `SingleSites`:
  every object is a single slice; with it every exchange has one pair.
- `Posed` (`Placer_proofs`, the two theorems on `StaysLegal`): `CarriesBegin` says that no
  carry nets form a loop. `find_chains` starts chains at instances without an incoming
  edge, so it never stores a loop, and its instances become single objects that are
  placed apart; TLC finds `StaysLegal` violated by two slices that feed each other.
  `NoBystander` says that in a device with more than two slices per tile there are no
  single slices or no constraints, because of what `is_acceptable` does there
  (section 7).

TLC evaluated these hypotheses and the inductive invariants below on the instances
of the runs: those of the placer hold of every design of `MCPlacer`, those of the
router hold of every case of `MCRouter` without a partially routed net,
and `Inv`, `TreeInv`, `LoopInv` and `LegalInv` hold in all reachable states there and
of `MCOneNet`.

### The negotiation

`IInv` adds to the properties of `PathFinder` what makes them inductive:

- `SearchedHasNoPath`: between rip-up and commit the net has no path. Without it
  a commit could overwrite a path whose nodes were never given back.
- `RoomIsCheap`: a node below its capacity has the plain present cost. It is what
  makes `PresCurrent` survive `update_nodes_cost`, which refreshes only nodes at
  or above capacity: the others are below it, and their cost does not depend on
  the factor. `PresCurrent` alone is too weak in the first iteration, where it
  excepts nodes that `initialize` occupied.
- `VerdictStands`: once success is reported every net is still feasible. Then
  legality follows from feasibility, which looks only at counters, and from
  `OccAccounting`, which says that the counters are right.

The proof has one step per action; rip-up and commit rest on `UserLeaves`,
`UserJoins` and `UsersStay` (one net more or less among the users of a node) and
`PresFollows` (`path_update_one_cost` keeps costs and counters in step).

### The search of one net

The operators of the search are recursive functions (`BranchTo` goes back along
predecessors, `ReachedBy` grows a set, `Visited` skips elements, `PathCosts` is the
reference for costs). `Induction` makes them accessible: the order of strict
inclusion on the subsets of a finite set is well founded, which gives a least
natural number and from it induction along an interval (`BoundedInduction`) and
over a finite set (`SetInduction`), both stated about a set instead of a predicate;
`IterateExists` says that the function such a definition chooses exists.
`NetSearch_proofs` begins with what the operators compute: a branch traced back along
acyclic predecessors is a chain without repetitions that starts at a node without
predecessor (`BranchIsChain`); `ReachedBy` is the least closed set (`ReachedLeast`);
`IsRoute`, what a list of trunk and branches looks like, is kept when a branch
is appended (`AppendKeepsRoute`) and means that every node is visited once
(`RouteCounted`) and that the pips are a tree with these nodes (`RoutePips`,
`RouteReached`).

The invariants of the search, which any caller of `NetSearch` can use:

- `SearchInv(n)`: types; `Slate`, that `mdf_nodes_` is the set of nodes whose cost is
  not `Huge`, that path marks are those of the list, and both are gone when the
  search rests; `Flags`, that the target flags count a set of positions of the
  sink list that is large enough for the sinks to come. Breadth first the sinks are
  not reached in order, so this set and not a range of positions is what every
  step keeps.
- `TreeInv(n)`: `RouteSoFar`, that the list is a route with exactly the sinks whose
  flag is down; `Forest`, that the predecessors of reached nodes are acyclic, lead
  along switches and get no dearer, and that a node without one is the source or
  on the route. A node may change its predecessor: that keeps them acyclic because
  it happens only for a strictly cheaper entry (`CheaperKeepsAcyclic`).
- `SpreadInv`: every neighbour of a reached node has been reached at no more than
  its cost and the step, or has such an entry in the heap; costs are below `M` times
  the number of reached nodes. With the heap empty the reached nodes are closed.
- `SettledInv`: without the distance term and clock offers, the cost of a reached node
  is the cost of a path of fewer switches than nodes have been reached, that of an
  entry in the heap one of at most as many, and no entry is cheaper than a
  reached node: Dijkstra's argument for a heap that may hold stale entries and a
  search that ends at a flag.

### The loop

`LoopInv` puts the search into the loop: `Posed`; `Given`, `Counters` for the types;
`Phases`, that a search in progress has its invariants and before a net everything
rests; `Lists`, that the list of every net but the one searched for is empty or a
route with all its sinks, and not empty once the iteration has passed the net.
The refinement `RouterNegotiates` goes action by action (`StepNegotiates`):
`BeginNet` is `RipUp`, `ReachSink` and the rest of the search are stuttering because
the path of the net in search maps to the empty set, the end of the search is
`Commit` with the nodes of the list. That the counters agree is where `RouteCounted`
is needed: the traversal that skips the element after a sink counts each
node of a route exactly once. `RoutedLegal` takes the invariant of `PathFinder`
back through the mapping (`LegalInv` contains `PFP!IInv`, that is, `IInv` of the
instance) and adds `Saved`, what the pips of routed nets are; the lemmas of
`PathFinder_proofs` are cited for the instance, not repeated.

### The floorplan

`BookkeepingAgrees` is about the positions in force (`past_position` of the code) and is
not inductive: what an exchange does to the table depends on where the objects
are, and what keeping or undoing it does depends on what is in flight. `FInv` is
inductive:

- `Agree` and `Counted`: slots and positions are inverse to each other, counters are
  the slots taken, per tile.
- `Ready`: the objects before the next one are placed, those from it on are not, and
  a pair has both slots of one tile. Without the last, an exchange of a pair could
  leave one of its members on a slot it has given to another.
- `Annealed`: once all are placed, the table is what the slots make it (`TableFits`).
  The code builds it by a scan of the columns that counts free cells from the top and
  later repeats the scan for the columns an exchange has touched. The proof puts a set in place of the
  scan: a row is in the table when a chain of that length finds room below it
  (`IsRoom`, `HasRoom`), which is a statement about slots. The slots of a column
  that no swap touches stay, and with them its rows; so the columns `Affected` by an
  exchange are all that have to be scanned anew (`KeepTable`).
- `InAir`: in flight, every swapped instance is still on the slot of its past
  position; the new positions are distinct and each is free or the past position of
  another swapped instance (`Flying`). So keeping an exchange, which first clears the
  old slots and then fills the new ones, loses no instance, whatever the order of
  the swaps; undoing it only takes back positions.

TLC checked `FInv` in all reachable states of `MCPlacer` before the proof. The
annealing with its boxes and costs takes a step of the floorplan or leaves it alone,
which gives `PlacerKeepsBook`.

### The floorplan as a placement

`StaysLegal` says that the floorplan implements `Placement`, whose state is the design
and where instances are, whose steps put all members of a group on free positions or
exchange positions, and whose positions are legal after every step. It speaks of
nets; the floorplan speaks of swap objects. So the proof has two halves.

What inference makes of the nets is proved from the definitions of `Inference`, for any
number of instances. `TrailsMeet`: two ways along carry nets from starts that share an
instance are the same way. `ChainsCover`: without a loop every end of a carry net is on
the way from a start, by the descending argument that among instances which are on none
one is fed by no other. `ObjectsAre` says which objects there are and in which order,
`ObjectsProper` that they are disjoint, without constrained instances and as
large as their type says, and `ObjectsMirror` that nothing the nets ask for is missing.

What the floorplan does with objects is proved with the invariant `LInv`: `FInv` and

- `Lawful` of the positions in force and, before the verdict, of those in flight: the
  members of a placed chain follow each other (`Shaped`), constrained instances are where
  their constraint wants them (`FixedStay`), and an instance of no object and no
  constraint is nowhere (`Strangers`). That a pair has one tile is in `FInv` already.
- `Reflects`, what remains of the first state: the objects are those of the nets.

A chain is laid out by `InitRun`, up a column from its bottom row, or exchanged from a row
of the table. That each of its cells follows the one before is `Risen`, kept row
by row by the scan of the column; `InitRunRises` has it of the whole run,
`ChainSpares` of the exchange. An exchange is a
step of `Placement` because the instances it swaps come back to slots they leave
(`InAir`), because a chain or pair moves as a whole, and because what gives way
is never a part of a chain nor constrained: the lemmas on `Spares`, one for each
type of object, and the reason for `NoBystander`. `FeasibleIs` shows that the
floorplan refuses exactly the designs that are not `Feasible` in `Placement`. TLC checked `Reflects` and the parts of `LInv` that
`FInv` does not have in all reachable states of `MCPlacer`.

### The cost of a placement

`UpdateIsExact` is about `update_bounding_box` of `plc_boundingbox.cpp`: for a net of
any number of instances, one of which moves anywhere on the device, the box made
from the old box, its counts per side and the two places is the one that a pass
over all instances makes. `AxisFits` says what an axis of a box must be, for
extremes and counts; at most one axis has it (`FitsUnique`), the pass has it
(`ComputedFits`, by induction over the instances) and the update keeps it
(`MovedFits`), unless the last instance leaves a side: then the code computes anew.

`CostIsCurrent` is not inductive, since what a refused exchange restores and a kept one
adds lies in the saved boxes and the delays that the exchange has set. `CInv` says what
these are, besides `FInv`:

- `Boxed`: the boxes are those of the positions `pos`, also of those in flight; `Summed`
  and `Timed`: the cost and the delays are those of the past positions. The cost thus
  lags behind the boxes while an exchange is being decided.
- `SavedAre`: a saved box is that of the past positions, and a net without one has the
  same box before and after. Hence a refused exchange has all boxes back.
- `TimesAre`: a delay that is set is that of the new positions, and a connection without
  one has the same before and after. `MovedVisited` is the reason: the visits for the two
  instances of a pair, each of which leaves out what its partner drives, miss no connection
  of which an end moves.
- `Wired`, `Scaled`: what inference and device give: the nets that are not ignored have
  placed instances, none twice (`ConnectedFit`). `FixedSit`: what a constraint holds is placed.

`NetExchanged` is the step of a net: an exchange of which it sees one pair moves one of
its instances, and the update is exact (`BoxMoves`), or two that change places, and the
box that `compute_delta_bb_cost` leaves alone is right because the extremes and counts do
not depend on who lies where (`BoxSwaps`). The cost is a sum by recursion over the nets;
`TotalAdds`, by induction, gives that the sum of the differences is the difference
of the sums (`DeltaAdds`).

### The timing driven loop

Its hypotheses are `Posed` (as above, for every net that is routed), `Bare` (no net
comes with pips, which the timing driven router would read as routed), `Electric`
(resistances, capacitances and delays of the device are naturals) and `Timable`, which
is about the netlist before routing: its delays are integers (`Sane`), the timing
graph has no loop (`NoLoop`: `topo_visit` never looks for one, and given one returns
an order that is none), and some register takes time to give its output (`Clocked`;
else every path may take none, and `Router::get_pin_criticality` divides by the
longest). `SlackSafe` has a further one, `OneSource`: a pin has one source to be
driven by, for the slack of a pin is that of one of its edges. All are
satisfied by the designs of `timing_router`, where TLC evaluated `TDInv` and the
parts of `EngInv`, the latter in the states it reached in five minutes.

`TDInv` has for the search what the other loop has, in the form that this code
keeps it, which is weaker: `TDMarks` (the modified nodes are those with a cost; only
they, and not the list, decide what a search forgets), `TDForest` (a node reached
leads back, by predecessors that get no dearer, to a node of the tree) and `Aims`
(a target flag is up at exactly the sinks of the present net still to come).
Here a search may leave the tree at a node and come back to the same net: the
list of a net is a walk that joins at every branch, `TDLists`, but not one without
repetitions. So occupancy is not the number of nets; `Counted` says what it is,
the number of places at which a node is new in a list (`UsesOf`).
`update_trace_back` raises it branch by branch, and `path_update_one_cost` lowers it
for a whole list at once, by a traversal that steps over the element after a sink:
`PlacesAppended` shows that the branches add up to the traversal, `UsesMove` that
one net's change is the change of the sum.

`OccupancyCounts` follows where no net takes up the node twice. For
`TDRoutedLegal` nothing has to be assumed about that: where a design is feasible and
a node has room for one (`Room`, the capacity every `RTNode` is made with,
`RTNode.h:37`) a node taken up twice would be over its capacity, so the walks are
routes and their pips trees. The loop itself never looks for that.

`TDTree` keeps the route tree in step with the list: its nodes are those of the
list, a parent comes before its children and a switch joins them, and a node at
which the search may start again is no sink. The loads and delays that
`UpdateGrows` adds are recursive functions; `CourseOfValues` of `Induction` makes
those that look forward or back by an index usable.

`EngInv` is the engine's half. The router needs of the engine that slacks are numbers
and the longest path takes some time (`Timed`); the engine needs of the router that
delays are numbers. `TDInvariance` proves both together. `Laid`: once
drawn, the graph is that of the netlist, and only the delays of edges along nets
change. `Visits` is the depth-first sort in the middle: stack and order have
no node in common, the stack is a path, and what is in the order follows all it leads
to. So the order reached in the end is one (`Sorts`), and an order gives every
node a level in each direction (`SortedLevels`).

`compute_tarr` and `compute_treq` never reset what an earlier iteration left:
arrivals only grow, and the required time of a node that leads on only falls. So they are not the
times of the present delays, and `Pushed` and `Pulled` say what they are:
an arrival is at least that of every predecessor and the delay between, a required time at
most that of every successor less the delay, and the maximal delay is at least every
arrival. Pushing and pulling establish this whatever was there, because each node comes
after all it depends on (`PushedMore`, `PulledMore`). By induction over levels the
arrival is then at least the longest path to a node (`ToArrives`; `ToExists` gives that
there is one), and the maximal delay less the required time at least the longest path from
it (`FromRequired`, `FromExists`). `Certified` concludes: a slack that the router uses after the
first iteration is at most the true one, that is, no sink is taken for less
critical than it is.

`DelaysAreElmore` is about the tree. The reference, `ElmoreDelay`, is a function of the
pips alone: a load is the capacity of a node and the loads of the nodes that an
unbuffered switch takes its signal to, a delay that of the node before, the
switch and the half of its own. `UpdateRouteTree` never computes it so. It hangs a branch
into the tree, adds the load of the branch to the nodes above up to the nearest
buffer, and computes delays anew only from there on. The invariant `DelayInv` says of a
tree that is `Exact` that each node is once in it (`Shaped`), its load is its own and
that of the children it does not shield (`Weighed`), and its delay is that of its parent
and the way from there (`Delayed`): equations between neighbours, which have one
solution on a tree (`ElmoreOfTree`; loads by induction from the last node to the first,
delays from the first to the last). `BranchIsExact` has three parts. A branch by itself
is weighed; hung in, the tree would be weighed if the node it hangs from carried the load of
the branch more, and adding it all along the way up, to the
buffer, makes it so (`WeighedBut`); delays are then right but for the nodes below the one
where this ended (`DelayedBut`), which are just those done anew (`RedelayedIs`). A list
that is a route without repetition was one before its last branch (`RouteBefore`), which
gives the induction over branches; where a net rejoins itself the property claims
nothing. `TreeFits` ties the tree to the list during a search, `DelaysFit` the delays handed
over to the list afterwards. `PinsApart` is a hypothesis: every sink of a net has a pin of its
own, for two sinks of one pin would overwrite each other's delay. The designs
of `MCTimingRouter` satisfy it.

### Only model-checked

- Liveness under fairness (`Terminates`, `SearchEnds`, `FindEnds`, `ReportEnds`,
  `PackingEnds`), which is beyond the prover, as is `ENABLED`.
- `CongestedIsReal`: it is true of these costs and this number of iterations only.
- Everything that reaches a `RECURSIVE` operator (`RDTree`, `STA`, `Matcher`, `Packer`,
  `Clusters`, `VerilogImport`, `TechMap`, `FrontEnd`), since the prover has no
  arithmetic in such a module; and `Bitgen`, `NLFiner`, whose properties compare the
  result of a pass with the input and have no invariant worth the name.

## 6. Disagreements found

Two runs end in a violation, each of a statement the code makes about itself.

- `router_partial_legal`: `load_info_from_fixed_path` (`RTFactory.cpp:189`) takes the
  fixed path of a partially routed net off the occupancy in every iteration, though
  it was counted once: from the second iteration on the counters are too low and an
  overused design is reported as routed.
- `front_end_inverters`: a cut with one leaf becomes a LUT2 under the message "INV to
  LUT2" (`mapping.cpp` 297-298), but not only inverters have one leaf. With the table
  of a buffer the LUT2 is constantly 0.

## 7. Remarks on the code

Met while modelling; no run is about them.

Router. Breadth first, a partially routed net can be returned as routed with a
sink missing: `mark_sinks` flags also the sinks the fixed path reaches, and the
search stops at any flagged node (`RouteBreadthFirst.cpp:125`). Target flags are not
taken down after a failed timing driven search. `Rupstream` of a route tree leaves
the resistance of one node out (`rtree.cpp` 98-124). A hex wire cut to length zero
has no direction and takes the index of a clock wire, the cheapest; a long
horizontal wire is given the length `1/nx` of the rows though it spans columns.
`INTRINSTIC_DELAY` cannot be chosen on the command line and would give classes absent
from the middle tile a negative cost. `reset_base_cost_infos` is never called. A
device of fewer than two columns has no tile in the middle. With `-t -s` both
loops may meet costs normalised for the other.

Placer. A constraint on a member of a chain or pair is accepted, since the assertion
reads a property that is written later (`plc_floorplan.cpp:1396`); the check of a
constraint's place is one row and column too wide (1366). `init_place_lut6` draws for
ever when no tile is empty. A net of which one exchange moves two
instances in different pairs gets a wrong box, which may stay wrong: two members of a
chain or pair, or a member and a slice that gives way to another member. If one comes
from each side the box is kept (1141), as is right for the two of one pair, else it is
updated for the first alone; the comment at `plc_boundingbox.cpp:188-189` speaks of such
nets, but only a flat box is computed anew there. On two columns of three tiles with two
slices, a chain of two and a net of its first member and a single slice are enough
for TLC to find the box wrong. Popped positions never return
(`plc_device.h:59`), and when all objects are given up, `rand() % 0` is computed
(921). `num_terminals` is static (`plc_boundingbox.cpp:17`). `compute_tcost` analyses
timing before it sets the delays; `compute_delta_tcost` counts a connection twice when
both its ends move. Of the carry nets only the first `CIN` and `COUT` pin count, and a
cycle of them is never stored as a chain. The generator of constants is compiled
out; enabled, it would set `GYMUX` twice and never `YUSED`.
A search for a position need not end. `satisfy_cst_rules_for_lut6` refuses a tile with a
constrained slice without popping it (456), `satisfy_cst_rules_for_site` the tile of a pair
if a chain or a constrained slice is beside the single one (381-386), before it looks at
the range, and a tile that chains and constrained slices fill together (401-421). No
constraint is needed: one column of five tiles with two slices each, a pair in row 1, a
chain in the first slots of rows 5 and 4, one in the second slots of rows 4 and 3, a
single slice beside the first in row 5 and range limit 1. Row 5 itself and rows 2 and 3
are popped for the range, row 4 because chains fill it; row 1 stays, and is refused for
ever. TLC confirms it from this state; the three rows of `MCPlacer` are too few
for two chains and a pair, whose states on five rows are too many.

A single slice that is moved to a tile with a chain takes the first slot without a
member of one (766-777), also that of a constrained slice, which goes to the single
slice's place. Two slots with a chain and a constrained slice leave none free, so no
tile of an FDP device is in the way; with four slots and the design
`<<c1, c2, f1, s1>>` on `TwoColumns`, `c1` and `c2` a chain and `f1` constrained to slot 2
of a tile, TLC finds `StaysLegal` violated by it. `MCPlacer` has no such design.

Routing graph and timing. `MemPool` clears the wrong number of bytes. `find_switch`
takes the first switch. Wires driven by two switches have no defined delay.
`find_logic_pin_node` and `find_grm_net_node` walk past the top row, a null pointer,
and stop at a tile without a routing matrix. Paths across clock domains are in no
report; input-to-register paths count the clock network; a register with an
unconnected clock; a second REBUILD analysis reuses stale `TNODE` pointers. The
topological sort accepts a combinational loop. The interconnect library never
loads `cout_on`, and `load_table` takes its size from the axes read so far.

Packer. Domains of the matcher are untyped, against `CSP_Struct.h` 33-35. A carry chain
of multiplexers does not check whether the cells are used; a fork at a G cell leaves
`COUT` driving another slice's `BX`. `exchange_expr` and `sub_expr`
(`PKUtils.cpp:77-98`) replace characters of the `INIT` of a table, also of a
hexadecimal one (`Instruction.cpp:889`, 1217): a debug build stops at the `ASSERTSD`,
another exchanges the digits that number the two pins and leaves all others, so the
pins change places and the function does not follow. `Renamed` does the same; TLC finds
`PackedIsDesign` violated as soon as a table that rules rewire is hexadecimal.
`IUsePin` follows the net of the pin it marks without looking whether there is one
(`Instruction.cpp:1016`): a rule that keeps a pin of a fresh slice from use, for which
the instruction seems made, crashes.
`ICreateInst` in the rule of a virtual cell would crash. Clustering by gain and
`remove_residues` are dead code. New nets start with `num_pure_sinks` at -1.
`map_finish` crashes on an unconnected clock output.

Front end. Ascending ranges and replication are ignored; the x/z mask is taken for
a width; an assignment between nets of two groups is dropped as "Redundant"
(`module.cpp:552`, against the comment at 513); modules without instances get no
nets; unconnected pins and ports crash `addBuf` and the mapper; `lutSize` 6 is accepted
and then asserted away; combinational loops leave nodes or fail an assertion.
Dissolving frees a net that `rel_net` still names.

Netlist files. Names are not checked to be unique; buses are never written;
`operator>>(ConnectDir)` reads with the names of pin directions; `Port::rename` gives
all pins of a vector one name; unset configurations are written as `#OFF`; an
EDIF rename of a bus of one bit; `cellRef` renames are looked up in the current
library; two internal libraries that use each other cannot be read again.

Netlist finer. `handle_WSGEN` runs after the sweep and leaves nets dangling, and looks
up a net that the sweep may have removed. `get_operation` returns the last word looked
at (`config.cpp` 181-210). An already refined netlist is refined again and asserts. Ports
swept from a block disconnect the pins outside with only a warning.

Bit stream. 48 rows of the frame order against 80; `HexToTable` writes sixteen entries
always; `reverse()` with group 0; an uninitialised `Site*` in `getRefSite`; overlapping
bits are not reported.

## 8. What is not modelled

- The viewer, reports, arguments, logging and the text formats themselves:
  display and conversion of text. `rapidxml` and other third-party code.
- The dead or debugging writers (BLIF, EDIF, OXML, Verilog out of the router), the
  XDL path of the packer, `nlcheck`, the special nets of the bit stream
  generator, which only the XDL reader fills and nothing calls any more.
- The rule library of the packer and the libraries of the finer are not in the
  repository.
- In the placer: building the device from its description, bonding of IOBs, the
  pins of GCLKIOB and VCC, the sum of the timing cost, the generator of constants.
- In the router: base costs of the kind `INTRINSTIC_DELAY`, which no option selects.
- Floating point: costs and delays are integers. A rounding error could make the
  running cost of the placer off by a little; the model says that there is no other
  source of drift.

## 9. Plan

1. `CongestedIsReal`: a bound on iterations and costs under which it holds in general.
2. The cost of placements in which one exchange moves a net in two of its pairs: what the
   code then computes, and when it agrees with `CostIsCurrent` again.
