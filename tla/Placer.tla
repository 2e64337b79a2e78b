--------------------------------- MODULE Placer ---------------------------------
(***************************************************************************)
(* The annealing with its cost: the floorplan's exchanges together with    *)
(* the bounding boxes of the nets, which an exchange updates for one       *)
(* instance per net, the running cost, to which a kept exchange adds the   *)
(* difference, and in mode TIMING_DRIVEN the delays of the connections.    *)
(* The timing cost itself, made of the delays and the analyser's slacks,   *)
(* only weighs in the acceptance, which is free here.                      *)
(***************************************************************************)
EXTENDS Floorplan

(* The bounding box of a net: computed from the positions of its instances, *)
(* or updated for the move of one of them.  A box has one record per axis: *)
(* the two extremes and how many instances lie on each.                    *)
Axis == [min : Int, max : Int, onMin : Int, onMax : Int]

(* The box before any instance is seen, on a device of n rows or columns. *)
NoExtent(n) == [min |-> n + 1, max |-> -1, onMin |-> 0, onMax |-> 0]

(* One more instance at coordinate v. *)
Extended(a, v) ==
    [min   |-> IF v < a.min THEN v ELSE a.min,
     onMin |-> IF v < a.min THEN 1 ELSE IF v = a.min THEN a.onMin + 1 ELSE a.onMin,
     max   |-> IF v > a.max THEN v ELSE a.max,
     onMax |-> IF v > a.max THEN 1 ELSE IF v = a.max THEN a.onMax + 1 ELSE a.onMax]

(* compute_bounding_box for one axis: vs are the coordinates. *)
ComputedAxis(n, vs) ==
    LET seen[k \in 0..Len(vs)] ==
            IF k = 0 THEN NoExtent(n) ELSE Extended(seen[k - 1], vs[k])
    IN  seen[Len(vs)]

ComputedBox(scale, ps) ==
    [x |-> ComputedAxis(scale.x, [k \in DOMAIN ps |-> ps[k].x]),
     y |-> ComputedAxis(scale.y, [k \in DOMAIN ps |-> ps[k].y])]

(* The last instance leaves an extreme inwards: update_bounding_box has to *)
(* compute the box anew.                                                   *)
Forced(a, old, new) ==
    \/ new < old /\ old = a.max /\ a.onMax = 1
    \/ new > old /\ old = a.min /\ a.onMin = 1

(* Mutant: an extreme an instance leaves keeps its count. *)
MovedAxisUncounted(a, old, new) ==
    CASE new < old -> [a EXCEPT !.min = IF new < a.min THEN new ELSE @,
                                !.onMin = IF new < a.min THEN 1
                                          ELSE IF new = a.min THEN @ + 1 ELSE @]
      [] new > old -> [a EXCEPT !.max = IF new > a.max THEN new ELSE @,
                                !.onMax = IF new > a.max THEN 1
                                          ELSE IF new = a.max THEN @ + 1 ELSE @]
      [] OTHER -> a

(* The incremental update of one axis for a move from old to new. *)
MovedAxis(a, old, new) ==
    CASE new < old ->
           [min   |-> IF new < a.min THEN new ELSE a.min,
            onMin |-> IF new < a.min THEN 1
                      ELSE IF new = a.min THEN a.onMin + 1 ELSE a.onMin,
            max   |-> a.max,
            onMax |-> IF old = a.max THEN a.onMax - 1 ELSE a.onMax]
      [] new > old ->
           [min   |-> a.min,
            onMin |-> IF old = a.min THEN a.onMin - 1 ELSE a.onMin,
            max   |-> IF new > a.max THEN new ELSE a.max,
            onMax |-> IF new > a.max THEN 1
                      ELSE IF new = a.max THEN a.onMax + 1 ELSE a.onMax]
      [] OTHER -> a

(* update_bounding_box of box b for a move from old to new; all is the box *)
(* computed anew.  A flat box is always computed anew.                     *)
UpdatedBox(b, old, new, all) ==
    IF \/ Forced(b.x, old.x, new.x)
       \/ Forced(b.y, old.y, new.y)
       \/ b.x.min = b.x.max
       \/ b.y.min = b.y.max
      THEN all
      ELSE [x |-> MovedAxis(b.x, old.x, new.x), y |-> MovedAxis(b.y, old.y, new.y)]

(* compute_bb_cost without its factor: num_terminals is static, so the     *)
(* factor of the first net is that of all nets.                            *)
BbCost(b) == (b.x.max - b.x.min + 1) + (b.y.max - b.y.min + 1)
-----------------------------------------------------------------------------
LyingOn(vs, v) == {k \in DOMAIN vs : vs[k] = v}

(* Reference: min, max and the counts of a sequence of coordinates. *)
AxisFits(a, vs) ==
    /\ \A k \in DOMAIN vs : vs[k] \in a.min..a.max
    /\ a.onMin = Cardinality(LyingOn(vs, a.min)) /\ a.onMin > 0
    /\ a.onMax = Cardinality(LyingOn(vs, a.max)) /\ a.onMax > 0
-----------------------------------------------------------------------------
(* Neither a box nor a delay is taken for one that is not set. *)
ASSUME UnsetAssumption == NULL \notin Int \cup [x : Axis, y : Axis]

ASSUME PhyAssumption ==
    \A n \in Netlists : \A t \in n.device.tiles :
        n.device.phyPos[t] \in [x : 0..(n.device.rows + 1), y : 0..(n.device.cols + 1)]

(* The table of delays is a matrix. *)
ASSUME TableAssumption ==
    \A n \in Netlists :
        LET table == n.device.delays
        IN  /\ table \in Seq(Seq(Int)) /\ table # <<>> /\ table[1] # <<>>
            /\ \A r \in DOMAIN table : Len(table[r]) = Len(table[1])

VARIABLES
    box,      \* the _bounding_box of each net that is not ignored
    saved,    \* its _pre_ fields, NULL where _pre_bb_cost is negative
    bbCost,   \* bb_cost of SAPlacer::try_place
    delay,    \* the property delay of each sink pin, 0 where it has none
    tempDelay \* temp_delay, NULL where the exchange in flight has not set it

costVars == <<box, saved, bbCost, delay, tempDelay>>

(* The nets that are not ignored. *)
Nets == DOMAIN nl.nets \ nl.ignored

Insts(n) == nl.connected[n]

On(n, i) == i \in ElemsOf(Insts(n))

(* The sink pins, as <<net, index>>, and the driver of a net. *)
Sinks == UNION {{n} \X {k \in DOMAIN nl.nets[n].pins : ~nl.nets[n].pins[k].source} : n \in Nets}

SinkInst(p) == nl.nets[p[1]].pins[p[2]].inst

SourceInst(p) ==
    LET pins == nl.nets[p[1]].pins
    IN  pins[Lowest({k \in DOMAIN pins : pins[k].source})].inst

TimingDriven == nl.mode = "TIMING_DRIVEN"

Scale == [x |-> Rows, y |-> Cols]

PhyOf(p) == PhyPos[p[1]]

(* compute_bounding_box of net n for the positions pl. *)
BoxOf(n, pl) ==
    ComputedBox(Scale, [k \in DOMAIN Insts(n) |-> PhyOf(pl[Insts(n)[k]])])

(* What the nets that have a cost cost together. *)
Total(cost) ==
    LET upTo[k \in 0..Len(nl.nets)] ==
            IF k = 0 THEN 0
            ELSE upTo[k - 1] + (IF k \in DOMAIN cost THEN cost[k] ELSE 0)
    IN  upTo[Len(nl.nets)]

(* recompute_cost: the sum of the costs of the boxes as they stand. *)
RecomputedCost(bs) == Total([n \in Nets |-> BbCost(bs[n])])
-----------------------------------------------------------------------------
(* find_affected_nets: the nets of the from and the to instances of the    *)
(* exchange ex; one that is saved is not entered again.                    *)
From(ex, n) == \E k \in DOMAIN ex : ex[k].from # NULL /\ On(n, ex[k].from)

To(ex, n) == \E k \in DOMAIN ex : ex[k].to # NULL /\ On(n, ex[k].to)

Touched(ex) == {n \in Nets : (From(ex, n) \/ To(ex, n)) /\ saved[n] = NULL}

(* The instance a net is entered for: the first one. *)
CauseInst(ex, n) ==
    IF From(ex, n)
      THEN ex[Lowest({k \in DOMAIN ex : ex[k].from # NULL /\ On(n, ex[k].from)})].from
      ELSE ex[Lowest({k \in DOMAIN ex : ex[k].to # NULL /\ On(n, ex[k].to)})].to

(* A net on both sides of the exchange keeps its box. *)
Skipped(ex, n) == From(ex, n) /\ To(ex, n)

(* compute_delta_bb_cost: the box of net n for the exchange ex that leads  *)
(* to the positions pl.                                                    *)
ExchangedBox(ex, n, pl) ==
    IF n \notin Touched(ex) \/ Skipped(ex, n) THEN box[n]
    ELSE LET i == CauseInst(ex, n)
         IN  UpdatedBox(box[n], PhyOf(past[i]), PhyOf(pl[i]), BoxOf(n, pl))

(* The delta_bb_cost of the exchange in flight. *)
Delta == Total([n \in {m \in Nets : saved[m] # NULL} |-> BbCost(box[n]) - BbCost(saved[n])])
-----------------------------------------------------------------------------
(* lookup_delay_from_table: a distance outside the table gets its edge. *)
TableDelay(dRow, dCol) ==
    LET table == nl.device.delays
    IN  table[Lowest({dRow + 1, Len(table)})][Lowest({dCol + 1, Len(table[1])})]

(* get_p2p_delay for the positions pl, by the rows and columns between. *)
P2PDelay(i, j, pl) == TableDelay(Abs(pl[i][1][1] - pl[j][1][1]), Abs(pl[i][1][2] - pl[j][1][2]))

Delays(S, pl) == [p \in Sinks |-> IF p \in S THEN P2PDelay(SourceInst(p), SinkInst(p), pl) ELSE NULL]

(* The sinks compute_delta_tcost visits for the exchange ex: those that     *)
(* target drives, and those on it which neither it nor its partner drives.  *)
VisitedFor(target, reference) ==
    {p \in Sinks : \/ SourceInst(p) = target
                   \/ SinkInst(p) = target /\ SourceInst(p) # reference}

(* Mutant of Visited: the partner of an instance is not looked at. *)
VisitedFrom(ex) ==
    UNION {IF ex[k].from = NULL THEN {} ELSE VisitedFor(ex[k].from, ex[k].to) : k \in DOMAIN ex}

Visited(ex) ==
    UNION {(IF ex[k].from = NULL THEN {} ELSE VisitedFor(ex[k].from, ex[k].to))
           \cup (IF ex[k].to = NULL THEN {} ELSE VisitedFor(ex[k].to, ex[k].from))
             : k \in DOMAIN ex}

(* compute_tcost: the delays of all sinks from the positions as they are. *)
ComputeTCost ==
    IF TimingDriven THEN delay' = Delays(Sinks, pos) ELSE UNCHANGED delay
-----------------------------------------------------------------------------
PInit ==
    /\ Init
    /\ box = [n \in Nets |-> NULL]
    /\ saved = [n \in Nets |-> NULL]
    /\ bbCost = 0
    /\ delay = [p \in Sinks |-> 0]
    /\ tempDelay = [p \in Sinks |-> NULL]

(* Steps of the floorplan that no box depends on. *)
FloorplanStep ==
    /\ \/ PlaceChain \/ PlaceChainFails
       \/ PlaceLut6 \/ PlaceLut6Hangs
       \/ PlaceSite \/ PlaceSiteFails
       \/ PickObject \/ NoObject \/ GiveUp \/ Refuse
       \/ Finish \/ Stopped
    /\ UNCHANGED costVars

(* Floorplan::compute_bb_cost, once all is placed. *)
PStartAnnealing ==
    /\ StartAnnealing
    /\ box' = [n \in Nets |-> BoxOf(n, pos)]
    /\ bbCost' = RecomputedCost(box')
    /\ ComputeTCost
    /\ UNCHANGED <<saved, tempDelay>>

PExchange ==
    /\ Exchange
    /\ box' = [n \in Nets |-> ExchangedBox(swaps', n, pos')]
    /\ saved' = [n \in Nets |-> IF n \in Touched(swaps') THEN box[n] ELSE saved[n]]
    /\ tempDelay' = IF TimingDriven THEN Delays(Visited(swaps'), pos') ELSE tempDelay
    /\ UNCHANGED <<bbCost, delay>>

(* reset_pre_bb_cost of the affected nets; update_tcost makes the delays   *)
(* of the exchange those of the connections.                               *)
PKeep ==
    /\ Keep
    /\ bbCost' = bbCost + Delta
    /\ saved' = [n \in Nets |-> NULL]
    /\ delay' = [p \in Sinks |-> IF tempDelay[p] # NULL THEN tempDelay[p] ELSE delay[p]]
    /\ tempDelay' = [p \in Sinks |-> NULL]
    /\ UNCHANGED box

(* restore_bounding_box of an affected net. *)
Restored(n) == IF saved[n] # NULL THEN saved[n] ELSE box[n]

PUndo ==
    /\ Undo
    /\ box' = [n \in Nets |-> Restored(n)]
    /\ saved' = [n \in Nets |-> NULL]
    /\ tempDelay' = [p \in Sinks |-> NULL]
    /\ UNCHANGED <<bbCost, delay>>

(* After so many swaps the cost is summed up anew. *)
PNextTemperature ==
    /\ NextTemperature
    /\ bbCost' \in {bbCost, RecomputedCost(box)}
    /\ ComputeTCost
    /\ UNCHANGED <<box, saved, tempDelay>>

PNext ==
    \/ FloorplanStep
    \/ PStartAnnealing
    \/ PExchange
    \/ PKeep
    \/ PUndo
    \/ PNextTemperature

PSpec == PInit /\ [][PNext]_<<vars, costVars>>

(* One thread: it always goes on, and rand() does not draw the same        *)
(* position for ever.                                                      *)
LivePSpec == PSpec /\ WF_<<vars, costVars>>(PNext)
-----------------------------------------------------------------------------
Annealing == phase \notin {"place", "error"}

(* The boxes, which exchanges only ever update for the move of one         *)
(* instance and put back when they are refused, are those of the instances' *)
(* positions, also while an exchange is being decided.                     *)
BoxesCurrent ==
    Annealing =>
        \A n \in Nets :
            /\ AxisFits(box[n].x, [k \in DOMAIN Insts(n) |-> PhyOf(pos[Insts(n)[k]]).x])
            /\ AxisFits(box[n].y, [k \in DOMAIN Insts(n) |-> PhyOf(pos[Insts(n)[k]]).y])

(* The cost that decides when the annealing stops is the cost of the       *)
(* placement: the sum of thousands of differences, exchanges refused in    *)
(* between, has not drifted away from it.                                  *)
CostIsSum ==
    Annealing /\ phase # "decide" =>
        bbCost = Total([n \in Nets |-> BbCost(BoxOf(n, pos))])

(* Nor has any connection kept the delay of an earlier place of its ends,   *)
(* though a kept exchange sets only those of the instances it moved, and    *)
(* from values computed before it was known to be kept.                     *)
DelaysCurrent ==
    TimingDriven /\ Annealing => delay = Delays(Sinks, Placed)

(* The cost the annealing goes by is current: its boxes are, its sum, and   *)
(* the delays.                                                              *)
CostIsCurrent == BoxesCurrent /\ CostIsSum /\ DelaysCurrent
=============================================================================
