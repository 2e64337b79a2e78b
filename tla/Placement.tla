------------------------------- MODULE Placement -------------------------------
(***************************************************************************)
(* What the placer promises of its floorplan, without the bookkeeping: the *)
(* constrained instances are where the constraints want them, no two       *)
(* instances share a slot, and slices that a carry net or an F5 net joins  *)
(* lie so that the net can be the wire between neighbours which it needs.  *)
(* It places no design whose constraints forbid this, and an exchange that *)
(* is undone is no step at all.                                            *)
(***************************************************************************)
EXTENDS Integers, Sequences

CONSTANTS Inst, Netlists, NULL

VARIABLES
    design,  \* one of Netlists, with what the placer adds to it
    place    \* the position of each instance, NULL before it has one

Tile       == design.device.tiles
CarryChain == design.device.chains

Pos == Tile \X (0..(design.device.slices - 1))

Used == {design.insts[k] : k \in DOMAIN design.insts}

Constrained == DOMAIN design.cst

PinsOf(n, name) == {p \in {n.pins[k] : k \in DOMAIN n.pins} : p.name = name}

(* The instances that a net joins from a pin out to a pin in.              *)
Joined(out, in) ==
    UNION {{<<p.inst, q.inst>> : p \in PinsOf(design.nets[n], out), q \in PinsOf(design.nets[n], in)} :
             n \in DOMAIN design.nets}

Carries == Joined("COUT", "CIN")

Pairs == Joined("F5", "F5IN")

Feasible ==
    /\ \A i \in Constrained : design.cst[i] \in Pos
    /\ \A i, j \in Constrained : i # j => design.cst[i] # design.cst[j]
    /\ \A c \in Carries : c[1] \in Constrained <=> c[2] \in Constrained

(* Tile u is the next one with a SLICE above t. *)
NextAbove(t, u) ==
    /\ u[2] = t[2]
    /\ u[1] < t[1]
    /\ \A r \in (u[1] + 1)..(t[1] - 1) : <<r, t[2]>> \notin Tile

(* Two slots that follow each other in carry chain x. *)
Follows(x, p, q) ==
    \E k \in DOMAIN CarryChain[x] :
        /\ p[2] = CarryChain[x][k]
        /\ IF k < Len(CarryChain[x])
             THEN q = <<p[1], CarryChain[x][k + 1]>>
             ELSE NextAbove(p[1], q[1]) /\ q[2] = CarryChain[x][1]

(* A pair fills the slots 0 and 1 of a tile.                               *)
PairShape(p, q) == p[1] = q[1] /\ p[2] = 0 /\ q[2] = 1

(* The members of a pair and of a chain are placed together, as neighbours, *)
(* and a chain begins where the carry chain of a tile does; nothing is      *)
(* asked of constrained slices.                                             *)
InShape(pl) ==
    LET carries == Carries
        free(c) == c[1] \notin Constrained
        placed(c) == pl[c[1]] # NULL
        whole(c) == pl[c[1]] = NULL <=> pl[c[2]] = NULL
        heads == {c[1] : c \in carries} \ {c[2] : c \in carries}
    IN  /\ \A c \in Pairs : whole(c) /\ (placed(c) => PairShape(pl[c[1]], pl[c[2]]))
        /\ \A c \in carries :
              /\ whole(c)
              /\ free(c) /\ placed(c) =>
                    \E x \in DOMAIN CarryChain :
                       /\ Follows(x, pl[c[1]], pl[c[2]])
                       /\ c[1] \in heads => pl[c[1]][2] = CarryChain[x][1]

Apart(pl) == \A i, j \in Inst : i # j /\ pl[i] # NULL => pl[i] # pl[j]

Legal(pl) == InShape(pl) /\ Apart(pl)

Init ==
    /\ \E d \in Netlists : \A f \in DOMAIN d : design[f] = d[f]
    /\ place = [i \in Inst |-> IF i \in Constrained /\ Feasible
                                 THEN design.cst[i] ELSE NULL]

(* Some instances get their first place. *)
Put ==
    /\ Feasible
    /\ \A i \in Inst : \/ place'[i] = place[i]
                       \/ place[i] = NULL /\ i \in Used /\ place'[i] \in Pos
    /\ Legal(place')
    /\ UNCHANGED design

(* All instances placed, those that no constraint holds change places. *)
Rearrange ==
    /\ \A i \in Used : place[i] # NULL /\ place'[i] \in Pos
    /\ \A i \in Inst : i \notin Used \/ i \in Constrained => place'[i] = place[i]
    /\ Legal(place')
    /\ UNCHANGED design

Next == Put \/ Rearrange

Spec == Init /\ [][Next]_<<design, place>>
=============================================================================
