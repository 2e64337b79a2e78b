------------------------------- MODULE RouteTree -------------------------------
(***************************************************************************)
(* The tree in which the timing driven router keeps the delays of the net  *)
(* it is routing (RouteTree of rtree.cpp): a branch is hung on it for      *)
(* every sink, loads are added up to the nearest buffer, and only the part *)
(* behind that buffer gets new delays.                                     *)
(*                                                                         *)
(* A tree is the sequence of its TreeNodes, parents first.  A device D has *)
(* res[x] and cap[x] of a node and sw[<<x, y>>], [buf, res, delay], of a   *)
(* switch; resistances are even, so that halves stay integers.             *)
(***************************************************************************)
EXTENDS Integers, Sequences, FiniteSets

RootTree(src) ==
    <<[owner |-> src, parent |-> 0, cdown |-> 0, rup |-> 0, delay |-> 0, open |-> TRUE]>>

(* RTNode::tree_node: the TreeNode created last for x. *)
TreeNodeOf(T, x) ==
    CHOOSE i \in DOMAIN T : T[i].owner = x /\ \A j \in DOMAIN T : T[j].owner = x => j <= i

SwitchTo(D, T, i) == D.sw[<<T[T[i].parent].owner, T[i].owner>>]

(* Mutant of NewLoads: buffers do not shield. *)
NewLoadsThrough(D, b) ==
    LET load[j \in 2..Len(b)] ==
            IF j = Len(b) THEN D.cap[b[j]] ELSE D.cap[b[j]] + load[j + 1]
    IN  load

(* add_path_to_rout_tree: a capacitance stops adding up behind a buffer. *)
NewLoads(D, b) ==
    LET load[j \in 2..Len(b)] ==
            IF j = Len(b) \/ D.sw[<<b[j], b[j + 1]>>].buf THEN D.cap[b[j]]
                                                          ELSE D.cap[b[j]] + load[j + 1]
    IN  load

(* load_new_path_Rupstream: a node takes the switch to its child and its   *)
(* own resistance once more, and the sink takes nothing.                   *)
NewUpstream(D, b, above) ==
    LET s     == D.sw[<<b[1], b[2]>>]
        first == s.res + D.res[b[2]] + (IF s.buf THEN 0 ELSE above)
        run[j \in 1..(Len(b) - 1)] ==
            IF j = 1 THEN first
            ELSE LET t == D.sw[<<b[j], b[j + 1]>>]
                 IN  t.res + D.res[b[j]] + (IF t.buf THEN 0 ELSE run[j - 1])
    IN  [j \in 2..Len(b) |-> IF j < Len(b) THEN run[j] ELSE IF j = 2 THEN first ELSE 0]

Hung(D, T, b) ==
    LET p    == TreeNodeOf(T, b[1])
        load == NewLoads(D, b)
        up   == NewUpstream(D, b, T[p].rup)
    IN  T \o [k \in 1..(Len(b) - 1) |->
                [owner  |-> b[k + 1],
                 parent |-> IF k = 1 THEN p ELSE Len(T) + k - 1,
                 cdown  |-> load[k + 1], rup |-> up[k + 1], delay |-> 0,
                 open   |-> k + 1 # Len(b)]]

(* The chain from node i of T up to the first that a buffer drives. *)
UnbufferedChain(D, T, i) ==
    LET climb[k \in DOMAIN T] ==
            IF T[k].parent = 0 \/ SwitchTo(D, T, k).buf THEN {k}
                                                       ELSE {k} \cup climb[T[k].parent]
    IN  climb[i]

HalfRC(D, n) == (n.cdown * D.res[n.owner]) \div 2

(* load_unbuffered_subtree_delay: the nodes of the subtree of u. *)
WithDelays(D, T, u) ==
    LET above(i) == LET s == SwitchTo(D, T, i) IN s.res * T[i].cdown + s.delay
        below[i \in DOMAIN T] == i = u \/ (i > u /\ below[T[i].parent])
        delay[i \in DOMAIN T] ==
            IF ~below[i] THEN T[i].delay
            ELSE IF T[i].parent = 0 THEN HalfRC(D, T[i])
            ELSE delay[T[i].parent] + above(i) + HalfRC(D, T[i])
    IN  [i \in DOMAIN T |-> [T[i] EXCEPT !.delay = delay[i]]]

(* update_route_tree for branch b, which starts at a node of the tree. *)
UpdateRouteTree(D, T, b) ==
    LET H     == Hung(D, T, b)
        start == Len(T) + 1
        chain == UnbufferedChain(D, H, start)
        L     == [i \in DOMAIN H |->
                    IF i \in chain \ {start}
                      THEN [H[i] EXCEPT !.cdown = @ + H[start].cdown] ELSE H[i]]
    IN  WithDelays(D, L, CHOOSE i \in chain : \A j \in chain : i <= j)

(* The reference: Elmore delays of the tree of the edges E from src. *)
ElmoreDelay(D, E, src) ==
    LET nodes == {src} \cup {e[2] : e \in E}
        load[x \in nodes] ==
            LET kids == {e \in E : e[1] = x /\ ~D.sw[e].buf}
                sum[K \in SUBSET kids] ==
                    IF K = {} THEN 0
                    ELSE LET e == CHOOSE k \in K : TRUE IN load[e[2]] + sum[K \ {e}]
            IN  (IF x = src THEN 0 ELSE D.cap[x]) + sum[kids]
        delay[x \in nodes] ==
            (load[x] * D.res[x]) \div 2 +
            (IF x = src THEN 0
             ELSE LET e == CHOOSE k \in E : k[2] = x
                  IN  delay[e[1]] + D.sw[e].res * load[x] + D.sw[e].delay)
    IN  delay
=============================================================================
