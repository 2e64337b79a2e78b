-------------------------------- MODULE OneNet --------------------------------
(***************************************************************************)
(* The search of NetSearch for one net on a device whose costs do not      *)
(* change: every switch graph, base cost, netlist and option that the      *)
(* instance lists.  What the search promises its caller is stated here.    *)
(***************************************************************************)
EXTENDS NetSearch

CONSTANTS
    TheNet,    \* the net that is routed
    Devices,   \* the devices to try
    Cases      \* the values of <<nets, params>>

ASSUME NetAssumption ==
    /\ TheNet \in Net
    /\ \A c \in Cases :
         /\ c[1][TheNet].src \in Node
         /\ c[1][TheNet].sinks \in Seq(Node)
         /\ c[1][TheNet].fixed \in Seq(Node)
         /\ c[2].astar \in Nat

ASSUME DeviceAssumption ==
    \A d \in Devices :
        /\ d.switches \in [Node -> SUBSET Node]
        /\ d.fromPos \in [Node -> [x : Int, y : Int]]
        /\ d.toPos \in [Node -> [x : Int, y : Int]]
        /\ \A c \in Cases : Initialized(d, c[2].bcost).base \in [Node -> Nat]

Init ==
    /\ \E c \in Cases : nets = c[1] /\ params = c[2]
    /\ \E d \in Devices : rrg = Initialized(d, params.bcost)
    /\ SearchInit

(* The call has returned. *)
Returned == spc \in {"routed", "unroutable"} /\ UNCHANGED svars

Next ==
    \/ (BeginNet(TheNet, occ) \/ SearchStep(TheNet)) /\ UNCHANGED <<inputs, pres, hist>>
    \/ Returned

Spec == Init /\ [][Next]_svars /\ WF_svars(Next)
-----------------------------------------------------------------------------
(* Reference: <<x, k>> for every path of cost k from the source to x, of   *)
(* fewer switches than there are nodes, that stays inside the net's box.   *)
PathCosts ==
    LET inside == InBox(TheNet, Node)
        upTo[i \in 0..(Cardinality(Node) - 1)] ==
            IF i = 0
              THEN {<<nets[TheNet].src, CongCost(nets[TheNet].src)>>}
              ELSE LET P == upTo[i - 1]
                   IN  P \cup UNION {{<<y, e[2] + CongCost(y)>> :
                                        y \in inside \cap rrg.switches[e[1]]} : e \in P}
    IN  upTo[Cardinality(Node) - 1]

Reachable(x) == \E e \in PathCosts : e[1] = x

(* A search starts from a clean slate and a routed net leaves one: no cost *)
(* or entry of an earlier search, and after the net no path mark on any    *)
(* node, also on those that no longer are on a path, and no target flag    *)
(* (those of the sinks that a fixed path reaches do survive).              *)
CleanSlate ==
    /\ spc \in {"idle", "sink", "routed", "unroutable"} =>
         mdf = {} /\ \A x \in Node : pathCost[x] = Huge
    /\ spc = "sink" => heap = {}
    /\ spc \in {"idle", "routed"} => \A x \in Node : ~isPath[x]
    /\ spc = "routed" /\ nets[TheNet].fixed = <<>> => \A x \in Node : tarflg[x] = 0

(* The route handed back is a tree of existing switches from the source    *)
(* with every sink on it, as save_path asserts, and the traversals by which *)
(* occupancy is counted, which skip the element after a sink, meet every   *)
(* node of it exactly once.                                                *)
RouteIsTree ==
    spc = "routed" =>
        /\ PipsExist(TheNet) /\ IsTree(TheNet) /\ SinksConnected(TheNet)
        /\ CountedOnce(TheNet)

(* Without the distance term the search of a net without a fixed path is   *)
(* exact: the cost a node was expanded with is the cheapest one inside the *)
(* box.                                                                    *)
SettledAtCheapest ==
    /\ spc = "pop"
    /\ params.astar = 0
    /\ nets[TheNet].kind # "CLOCK"
    /\ nets[TheNet].fixed = <<>>
    =>
        LET P == PathCosts
        IN  \A x \in mdf : pathCost[x] = Least({e[2] : e \in {f \in P : f[1] = x}})

(* A net is called unroutable only when one of its sinks cannot be reached *)
(* inside the net's box.  (Breadth first, it need not be the sink of the   *)
(* failing iteration: any marked sink ends the search.)                    *)
UnroutableIsReal ==
    spc = "unroutable" => \E x \in ElemsOf(nets[TheNet].sinks) : ~Reachable(x)

(* Every search ends: the heap empties or the sinks are reached. *)
SearchEnds == <>(spc \in {"routed", "unroutable"})
=============================================================================
