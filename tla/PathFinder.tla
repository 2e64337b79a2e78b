----------------------------- MODULE PathFinder -----------------------------
(***************************************************************************)
(* The negotiation loop of the router,                                     *)
(* Router::try_breadth_first_and_directd_search_route: every net is ripped *)
(* up, searched for again and committed, and the present and history costs *)
(* of the routing-resource nodes are raised until no node carries more     *)
(* nets than its capacity or the iterations are used up.                   *)
(*                                                                         *)
(* The search of one net is abstract here: it returns any member of        *)
(* Routes[n], or fails.  Router.tla has the search itself and is shown to  *)
(* implement this module.  Costs are integers in halves: One is the 1.0 of *)
(* the code, its factor .5 is 1.                                           *)
(***************************************************************************)
EXTENDS Integers, Sequences, FiniteSets

CONSTANTS
    Node,          \* nodes of the routing-resource graph
    Net,           \* nets of the top cell
    NetSeq,        \* the nets in the order of top_cell_->nets()
    Ignored,       \* nets with is_ignore(): complete in the input, or not routable
    Partial,       \* nets with is_partial_routed()
    Fixed,         \* Fixed[n][x]: how often x occurs in the fixed_path_ of n
    PreOcc,        \* occ that initialize() leaves: every fixed path counted in
    Capacity,      \* RTNode::capacity_
    Routes,        \* Routes[n]: the node sets the search of n may return
    MaxIters,      \* RTParams::max_iters
    FirstPresFac,  \* RTParams::first_iter_pres_fac
    InitPresFac,   \* RTParams::initial_pres_fac
    PresFacMult,   \* RTParams::pres_fac_mult
    HistFac        \* RTParams::hist_fac

One == 2

ASSUME NetAssumption ==
    /\ IsFiniteSet(Net)
    /\ Ignored \subseteq Net
    /\ Partial \subseteq Net \ Ignored
    /\ NetSeq \in Seq(Net)
    /\ \A i, j \in DOMAIN NetSeq : NetSeq[i] = NetSeq[j] => i = j

ASSUME NodeAssumption ==
    /\ Capacity \in [Node -> Nat \ {0}]
    /\ PreOcc \in [Node -> Nat]
    /\ Fixed \in [Net -> [Node -> Nat]]
    /\ \A n \in Net \ Partial : \A x \in Node : n \notin Ignored => Fixed[n][x] = 0
    /\ Routes \in [Net -> SUBSET SUBSET Node]

ASSUME ParamAssumption ==
    /\ MaxIters \in Nat \ {0}
    /\ FirstPresFac \in Nat
    /\ InitPresFac \in Nat
    /\ PresFacMult \in Nat
    /\ HistFac \in Nat

VARIABLES
    pc,       \* "net": about to rip up NetSeq[idx], "search", "done"
    itry,     \* the iteration
    idx,      \* position in NetSeq
    presFac,  \* the local pres_fac
    path,     \* the nodes of RTNet::path_
    occ,      \* RTNode::occ_
    pres,     \* RTInfo::pres_cost
    hist,     \* RTInfo::hist_cost
    result    \* what the call returns, "none" before

vars == <<pc, itry, idx, presFac, path, occ, pres, hist, result>>

Cur == NetSeq[idx]

Users(x) == {n \in Net : x \in path[n]}
-----------------------------------------------------------------------------
(* RTNode::update_pres_cost *)
PresCost(o, cap, fac) == IF o < cap THEN One ELSE One + (o + 1 - cap) * fac

Overused(x) == occ[x] > Capacity[x]

(* RTNet::is_feasible *)
FeasibleNet(n) == \A x \in path[n] : ~Overused(x)

(* Mutant of Feasible: one feasible net is taken for all of them. *)
FeasibleSome == \E n \in Net : path[n] # {} /\ FeasibleNet(n)

(* Router::infeasible_route() = 0 *)
Feasible == \A n \in Net : FeasibleNet(n)

(* RTNet::path_update_one_cost on the nodes S: occ moves by d and the      *)
(* present cost follows it.                                                *)
OccBy(S, d) == [x \in Node |-> IF x \in S THEN occ[x] + d ELSE occ[x]]

PresOn(S, o) ==
    [x \in Node |-> IF x \in S THEN PresCost(o[x], Capacity[x], presFac) ELSE pres[x]]

(* Mutant of Released: the path is cleared before its nodes are given back. *)
ReleasedNothing == {}

(* The nodes that rip-up gives back: the path of the last iteration. *)
Released == path[Cur]

LastIteration == itry >= MaxIters
-----------------------------------------------------------------------------
Init ==
    /\ pc = "net"
    /\ itry = 1
    /\ idx = 1
    /\ presFac = FirstPresFac
    /\ path = [n \in Net |-> {}]
    /\ occ = PreOcc
    /\ pres = [x \in Node |-> One]
    /\ hist = [x \in Node |-> One]
    /\ result = "none"

(* An ignored net is skipped. *)
SkipNet ==
    /\ pc = "net"
    /\ idx <= Len(NetSeq)
    /\ Cur \in Ignored
    /\ idx' = idx + 1
    /\ UNCHANGED <<pc, itry, presFac, path, occ, pres, hist, result>>

(* The old route gives its nodes back and the path is cleared; a partially *)
(* routed net then loads its fixed path, which takes the occupancy of the  *)
(* fixed nodes off once more and leaves their present cost alone.          *)
RipUp ==
    /\ pc = "net"
    /\ idx <= Len(NetSeq)
    /\ Cur \notin Ignored
    /\ LET freed == OccBy(Released, -1)
       IN  /\ pres' = PresOn(Released, freed)
           /\ occ' = [x \in Node |->
                        IF Cur \in Partial THEN freed[x] - Fixed[Cur][x] ELSE freed[x]]
    /\ path' = [path EXCEPT ![Cur] = {}]
    /\ pc' = "search"
    /\ UNCHANGED <<itry, idx, presFac, hist, result>>

(* The search succeeds with route r, which is committed. *)
Commit(r) ==
    /\ pc = "search"
    /\ r \in Routes[Cur]
    /\ path' = [path EXCEPT ![Cur] = r]
    /\ occ' = OccBy(r, 1)
    /\ pres' = PresOn(r, occ')
    /\ pc' = "net"
    /\ idx' = idx + 1
    /\ UNCHANGED <<itry, presFac, hist, result>>

(* The search fails and with it the whole design. *)
Unroutable ==
    /\ pc = "search"
    /\ pc' = "done"
    /\ result' = "unroutable"
    /\ UNCHANGED <<itry, idx, presFac, path, occ, pres, hist>>

(* All nets are committed and no node is overused: the paths are saved.    *)
Succeed ==
    /\ pc = "net"
    /\ idx > Len(NetSeq)
    /\ Feasible
    /\ pc' = "done"
    /\ result' = "success"
    /\ UNCHANGED <<itry, idx, presFac, path, occ, pres, hist>>

(* Mutant of Refreshed: the nodes that are exactly full keep the cost of the *)
(* iteration before.                                                       *)
RefreshedOverused(x) == Overused(x)

(* The nodes whose present cost update_nodes_cost recomputes. *)
Refreshed(x) == occ[x] >= Capacity[x]

(* Router::update_nodes_cost, with the factor of the next iteration *)
UpdateNodesCost(fac) ==
    /\ hist' = [x \in Node |->
                  IF Overused(x) THEN hist[x] + (occ[x] - Capacity[x]) * HistFac * One
                                 ELSE hist[x]]
    /\ pres' = [x \in Node |->
                  IF Refreshed(x) THEN PresCost(occ[x], Capacity[x], fac) ELSE pres[x]]

(* Some net is infeasible: the costs are raised and the next iteration     *)
(* starts, unless this was the last one.                                   *)
NextIteration ==
    /\ pc = "net"
    /\ idx > Len(NetSeq)
    /\ ~Feasible
    /\ presFac' = IF itry = 1 THEN InitPresFac ELSE presFac * PresFacMult
    /\ UpdateNodesCost(presFac')
    /\ itry' = itry + 1
    /\ idx' = 1
    /\ IF LastIteration
         THEN pc' = "done" /\ result' = "congested"
         ELSE UNCHANGED <<pc, result>>
    /\ UNCHANGED <<path, occ>>

(* The call has returned. *)
Returned == pc = "done" /\ UNCHANGED vars

Next ==
    \/ SkipNet
    \/ RipUp
    \/ pc = "search" /\ \E r \in Routes[Cur] : Commit(r)
    \/ Unroutable
    \/ Succeed
    \/ NextIteration
    \/ Returned

Spec == Init /\ [][Next]_vars
-----------------------------------------------------------------------------
(* Types of the loop's variables; occ may be any integer, since nothing in *)
(* the code keeps it from going below zero.                                *)
TypeOK ==
    /\ pc \in {"net", "search", "done"}
    /\ itry \in 1..(MaxIters + 1)
    /\ idx \in 1..(Len(NetSeq) + 1)
    /\ pc = "search" => idx <= Len(NetSeq)
    /\ pc # "done" => itry <= MaxIters
    /\ presFac \in Nat
    /\ path \in [Net -> SUBSET Node]
    /\ occ \in [Node -> Int]
    /\ pres \in [Node -> Int]
    /\ hist \in [Node -> Nat]
    /\ result \in {"none", "success", "unroutable", "congested"}

(* The occupancy of a node is the number of committed nets whose path uses *)
(* it on top of the nets that came complete: what rip-up (-1) and commit   *)
(* (+1) must keep over any number of iterations.                           *)
OccAccounting == \A x \in Node : occ[x] = PreOcc[x] + Cardinality(Users(x))

(* The present cost that a search reads is never stale: it is the one of   *)
(* the node's occupancy now and of the pres_fac of this iteration, although *)
(* update_nodes_cost refreshes only the nodes at or over capacity.  The    *)
(* one exception are nodes that initialize() occupied, in iteration 1.     *)
PresCurrent ==
    pc # "done" =>
        \A x \in Node :
            itry > 1 \/ PreOcc[x] = 0 => pres[x] = PresCost(occ[x], Capacity[x], presFac)

(* A design reported as routed has no node that carries more nets than its *)
(* capacity, the nets that came complete included.                         *)
SuccessIsLegal ==
    result = "success" =>
        \A x \in Node :
            Users(x) # {} => PreOcc[x] + Cardinality(Users(x)) <= Capacity[x]

(* A node's history cost rises only when the node really is wanted by more *)
(* nets than fit, and it never falls: no net is pushed off a node that had *)
(* room for it.                                                            *)
HistoryIsEarned ==
    [][\A x \in Node :
          /\ hist'[x] >= hist[x]
          /\ hist'[x] > hist[x] => PreOcc[x] + Cardinality(Users(x)) > Capacity[x]]_vars
=============================================================================
