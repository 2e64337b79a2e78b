-------------------------- MODULE PathFinder_proofs --------------------------
(***************************************************************************)
(* What the negotiation loop guarantees for every netlist, every capacity, *)
(* every choice of routes and any number of iterations.                    *)
(*                                                                         *)
(* The type invariant holds of every design.  The accounting results are   *)
(* about designs without partially routed nets (Partial = {}), since for   *)
(* those the code takes the fixed path off the occupancy in every          *)
(* iteration (see MCRouter_partial_legal.cfg).                             *)
(***************************************************************************)
EXTENDS PathFinder, FiniteSetTheorems, TLAPS

(* Products of naturals, which the arithmetic backend needs to be told.    *)
LEMMA ProductNat == \A i, j \in Nat : i * j \in Nat
  OBVIOUS

(* The same of integers.                                                   *)
LEMMA ProductInt == \A i, j \in Int : i * j \in Int
  OBVIOUS

(* The present cost of a node is an integer, whatever the occupancy.       *)
LEMMA PresCostInt ==
  ASSUME NEW o \in Int, NEW cap \in Nat, NEW fac \in Nat
  PROVE  PresCost(o, cap, fac) \in Int
  <1>1. (o + 1 - cap) * fac \in Int
    BY ProductInt
  <1>2. QED
    BY <1>1 DEF PresCost, One

(* The users of a node are finitely many nets.                             *)
LEMMA UsersFinite ==
  ASSUME NEW x
  PROVE  IsFiniteSet(Users(x)) /\ Cardinality(Users(x)) \in Nat
  <1>1. Users(x) \in SUBSET Net
    BY DEF Users
  <1>2. QED
    BY <1>1, NetAssumption, FS_Subset, FS_CardinalityType

(* The net at a position of the list is a net.                             *)
LEMMA NetSeqRange ==
  ASSUME NEW i \in 1..(Len(NetSeq) + 1), i <= Len(NetSeq)
  PROVE  NetSeq[i] \in Net
  BY NetAssumption

-----------------------------------------------------------------------------
(* Every step of the loop keeps the types.                                 *)
LEMMA TypeStep == TypeOK /\ [Next]_vars => TypeOK'
  <1> SUFFICES ASSUME TypeOK, [Next]_vars
             PROVE  TypeOK'
    OBVIOUS
  <1> USE NetAssumption, NodeAssumption, ParamAssumption
  <1>1. ASSUME NEW S \in SUBSET Node, NEW o \in [Node -> Int]
      PROVE  PresOn(S, o) \in [Node -> Int]
    <2>1. \A x \in Node : PresCost(o[x], Capacity[x], presFac) \in Int
      BY <1>1, PresCostInt DEF TypeOK
    <2>2. QED
      BY <2>1 DEF PresOn, TypeOK
  <1>2. CASE SkipNet
    BY <1>2 DEF SkipNet, TypeOK
  <1>3. CASE RipUp
    <2>1. Cur \in Net
      BY <1>3, NetSeqRange DEF RipUp, Cur, TypeOK
    <2>2. Released \in SUBSET Node
      BY <2>1 DEF Released, TypeOK
    <2>3. OccBy(Released, -1) \in [Node -> Int]
      BY DEF OccBy, TypeOK
    <2>4. pres' \in [Node -> Int]
      BY <1>3, <1>1, <2>2, <2>3 DEF RipUp
    <2>5. occ' \in [Node -> Int]
      BY <1>3, <2>1, <2>3 DEF RipUp
    <2>6. QED
      BY <1>3, <2>1, <2>4, <2>5 DEF RipUp, TypeOK
  <1>4. ASSUME NEW r \in Routes[Cur], Commit(r)
      PROVE  TypeOK'
    <2>1. Cur \in Net
      BY <1>4, NetSeqRange DEF Commit, Cur, TypeOK
    <2>2. r \in SUBSET Node
      BY <2>1
    <2>3. occ' \in [Node -> Int]
      BY <1>4 DEF Commit, OccBy, TypeOK
    <2>4. pres' \in [Node -> Int]
      BY <1>4, <1>1, <2>2, <2>3 DEF Commit
    <2>5. path' \in [Net -> SUBSET Node]
      BY <1>4, <2>1, <2>2 DEF Commit, TypeOK
    <2>6. QED
      BY <1>4, <2>3, <2>4, <2>5 DEF Commit, TypeOK
  <1>5. CASE Unroutable
    BY <1>5 DEF Unroutable, TypeOK
  <1>6. CASE Succeed
    BY <1>6 DEF Succeed, TypeOK
  <1>7. CASE NextIteration
    <2>1. presFac' \in Nat
      BY <1>7, ProductNat DEF NextIteration, TypeOK
    <2>2. hist' \in [Node -> Nat]
      <3> SUFFICES ASSUME NEW x \in Node, Overused(x)
                   PROVE  hist[x] + (occ[x] - Capacity[x]) * HistFac * One \in Nat
        BY <1>7 DEF NextIteration, UpdateNodesCost, TypeOK
      <3>1. occ[x] - Capacity[x] \in Nat
        BY DEF Overused, TypeOK
      <3>2. (occ[x] - Capacity[x]) * HistFac \in Nat
        BY <3>1, ProductNat
      <3>3. QED
        BY <3>2 DEF One, TypeOK
    <2>3. pres' \in [Node -> Int]
      <3>1. \A x \in Node : PresCost(occ[x], Capacity[x], presFac') \in Int
        BY <2>1, PresCostInt DEF TypeOK
      <3>2. QED
        BY <1>7, <3>1 DEF NextIteration, UpdateNodesCost, TypeOK
    <2>4. /\ pc' \in {"net", "search", "done"}
          /\ itry' \in 1..(MaxIters + 1)
          /\ pc' # "done" => itry' <= MaxIters
      BY <1>7 DEF NextIteration, LastIteration, TypeOK
    <2>5. QED
      BY <1>7, <2>1, <2>2, <2>3, <2>4 DEF NextIteration, TypeOK
  <1>8. CASE UNCHANGED vars
    BY <1>8 DEF vars, TypeOK
  <1>9. QED
    BY <1>2, <1>3, <1>4, <1>5, <1>6, <1>7, <1>8 DEF Next, Returned

(* The loop's variables keep their types in every design, the partially    *)
(* routed ones included.                                                   *)
THEOREM TypeCorrect == Spec => []TypeOK
  <1>1. Init => TypeOK
    BY NetAssumption, NodeAssumption, ParamAssumption DEF Init, TypeOK, One
  <1>2. QED
    BY <1>1, TypeStep, PTL DEF Spec

-----------------------------------------------------------------------------
(* The inductive invariant.  While a net is searched for it has no path,   *)
(* so committing it adds a user to every node of the new one; a node below *)
(* its capacity has the plain present cost even where the stronger claim   *)
(* of PresCurrent does not hold yet; and the verdict of Feasible stands    *)
(* until the result is read, as nothing moves after it.                    *)
SearchedHasNoPath == pc = "search" => path[Cur] = {}

RoomIsCheap == \A x \in Node : occ[x] < Capacity[x] => pres[x] = One

VerdictStands == result = "success" => pc = "done" /\ Feasible

IInv ==
    /\ TypeOK
    /\ OccAccounting
    /\ PresCurrent
    /\ SearchedHasNoPath
    /\ RoomIsCheap
    /\ VerdictStands

(* Taking net n off the path of node x, or putting it on, moves the number *)
(* of users by one.                                                        *)
LEMMA UserLeaves ==
  ASSUME NEW n \in Net, path \in [Net -> SUBSET Node],
         path' = [path EXCEPT ![n] = {}], NEW x \in path[n]
  PROVE  Cardinality(Users(x)') = Cardinality(Users(x)) - 1
  <1>1. Users(x)' = Users(x) \ {n}
    BY DEF Users
  <1>2. n \in Users(x)
    BY DEF Users
  <1>3. QED
    BY <1>1, <1>2, UsersFinite, FS_RemoveElement

(* A net that gets a path adds one user to each node of it.                *)
LEMMA UserJoins ==
  ASSUME NEW n \in Net, path \in [Net -> SUBSET Node], path[n] = {},
         NEW r, path' = [path EXCEPT ![n] = r], NEW x \in r
  PROVE  Cardinality(Users(x)') = Cardinality(Users(x)) + 1
  <1>1. Users(x)' = Users(x) \cup {n}
    BY DEF Users
  <1>2. n \notin Users(x)
    BY DEF Users
  <1>3. QED
    BY <1>1, <1>2, UsersFinite, FS_AddElement

(* The users of the nodes that are not on the old or the new path stay.    *)
LEMMA UsersStay ==
  ASSUME NEW n \in Net, path \in [Net -> SUBSET Node],
         NEW r, path' = [path EXCEPT ![n] = r], NEW x, x \in path[n] <=> x \in r
  PROVE  Users(x)' = Users(x)
  BY DEF Users

(* path_update_one_cost keeps the present costs in step with the occupancy *)
(* that it moves on the nodes S.                                           *)
LEMMA PresFollows ==
  ASSUME PresCurrent, RoomIsCheap, NEW S, NEW o \in [Node -> Int],
         pc # "done", itry' = itry, presFac' = presFac,
         \A x \in Node \ S : o[x] = occ[x],
         occ' = o, pres' = PresOn(S, o)
  PROVE  PresCurrent' /\ RoomIsCheap'
  <1> USE NodeAssumption
  <1>1. \A x \in Node \cap S : pres'[x] = PresCost(occ'[x], Capacity[x], presFac')
    BY DEF PresOn
  <1>2. \A x \in Node \ S : occ'[x] = occ[x] /\ pres'[x] = pres[x]
    BY DEF PresOn
  <1>3. PresCurrent'
    BY <1>1, <1>2 DEF PresCurrent
  <1>4. RoomIsCheap'
    BY <1>1, <1>2 DEF RoomIsCheap, PresCost
  <1>5. QED
    BY <1>3, <1>4

(* The invariant holds at the start.                                       *)
LEMMA InductiveInit == Init => IInv
  <1> USE NetAssumption, NodeAssumption, ParamAssumption
  <1> SUFFICES ASSUME Init
               PROVE  IInv
    OBVIOUS
  <1>1. TypeOK
    BY DEF Init, TypeOK, One
  <1>2. OccAccounting
    <2> SUFFICES ASSUME NEW x \in Node
                 PROVE  occ[x] = PreOcc[x] + Cardinality(Users(x))
      BY DEF OccAccounting
    <2>1. Users(x) = {}
      BY DEF Init, Users
    <2>2. Cardinality(Users(x)) = 0
      BY <2>1, FS_EmptySet
    <2>3. QED
      BY <2>2 DEF Init
  <1>3. PresCurrent /\ RoomIsCheap
    BY DEF Init, PresCurrent, RoomIsCheap, PresCost
  <1>4. QED
    BY <1>1, <1>2, <1>3 DEF Init, IInv, SearchedHasNoPath, VerdictStands

(* Every step keeps it in designs without partially routed nets.           *)
LEMMA InductiveStep == Partial = {} /\ IInv /\ [Next]_vars => IInv'
  <1> SUFFICES ASSUME Partial = {}, IInv, [Next]_vars
               PROVE  IInv'
    OBVIOUS
  <1> USE NetAssumption, NodeAssumption, ParamAssumption
  <1>1. TypeOK'
    BY TypeStep DEF IInv
  <1>2. CASE SkipNet
    <2>1. \A x : Users(x)' = Users(x)
      BY <1>2 DEF SkipNet, Users
    <2>2. QED
      BY <1>1, <1>2, <2>1 DEF SkipNet, IInv, OccAccounting, PresCurrent,
            SearchedHasNoPath, RoomIsCheap, VerdictStands
  <1>3. CASE RipUp
    <2>1. Cur \in Net /\ Cur' = Cur
      BY <1>3, NetSeqRange DEF RipUp, Cur, TypeOK, IInv
    <2>2. occ' = OccBy(path[Cur], -1) /\ pres' = PresOn(path[Cur], occ')
      <3>1. occ' = [x \in Node |-> OccBy(path[Cur], -1)[x]]
        BY <1>3 DEF RipUp, Released
      <3>2. occ' = OccBy(path[Cur], -1)
        BY <3>1 DEF OccBy
      <3>3. QED
        BY <1>3, <3>2 DEF RipUp, Released
    <2>3. OccAccounting'
      <3> SUFFICES ASSUME NEW x \in Node
                   PROVE  occ'[x] = PreOcc[x] + Cardinality(Users(x)')
        BY DEF OccAccounting
      <3>1. CASE x \in path[Cur]
        <4>1. Cardinality(Users(x)') = Cardinality(Users(x)) - 1
          BY <1>3, <2>1, <3>1, UserLeaves DEF RipUp, IInv, TypeOK
        <4>2. occ'[x] = occ[x] - 1
          BY <2>2, <3>1 DEF OccBy, IInv, TypeOK
        <4>3. QED
          BY <4>1, <4>2, UsersFinite DEF IInv, OccAccounting
      <3>2. CASE x \notin path[Cur]
        <4>1. Users(x)' = Users(x)
          BY <1>3, <2>1, <3>2, UsersStay DEF RipUp, IInv, TypeOK
        <4>2. QED
          BY <2>2, <3>2, <4>1 DEF OccBy, IInv, OccAccounting
      <3>3. QED
        BY <3>1, <3>2
    <2>4. PresCurrent' /\ RoomIsCheap'
      <3>1. /\ occ' \in [Node -> Int]
            /\ \A x \in Node \ path[Cur] : occ'[x] = occ[x]
            /\ pres' = PresOn(path[Cur], occ')
        BY <1>1, <2>2 DEF OccBy, TypeOK
      <3>2. pc # "done" /\ itry' = itry /\ presFac' = presFac
        BY <1>3 DEF RipUp
      <3>3. PresCurrent /\ RoomIsCheap
        BY DEF IInv
      <3>4. QED
        BY <3>1, <3>2, <3>3, PresFollows
    <2>5. SearchedHasNoPath'
      BY <1>3, <2>1 DEF RipUp, SearchedHasNoPath, IInv, TypeOK
    <2>6. VerdictStands'
      BY <1>3 DEF RipUp, VerdictStands, IInv
    <2>7. QED
      BY <1>1, <2>3, <2>4, <2>5, <2>6 DEF IInv
  <1>4. ASSUME NEW r \in Routes[Cur], Commit(r)
        PROVE  IInv'
    <2>1. Cur \in Net /\ path[Cur] = {}
      BY <1>4, NetSeqRange DEF Commit, Cur, TypeOK, IInv, SearchedHasNoPath
    <2>2. occ' = OccBy(r, 1) /\ pres' = PresOn(r, occ')
      BY <1>4 DEF Commit
    <2>3. OccAccounting'
      <3> SUFFICES ASSUME NEW x \in Node
                   PROVE  occ'[x] = PreOcc[x] + Cardinality(Users(x)')
        BY DEF OccAccounting
      <3>1. CASE x \in r
        <4>1. Cardinality(Users(x)') = Cardinality(Users(x)) + 1
          BY <1>4, <2>1, <3>1, UserJoins DEF Commit, IInv, TypeOK
        <4>2. occ'[x] = occ[x] + 1
          BY <2>2, <3>1 DEF OccBy, IInv, TypeOK
        <4>3. QED
          BY <4>1, <4>2, UsersFinite DEF IInv, OccAccounting
      <3>2. CASE x \notin r
        <4>1. Users(x)' = Users(x)
          BY <1>4, <2>1, <3>2, UsersStay DEF Commit, IInv, TypeOK
        <4>2. QED
          BY <2>2, <3>2, <4>1 DEF OccBy, IInv, OccAccounting
      <3>3. QED
        BY <3>1, <3>2
    <2>4. PresCurrent' /\ RoomIsCheap'
      <3>1. /\ occ' \in [Node -> Int]
            /\ \A x \in Node \ r : occ'[x] = occ[x]
            /\ pres' = PresOn(r, occ')
        BY <1>1, <2>2 DEF OccBy, TypeOK
      <3>2. pc # "done" /\ itry' = itry /\ presFac' = presFac
        BY <1>4 DEF Commit
      <3>3. PresCurrent /\ RoomIsCheap
        BY DEF IInv
      <3>4. QED
        BY <3>1, <3>2, <3>3, PresFollows
    <2>5. QED
      BY <1>1, <1>4, <2>3, <2>4 DEF Commit, IInv, SearchedHasNoPath, VerdictStands
  <1>5. CASE Unroutable
    <2>1. \A x : Users(x)' = Users(x)
      BY <1>5 DEF Unroutable, Users
    <2>2. QED
      BY <1>1, <1>5, <2>1 DEF Unroutable, IInv, OccAccounting, PresCurrent,
            SearchedHasNoPath, RoomIsCheap, VerdictStands
  <1>6. CASE Succeed
    <2>1. (\A x : Users(x)' = Users(x)) /\ Feasible'
      BY <1>6 DEF Succeed, Users, Feasible, FeasibleNet, Overused
    <2>2. QED
      BY <1>1, <1>6, <2>1 DEF Succeed, IInv, OccAccounting, PresCurrent,
            SearchedHasNoPath, RoomIsCheap, VerdictStands
  <1>7. CASE NextIteration
    <2>1. \A x : Users(x)' = Users(x)
      BY <1>7 DEF NextIteration, Users
    <2>2. OccAccounting'
      BY <1>7, <2>1 DEF NextIteration, OccAccounting, IInv
    <2>3. \A x \in Node : pres'[x] = PresCost(occ'[x], Capacity[x], presFac')
      BY <1>7 DEF NextIteration, UpdateNodesCost, Refreshed, PresCost,
            RoomIsCheap, IInv, TypeOK
    <2>4. PresCurrent' /\ RoomIsCheap'
      BY <2>3 DEF PresCurrent, RoomIsCheap, PresCost
    <2>5. SearchedHasNoPath' /\ VerdictStands'
      BY <1>7 DEF NextIteration, SearchedHasNoPath, VerdictStands, IInv, TypeOK
    <2>6. QED
      BY <1>1, <2>2, <2>4, <2>5 DEF IInv
  <1>8. CASE UNCHANGED vars
    <2>1. (\A x : Users(x)' = Users(x)) /\ (Feasible' <=> Feasible)
      BY <1>8 DEF vars, Users, Feasible, FeasibleNet, Overused
    <2>2. QED
      BY <1>1, <1>8, <2>1 DEF vars, IInv, OccAccounting, PresCurrent,
            SearchedHasNoPath, RoomIsCheap, VerdictStands, Cur
  <1>9. QED
    BY <1>2, <1>3, <1>4, <1>5, <1>6, <1>7, <1>8 DEF Next, Returned

(* The invariant is inductive for designs without partially routed nets.   *)
THEOREM Inductive == ASSUME Partial = {} PROVE Spec => []IInv
  BY InductiveInit, InductiveStep, PTL DEF Spec

(* For designs without partially routed nets, occ is exactly the number of *)
(* nets that came complete and of committed nets that use the node: rip-up *)
(* and commit never lose or double-count a node, in any iteration.         *)
THEOREM OccupancyAccounted == ASSUME Partial = {} PROVE Spec => []OccAccounting
  <1>1. IInv => OccAccounting
    BY DEF IInv
  <1>2. QED
    BY <1>1, Inductive, PTL

(* The present cost that every search reads is the one of the occupancy    *)
(* and of the pres_fac of the iteration, although update_nodes_cost leaves *)
(* out the nodes below their capacity.                                     *)
THEOREM PresentCostCurrent == ASSUME Partial = {} PROVE Spec => []PresCurrent
  <1>1. IInv => PresCurrent
    BY DEF IInv
  <1>2. QED
    BY <1>1, Inductive, PTL

(* A success is legal where the invariant holds: is_feasible looks only at *)
(* the counter, and the counter is right.                                  *)
LEMMA FeasibleIsLegal == IInv => SuccessIsLegal
  <1> SUFFICES ASSUME IInv, result = "success", NEW x \in Node, Users(x) # {}
               PROVE  PreOcc[x] + Cardinality(Users(x)) <= Capacity[x]
    BY DEF SuccessIsLegal
  <1>1. PICK n \in Net : x \in path[n]
    BY DEF Users
  <1>2. ~(occ[x] > Capacity[x])
    BY <1>1 DEF IInv, VerdictStands, Feasible, FeasibleNet, Overused
  <1>3. occ[x] = PreOcc[x] + Cardinality(Users(x))
    BY DEF IInv, OccAccounting
  <1>4. QED
    BY <1>2, <1>3, NodeAssumption DEF IInv, TypeOK

(* A design reported as routed has no node that carries more nets than its *)
(* capacity.                                                               *)
THEOREM SuccessLegal == ASSUME Partial = {} PROVE Spec => []SuccessIsLegal
  BY FeasibleIsLegal, Inductive, PTL

(* History costs never fall, and rise only on nodes that really are wanted *)
(* by more nets than fit.                                                  *)
THEOREM HistoryEarned == ASSUME Partial = {} PROVE Spec => HistoryIsEarned
  <1> DEFINE Earned == \A x \in Node :
               /\ hist'[x] >= hist[x]
               /\ hist'[x] > hist[x] => PreOcc[x] + Cardinality(Users(x)) > Capacity[x]
  <1>1. IInv /\ [Next]_vars => [Earned]_vars
    <2> SUFFICES ASSUME IInv, Next, NEW x \in Node
                 PROVE  /\ hist'[x] >= hist[x]
                        /\ hist'[x] > hist[x] =>
                             PreOcc[x] + Cardinality(Users(x)) > Capacity[x]
      OBVIOUS
    <2>1. hist[x] \in Nat /\ occ[x] \in Int /\ Capacity[x] \in Nat
      BY NodeAssumption DEF IInv, TypeOK
    <2>2. occ[x] = PreOcc[x] + Cardinality(Users(x))
      BY DEF IInv, OccAccounting
    <2>3. CASE NextIteration
      <3>1. CASE Overused(x)
        <4>1. occ[x] - Capacity[x] \in Nat
          BY <2>1, <3>1 DEF Overused
        <4>2. (occ[x] - Capacity[x]) * HistFac \in Nat
          BY <4>1, ProductNat, ParamAssumption
        <4>3. hist'[x] = hist[x] + (occ[x] - Capacity[x]) * HistFac * One
          BY <2>3, <3>1 DEF NextIteration, UpdateNodesCost
        <4>4. QED
          BY <2>1, <2>2, <3>1, <4>2, <4>3 DEF One, Overused
      <3>2. CASE ~Overused(x)
        BY <2>1, <2>3, <3>2 DEF NextIteration, UpdateNodesCost
      <3>3. QED
        BY <3>1, <3>2
    <2>4. CASE ~NextIteration
      <3>1. hist' = hist
        BY <2>4 DEF Next, SkipNet, RipUp, Commit, Unroutable, Succeed, Returned, vars
      <3>2. QED
        BY <2>1, <3>1
    <2>5. QED
      BY <2>3, <2>4
  <1>2. Spec => [][Earned]_vars
    BY <1>1, Inductive, PTL DEF Spec
  <1>3. QED
    BY <1>2 DEF HistoryIsEarned
=============================================================================
