-------------------------------- MODULE Matcher --------------------------------
(***************************************************************************)
(* The matcher of the packer (src/packing NetlistCSP.cpp, CSP_Struct.cpp): *)
(* every object of a rule's graph is a variable, every object of the       *)
(* design's graph a value, and a backjumping search finds the embeddings.  *)
(* A query gives the domain of one variable from the value of another;     *)
(* what an instance of a match may still be used for is kept in locks.     *)
(*                                                                         *)
(* The lists of the graph are in the order of their construction; a domain *)
(* is a set here and its values are tried in any order.                    *)
(***************************************************************************)
EXTENDS CellGraph

CONSTANT None

VARIABLES
    top,    \* the design with its graph
    locks,  \* instances locked for the rules, and for the queries, of a layer
    csp     \* the solver

Objects(c) == {Node(i) : i \in c.nodes} \cup DOMAIN c.arcs

Vars == Objects(csp.rule.cell)

Arcs == DOMAIN csp.rule.cell.arcs

-----------------------------------------------------------------------------
(* Type queries.                                                           *)

NodeFits(r, v, o) ==
    /\ r.cell.type[v.inst] = top.type[o.inst]
    /\ \A p \in ConnectPins(r.cell, v.inst) : <<o.inst, p>> \in Hooked(top)

SinksFit(r, v, o) ==
    LET want == r.cell.pure[v.net]
        have == top.pure[o.net]
    IN  CASE SinkNumType(r.cell, v.net) = "EQUAL" -> want = have
          [] SinkNumType(r.cell, v.net) = "MORE" -> want < have
          [] SinkNumType(r.cell, v.net) = "NOT_LESS" -> want <= have

ArcJoins(r, v, o) ==
    /\ r.cell.type[v.src[1]] = top.type[o.src[1]]
    /\ r.cell.type[v.tar] = top.type[o.tar]
    /\ v.src[2] = o.src[2]
    /\ r.cell.arcs[v] \subseteq top.arcs[o]

ArcFits(r, v, o) == ArcJoins(r, v, o) /\ SinksFit(r, v, o)

TypeFits(r, v, o) ==
    /\ v.kind = o.kind
    /\ IF v.kind = "node" THEN NodeFits(r, v, o) ELSE ArcFits(r, v, o)

LayerLocked(o) == o.kind = "node" /\ o.inst \in locks.layer

(* Mutant of RuleLocked: the lock is not looked at. *)
LockIgnored(o) == FALSE

RuleLocked(o) == o.kind = "node" /\ o.inst \in locks.rule

TypeQuery(r) ==
    [v \in Objects(r.cell) |-> {o \in Objects(top) : ~LayerLocked(o) /\ TypeFits(r, v, o)}]

-----------------------------------------------------------------------------
(* The search strategy: breadth first from the variable with the fewest    *)
(* candidates, each variable by the query that promises the fewest values. *)

OutArcs(i) == {a \in DOMAIN top.arcs : a.src[1] = i}

InArcs(i) == {a \in DOMAIN top.arcs : a.tar = i}

(* The average of a function from a set of nodes to their degrees. *)
Average(degree) ==
    IF degree = <<>> THEN 0 ELSE SumFunction(degree) \div Cardinality(DOMAIN degree)

Query(k, s, v) == [kind |-> k, src |-> s, tar |-> v]

QuerySize(tq, q) ==
    CASE q.kind = "type" -> Cardinality(tq[q.tar])
      [] q.kind \in {"source", "target"} -> 1
      [] q.kind = "outgoing" -> Average([o \in tq[q.src] |-> Cardinality(OutArcs(o.inst))])
      [] q.kind = "incoming" -> Average([o \in tq[q.src] |-> Cardinality(InArcs(o.inst))])

IncomingQueries(arcs, v) ==
    <<Query("type", None, v)>> \o
    IF v.kind = "arc"
    THEN <<Query("outgoing", Node(v.src[1]), v), Query("incoming", Node(v.tar), v)>>
    ELSE FoldLeft(LAMBDA qs, a :
                      qs \o (IF a.src[1] = v.inst THEN <<Query("source", a, v)>> ELSE <<>>)
                         \o (IF a.tar = v.inst THEN <<Query("target", a, v)>> ELSE <<>>),
                  <<>>, arcs)

BestQuery(tq, arcs, v, known) ==
    LET qs == SelectSeq(IncomingQueries(arcs, v), LAMBDA q : q.src \in known \cup {None})
        better(i, j) == \/ QuerySize(tq, qs[i]) < QuerySize(tq, qs[j])
                        \/ QuerySize(tq, qs[i]) = QuerySize(tq, qs[j]) /\ i <= j
    IN  qs[CHOOSE i \in DOMAIN qs : \A j \in DOMAIN qs : better(i, j)]

(* unique_list::insert: behind what is not larger, once. *)
InsertBySize(tq, list, v) ==
    IF v \in ToSet(list) THEN list
    ELSE LET ahead == Cardinality({i \in DOMAIN list : Cardinality(tq[list[i]]) <= Cardinality(tq[v])})
         IN  InsertAt(list, ahead + 1, v)

(* The variables that share a source or target constraint with v. *)
Neighbours(arcs, v) ==
    IF v.kind = "arc" THEN <<Node(v.src[1]), Node(v.tar)>>
    ELSE SelectSeq(arcs, LAMBDA a : a.src[1] = v.inst \/ a.tar = v.inst)

ReachVar(tq, arcs, st, v) ==
    LET left == SelectSeq(st.left, LAMBDA u : u # v)
        near == SelectSeq(Neighbours(arcs, v), LAMBDA u : u \in ToSet(left))
    IN  [queries |-> Append(st.queries, BestQuery(tq, arcs, v, {q.tar : q \in ToSet(st.queries)})),
         left    |-> left,
         reached |-> FoldLeft(LAMBDA l, u : InsertBySize(tq, l, u), st.reached, near)]

RECURSIVE BreadthFirst(_, _, _)
BreadthFirst(tq, arcs, st) ==
    IF st.left = <<>> THEN st.queries
    ELSE LET level == IF st.reached = <<>> THEN <<Head(st.left)>> ELSE st.reached
         IN  BreadthFirst(tq, arcs, FoldLeft(LAMBDA s, v : ReachVar(tq, arcs, s, v),
                                             [st EXCEPT !.reached = <<>>], level))

SearchStrategy(r, tq) ==
    LET arcs == SetToSeq(DOMAIN r.cell.arcs)
        objects == SetToSeq({Node(i) : i \in r.cell.nodes}) \o arcs
    IN  BreadthFirst(tq, arcs, [queries |-> <<>>, reached |-> <<>>,
            left |-> FoldLeft(LAMBDA l, v : InsertBySize(tq, l, v), <<>>, objects)])

-----------------------------------------------------------------------------
(* Queries and constraints.                                                *)

Executed(q) ==
    LET from == csp.inst[q.src]
    IN  CASE q.kind = "type" -> csp.tq[q.tar]
          [] q.kind = "source" -> {Node(from.src[1])}
          [] q.kind = "target" -> {Node(from.tar)}
          [] q.kind = "outgoing" -> OutArcs(from.inst) \cap csp.tq[q.tar]
          [] q.kind = "incoming" -> InArcs(from.inst) \cap csp.tq[q.tar]

Appliable(q) == csp.inst[q.tar] = None /\ (q.src # None => csp.inst[q.src] # None)

TiedPins(r, tie, first, second) ==
    {<<first, p>> : p \in InputSinks(r.cell, tie.port, tie.first)} \cup
    {<<second, p>> : p \in InputSinks(r.cell, tie.port, tie.second)}

(* Pins a rule ties are on one net, or all on none. *)
OnOneNet(S) ==
    \/ S \cap Hooked(top) = {}
    \/ S \subseteq Hooked(top) /\ \A p, q \in S : top.net[p] = top.net[q]

ArcConflicts(v, o) ==
    {u \in {Node(v.src[1])} : csp.inst[u] # None /\ csp.inst[u] # Node(o.src[1])} \cup
    {u \in {Node(v.tar)} : csp.inst[u] # None /\ csp.inst[u] # Node(o.tar)}

NodeConflicts(v, o) ==
    {a \in Arcs : csp.inst[a] # None /\
        \/ a.src[1] = v.inst /\ csp.inst[a].src[1] # o.inst
        \/ a.tar = v.inst /\ csp.inst[a].tar # o.inst}
    \cup {Node(tie.second) : tie \in {tie \in CommonNets(csp.rule.cell) :
            /\ tie.first = v.inst
            /\ csp.inst[Node(tie.second)] # None
            /\ ~OnOneNet(TiedPins(csp.rule, tie, o.inst, csp.inst[Node(tie.second)].inst))}}
    \cup {Node(tie.first) : tie \in {tie \in CommonNets(csp.rule.cell) :
            /\ tie.second = v.inst
            /\ csp.inst[Node(tie.first)] # None
            /\ ~OnOneNet(TiedPins(csp.rule, tie, csp.inst[Node(tie.first)].inst, o.inst))}}

Conflicts(v, o) == IF v.kind = "arc" THEN ArcConflicts(v, o) ELSE NodeConflicts(v, o)

-----------------------------------------------------------------------------
(* The search.                                                             *)

CurVar == csp.queries[csp.cur].tar

QueryOrder(v) == CHOOSE i \in DOMAIN csp.queries : csp.queries[i].tar = v

Earliest(S) == CHOOSE v \in S : \A u \in S : QueryOrder(v) <= QueryOrder(u)

Latest(S) == CHOOSE v \in S : \A u \in S : QueryOrder(v) >= QueryOrder(u)

(* The variables from the k-th query to the current one lose their values. *)
Undone(k) ==
    LET gone == {csp.queries[i].tar : i \in k .. csp.cur}
    IN  [csp EXCEPT !.cur = k,
                    !.inst = [v \in Vars |-> IF v \in gone THEN None ELSE @[v]],
                    !.inj = Without(@, {csp.inst[v] : v \in gone}),
                    !.status = "instantiate", !.dir = "up"]

StartSolve(r) ==
    LET tq == TypeQuery(r)
    IN  csp' = [status |-> "next", rule |-> r, tq |-> tq, queries |-> SearchStrategy(r, tq),
                cur |-> 0, dir |-> "down",
                inst |-> [v \in Objects(r.cell) |-> None],
                dom |-> [v \in Objects(r.cell) |-> {}],
                inj |-> [o \in {} |-> None], back |-> {}, found |-> <<>>]

NextQuery ==
    /\ csp.status = "next"
    /\ csp' = IF csp.cur = Len(csp.queries) THEN [csp EXCEPT !.status = "success", !.dir = "down"]
              ELSE LET q == csp.queries[csp.cur + 1]
                   IN  IF ~Appliable(q)
                       THEN [csp EXCEPT !.cur = @ + 1, !.status = "done", !.dir = "down"]
                       ELSE [csp EXCEPT !.cur = @ + 1, !.dir = "down",
                                        !.dom = [@ EXCEPT ![q.tar] = Executed(q)],
                                        !.back = {q.src} \ {None},
                                        !.status = "instantiate"]
    /\ UNCHANGED <<top, locks>>

(* Mutant of Blamed: where the domain came from is forgotten. *)
BlamedAlone(S) == IF csp.dir = "down" THEN S ELSE csp.back

(* Only a search that came down keeps what it may jump back to. *)
Blamed(S) == IF csp.dir = "down" THEN csp.back \cup S ELSE csp.back

BlamedConflict(S) == Blamed({Earliest(S)})

Instantiate ==
    /\ csp.status = "instantiate"
    /\ \E o \in csp.dom[CurVar] :
        LET v == CurVar
            rest == [csp EXCEPT !.dom = [@ EXCEPT ![v] = @ \ {o}]]
        IN  csp' = CASE RuleLocked(o) -> rest
                     [] ~RuleLocked(o) /\ o \in DOMAIN csp.inj ->
                            [rest EXCEPT !.back = Blamed({csp.inj[o]})]
                     [] ~RuleLocked(o) /\ o \notin DOMAIN csp.inj /\ Conflicts(v, o) = {} ->
                            [rest EXCEPT !.inst = [@ EXCEPT ![v] = o], !.inj = (o :> v) @@ @,
                                         !.status = "next"]
                     [] OTHER ->
                            [rest EXCEPT !.inst = [@ EXCEPT ![v] = o],
                                         !.back = BlamedConflict(Conflicts(v, o))]
    /\ UNCHANGED <<top, locks>>

Exhausted ==
    /\ csp.status = "instantiate"
    /\ csp.dom[CurVar] = {}
    /\ csp' = [csp EXCEPT !.status = IF csp.dir = "down" THEN "back_jump" ELSE "back"]
    /\ UNCHANGED <<top, locks>>

Back ==
    /\ csp.status = "back"
    /\ csp' = IF csp.cur > 1 THEN Undone(csp.cur - 1) ELSE [csp EXCEPT !.status = "done", !.dir = "up"]
    /\ UNCHANGED <<top, locks>>

BackJump ==
    /\ csp.status = "back_jump"
    /\ csp' = IF csp.back = {} THEN [csp EXCEPT !.status = "done", !.dir = "up"]
              ELSE Undone(QueryOrder(Latest(csp.back)))
    /\ UNCHANGED <<top, locks>>

(* save_amatch: the next match starts at the earliest variable just locked. *)
Success ==
    /\ csp.status = "success"
    /\ LET insts == csp.rule.cell.nodes
           amatch == [i \in insts |-> csp.inst[Node(i)].inst]
           locked == {i \in insts : csp.rule.lock[i]}
           from == IF locked = {} THEN csp.cur ELSE QueryOrder(Earliest({Node(i) : i \in locked}))
       IN  /\ locks' = [rule  |-> locks.rule \cup {amatch[i] : i \in locked},
                        layer |-> locks.layer \cup {amatch[i] : i \in insts}]
           /\ csp' = [Undone(from) EXCEPT !.found = Append(@, amatch)]
    /\ UNCHANGED top

SolveStep == NextQuery \/ Instantiate \/ Exhausted \/ Back \/ BackJump \/ Success

-----------------------------------------------------------------------------
(* What a match is.                                                        *)

(* The design joins the images as the rule joins its instances. *)
Joined(r, m) ==
    /\ \A i, j \in r.cell.nodes : m[i] = m[j] => i = j
    /\ \A i \in r.cell.nodes : m[i] \in top.nodes /\ r.cell.type[i] = top.type[m[i]]
    /\ \A a \in DOMAIN r.cell.arcs : \E o \in DOMAIN top.arcs :
           o.src[1] = m[a.src[1]] /\ o.tar = m[a.tar] /\ ArcJoins(r, a, o)

IsEmbedding(r, m) ==
    /\ Joined(r, m)
    /\ \A a \in DOMAIN r.cell.arcs : \E o \in DOMAIN top.arcs :
           o.src[1] = m[a.src[1]] /\ o.tar = m[a.tar] /\ ArcFits(r, a, o)
    /\ \A tie \in CommonNets(r.cell) : OnOneNet(TiedPins(r, tie, m[tie.first], m[tie.second]))
=============================================================================
