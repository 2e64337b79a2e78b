------------------------------- MODULE Floorplan -------------------------------
(***************************************************************************)
(* The placer's floorplan: the initial placement of Floorplan::init_place, *)
(* the random exchange of swap_insts with its three sets of rules (single  *)
(* sites, LUT6 pairs, carry chains), its acceptance or undoing by          *)
(* maintain, and the table of positions a carry chain may move to.         *)
(*                                                                         *)
(* The device is its tiles with a SLICE site; the objects of the other     *)
(* site types are of the kind "SITE" as well and meet no macro.  rand() is *)
(* a nondeterministic choice and the cost decides nothing: any exchange    *)
(* may be accepted or refused.                                             *)
(***************************************************************************)
EXTENDS Inference

CONSTANTS
    Inst,        \* the instances of the netlist
    Netlists,    \* the designs to try, as in Inference
    NULL         \* nullptr

ASSUME NullAssumption == NULL \notin Inst

(* A device: the tiles with a SLICE lie below the top row, which is one of *)
(* IOBs, and each carry chain of a tile takes the slices after those of    *)
(* the one before it.                                                      *)
RegularDevice(d) ==
    LET size == Len(d.chains[1])
    IN  /\ d.rows \in Nat /\ d.cols \in Nat /\ d.slices \in Nat
        /\ d.botRow \in 0..(d.rows - 1)
        /\ d.tiles \subseteq (1..(d.rows - 1)) \X (0..(d.cols - 1))
        /\ d.chains \in Seq(Seq(Nat)) /\ d.chains # <<>> /\ size > 0
        /\ Len(d.chains) * size <= d.slices
        /\ \A x \in DOMAIN d.chains : d.chains[x] = [k \in 1..size |-> (x - 1) * size + k - 1]

ASSUME DeviceAssumption ==
    \A d \in Netlists :
        /\ RegularDevice(d.device)
        /\ NULL \notin d.device.tiles \X (0..(d.device.slices - 1))

VARIABLES
    nl,      \* the design with its swap objects, in the order of init_place; its
             \* minRlim, a bound, is the smallest range limit to try (1 in the
             \* code); never changed
    slot,    \* Site::_occ_insts
    occ,     \* Site::_occ
    avail,   \* Site::_available_pos
    pos,     \* PLCInstance::_curr_logic_pos, and with it _curr_loc_site
    past,    \* _past_logic_pos of the instances of the exchange in flight
    objs,    \* NLInfo::_swap_objs
    qual,    \* SwapObject::_qualified_pos: the rows, per chain, column and z
    rlim,    \* the range limit
    phase,   \* where the annealing is
    next,    \* the next object that init_place places
    from,    \* from_obj
    swaps    \* from_insts and to_insts, as pairs

vars == <<nl, slot, occ, avail, pos, past, objs, qual, rlim, phase, next, from, swaps>>

(* The device: <<row, column>> of the tiles with a SLICE site, their       *)
(* Tile::phy_pos(), device_scale(), ROW_OF_BOT_CENTER_TILE,                *)
(* NUM_SLICE_PER_TILE and, per chain of a tile, its z positions.           *)
Tile       == nl.device.tiles
PhyPos     == nl.device.phyPos
Rows       == nl.device.rows
Cols       == nl.device.cols
BotRow     == nl.device.botRow
NumSlices  == nl.device.slices
CarryChain == nl.device.chains

Z == 0..(NumSlices - 1)

Pos == Tile \X Z

CarryIndex == DOMAIN CarryChain

CarrySize == Len(CarryChain[1])

Column == 0..(Cols - 1)

MaxRlim == IF Rows > Cols THEN Rows ELSE Cols

-----------------------------------------------------------------------------
TypeOf(o) == nl.objects[o].type

InstsOf(o) == nl.objects[o].insts

ChainObjects == {o \in DOMAIN nl.objects : TypeOf(o) = "CARRY_CHAIN"}

IsFixed(i) == i \in DOMAIN nl.cst

(* PLCInstance::swapable_type of a placed instance *)
SwapType(i) ==
    IF \E o \in DOMAIN nl.objects : i \in ElemsOf(InstsOf(o))
      THEN TypeOf(CHOOSE o \in DOMAIN nl.objects : i \in ElemsOf(InstsOf(o)))
      ELSE "SITE"

IsMacro(i) == SwapType(i) # "SITE"

Occupants(t) == {slot[<<t, z>>] : z \in Z} \ {NULL}

HasFixed(t) == \E i \in Occupants(t) : IsFixed(i)

(* Site::macro_type: that of the lowest slot with a macro. *)
MacroType(t) ==
    LET zs == {z \in Z : slot[<<t, z>>] # NULL /\ IsMacro(slot[<<t, z>>])}
    IN  IF zs = {} THEN "SITE" ELSE SwapType(slot[<<t, Lowest(zs)>>])

(* Site::get_unocc_z_pos *)
UnoccZ(t) == Lowest({z \in Z : slot[<<t, z>>] = NULL})

BaseTile(o) == pos[InstsOf(o)[1]][1]
-----------------------------------------------------------------------------
(* The run that find_init_pos_for_carrychain finds in a column: the lowest *)
(* one of length len over the z positions of the first carry chain, if the *)
(* column has a SLICE in the bottom row.                                   *)
InitRun(col, len) ==
    LET zs == CarryChain[1]
        free(r) == Lowest({m \in 0..Len(zs) :
                             m = Len(zs) \/ slot[<<<<r, col>>, zs[m + 1]>>] # NULL})
        cells(r, m) == [k \in 1..m |-> <<<<r, col>>, zs[k]>>]
        run[k \in 0..(BotRow + 1)] ==
            IF k = 0 THEN <<>>
            ELSE LET s == run[k - 1]
                     r == BotRow - k + 1
                 IN  IF Len(s) >= len \/ <<r, col>> \notin Tile THEN s
                     ELSE IF Len(s) + free(r) >= len THEN s \o cells(r, len - Len(s))
                     ELSE IF free(r) = Len(zs) THEN s \o cells(r, free(r))
                     ELSE <<>>
    IN  IF <<BotRow, col>> \in Tile /\ Len(run[BotRow + 1]) = len
          THEN run[BotRow + 1] ELSE <<>>

(* The instances of sequence is are put on the positions ps. *)
PutOn(is, ps) ==
    /\ slot' = [p \in Pos |-> IF \E k \in DOMAIN ps : ps[k] = p
                                THEN is[CHOOSE k \in DOMAIN ps : ps[k] = p] ELSE slot[p]]
    /\ pos' = [i \in Inst |-> IF \E k \in DOMAIN is : is[k] = i
                                THEN ps[CHOOSE k \in DOMAIN is : is[k] = i] ELSE pos[i]]
    /\ past' = pos'
    /\ objs' = objs \cup {next}
    /\ next' = next + 1
    /\ UNCHANGED <<nl, avail, qual, rlim, phase, from, swaps>>

(* The design with what the placer infers from it. *)
Prepared(d) ==
    [device |-> d.device, insts |-> d.insts, cst |-> d.cst, nets |-> d.nets,
     minRlim |-> d.minRlim, mode |-> d.mode, objects |-> Objects(d),
     ignored |-> {n \in DOMAIN d.nets : Ignored(d.nets[n])},
     connected |-> [n \in DOMAIN d.nets |-> ConnectedInsts(d.nets[n])]]

(* A design has nothing else. *)
ASSUME FieldsAssumption ==
    \A d \in Netlists : DOMAIN d \subseteq {"device", "insts", "cst", "nets", "minRlim", "mode"}

(* What the packer and the wires of the device make of the nets: a net     *)
(* from a COUT or an F5 pin goes to one CIN or F5IN pin of another slice,  *)
(* the two slices of an F5 net fill a tile and are on no carry net.  Of    *)
(* these no constraint fixes one: the code does not look.                  *)
TidyNets(d) ==
    LET used    == ElemsOf(d.insts)
        pair(k) == {Owner(d.nets[k], "F5"), Owner(d.nets[k], "F5IN")}
        pairs   == {k \in DOMAIN d.nets : Joins(d.nets[k], "F5", "F5IN")}
    IN  /\ d.insts \in Seq(Inst) /\ DOMAIN d.cst \subseteq used
        /\ \A j, k \in DOMAIN d.insts : d.insts[j] = d.insts[k] => j = k
        /\ d.nets \in Seq([pins : Seq([inst : used, name : STRING, source : BOOLEAN]),
                            type : STRING, port : BOOLEAN])
        /\ \A n \in ElemsOf(d.nets) : \A name \in {"COUT", "CIN", "F5", "F5IN"} :
              \A j, k \in Named(n, name) : n.pins[j].inst = n.pins[k].inst
        /\ \A j, k \in CarryNets(d) :
              CoutOf(d, j) = CoutOf(d, k) \/ CinOf(d, j) = CinOf(d, k) => j = k
        /\ \A k \in pairs :
              /\ Owner(d.nets[k], "F5") # Owner(d.nets[k], "F5IN")
              /\ \A j \in pairs : pair(j) \cap pair(k) # {} => j = k
              /\ pair(k) \cap (Nodes(d) \cup DOMAIN d.cst) = {}
              /\ d.device.slices = 2

ASSUME NetsAssumption == \A d \in Netlists : TidyNets(d)

(* One of the ASSERTs before the first object is placed. *)
IsIllegal == IllegalConstraint(nl) \/ IllegalChain(nl)

(* check_and_save_cst has put the constrained instances on their places.   *)
Init ==
    /\ \E d \in Netlists : nl = Prepared(d)
    /\ pos = [i \in Inst |-> IF IsFixed(i) /\ ~IsIllegal THEN nl.cst[i] ELSE NULL]
    /\ slot = [p \in Pos |-> IF \E i \in Inst : pos[i] = p
                               THEN CHOOSE i \in Inst : pos[i] = p ELSE NULL]
    /\ occ = [t \in Tile |-> Cardinality({i \in Inst : pos[i] # NULL /\ pos[i][1] = t})]
    /\ past = pos
    /\ avail = [t \in Tile |-> Tile]
    /\ objs = {}
    /\ qual = [o \in ChainObjects |-> [c \in Column |-> [x \in CarryIndex |-> {}]]]
    /\ rlim = MaxRlim
    /\ phase = IF IsIllegal THEN "error" ELSE "place"
    /\ next = 1
    /\ from = 0
    /\ swaps = <<>>

Placing(type) ==
    /\ phase = "place"
    /\ next \in DOMAIN nl.objects
    /\ TypeOf(next) = type

(* An ASSERT fires. *)
Fail ==
    /\ phase' = "error"
    /\ UNCHANGED <<nl, slot, occ, avail, pos, past, objs, qual, rlim, next, from, swaps>>

(* init_place_carrychain, in any column that has room; the code alternates *)
(* around the middle one and comes to every column.                        *)
PlaceChain ==
    /\ Placing("CARRY_CHAIN")
    /\ \E c \in Column :
         LET run == InitRun(c, Len(InstsOf(next)))
         IN  /\ run # <<>>
             /\ PutOn(InstsOf(next), run)
             /\ occ' = [t \in Tile |->
                          occ[t] + Cardinality({k \in DOMAIN run : run[k][1] = t})]

PlaceChainFails ==
    /\ Placing("CARRY_CHAIN")
    /\ \A c \in Column : InitRun(c, Len(InstsOf(next))) = <<>>
    /\ Fail

(* init_place_lut6: on any empty tile. *)
PlaceLut6 ==
    /\ Placing("LUT6")
    /\ \E t \in Tile :
         /\ occ[t] = 0
         /\ PutOn(InstsOf(next), <<<<t, 0>>, <<t, 1>>>>)
         /\ occ' = [occ EXCEPT ![t] = NumSlices]

(* There is no empty tile: the do-while loop of init_place_lut6 never ends. *)
PlaceLut6Hangs ==
    /\ Placing("LUT6")
    /\ \A t \in Tile : occ[t] # 0
    /\ UNCHANGED vars

(* init_place_site: on the first free slot of any tile with room. *)
PlaceSite ==
    /\ Placing("SITE")
    /\ \E t \in Tile :
         /\ occ[t] < NumSlices
         /\ PutOn(InstsOf(next), <<<<t, UnoccZ(t)>>>>)
         /\ occ' = [occ EXCEPT ![t] = @ + 1]

(* "NOT enough resource to place this design." *)
PlaceSiteFails ==
    /\ Placing("SITE")
    /\ \A t \in Tile : occ[t] >= NumSlices
    /\ Fail
-----------------------------------------------------------------------------
(* Where the members of a chain go from row r and slot z of column c on,   *)
(* upwards over the tiles with a SLICE.  It is shorter than the chain where *)
(* the column ends.                                                        *)
ChainCells(len, r, c, z) ==
    LET grow[k \in 0..(r + 1)] ==
            IF k = 0 THEN <<>>
            ELSE LET s == grow[k - 1]
                     t == <<r - k + 1, c>>
                     m == Lowest({CarrySize, len - Len(s)})
                 IN  IF t \in Tile THEN s \o [j \in 1..m |-> <<t, z + j - 1>>] ELSE s
    IN  grow[r + 1]

(* update_qualified_pos_for_carrychain for one column and carry index: the *)
(* scan from the bottom row, which collects the starts of a run of slots   *)
(* without macro and fixed instances and hands out, when the run ends,     *)
(* those that leave room for len slots.  sl is _occ_insts.                 *)
Scan(sl, len, c, x) ==
    LET zs      == CarryChain[x]
        open(r) == Lowest({m \in 0..Len(zs) :
                             \/ m = Len(zs)
                             \/ LET i == sl[<<<<r, c>>, zs[m + 1]>>]
                                IN  i # NULL /\ (IsMacro(i) \/ IsFixed(i))})
        given(st) ==
            {st.starts[k] : k \in {j \in DOMAIN st.starts :
                                     st.length - (j - 1) * CarrySize >= len}}
        flushed(st) == [length |-> 0, starts |-> <<>>, rows |-> st.rows \cup given(st)]
        after[k \in 0..Rows] ==
            IF k = 0 THEN [length |-> 0, starts |-> <<>>, rows |-> {}]
            ELSE LET st == after[k - 1]
                     r  == Rows - k
                 IN  IF <<r, c>> \notin Tile
                       THEN IF r > 0 THEN st ELSE flushed(st)
                       ELSE LET m   == open(r)
                                st2 == [st EXCEPT !.length = @ + m,
                                                  !.starts = IF m > 0 THEN Append(@, r) ELSE @]
                            IN  IF m = Len(zs) THEN st2 ELSE flushed(st2)
    IN  after[Rows].rows

(* The table with the entries of the pairs A recomputed. *)
Requalified(sl, A) ==
    [o \in ChainObjects |-> [c \in Column |-> [x \in CarryIndex |->
        IF <<c, x>> \in A THEN Scan(sl, Len(InstsOf(o)), c, x) ELSE qual[o][c][x]]]]

(* The last step of init_place.  A design of fixed instances only needs no *)
(* annealing.                                                              *)
StartAnnealing ==
    /\ phase = "place"
    /\ next \notin DOMAIN nl.objects
    /\ qual' = Requalified(slot, Column \X CarryIndex)
    /\ phase' = IF objs = {} THEN "done" ELSE "idle"
    /\ UNCHANGED <<nl, slot, occ, avail, pos, past, objs, rlim, next, from, swaps>>
-----------------------------------------------------------------------------
Abs(i) == IF i < 0 THEN -i ELSE i

InReach(t, u) ==
    /\ Abs(PhyPos[t].x - PhyPos[u].x) <= rlim
    /\ Abs(PhyPos[t].y - PhyPos[u].y) <= rlim
    /\ t # u

(* Mutant of SiteVerdict: a LUT6 pair may come where a chain is. *)
SiteVerdictAny(o, u) ==
    LET fixed == Cardinality({i \in Occupants(u) : IsFixed(i)})
    IN  IF ~InReach(BaseTile(o), u) THEN "pop"
        ELSE IF fixed < NumSlices THEN "take" ELSE "pop"

(* What the rules say of tile u for object o: "take" it, "pop" it off the  *)
(* available positions for good, or leave it ("keep").                     *)
SiteVerdict(o, u) ==
    LET t      == BaseTile(o)
        fixed  == Cardinality({i \in Occupants(u) : IsFixed(i)})
        chains == Cardinality({i \in Occupants(u) :
                                 ~IsFixed(i) /\ SwapType(i) = "CARRY_CHAIN"})
    IN  IF MacroType(u) = "LUT6" /\ (MacroType(t) = "CARRY_CHAIN" \/ HasFixed(t)) THEN "keep"
        ELSE IF ~InReach(t, u) THEN "pop"
        ELSE IF fixed + chains < NumSlices THEN "take"
        ELSE IF fixed >= NumSlices \/ chains >= NumSlices THEN "pop"
        ELSE "keep"

Lut6Verdict(o, u) ==
    IF HasFixed(u) THEN "keep"
    ELSE IF MacroType(u) # "CARRY_CHAIN" /\ InReach(BaseTile(o), u) THEN "take"
    ELSE "pop"

(* The carry indices whose qualified positions hold tile u. *)
QualifiedAt(o, u) == {x \in CarryIndex : u[1] \in qual[o][u[2]][x]}

(* Mutant of ChainVerdict: an unqualified tile is refused without popping it. *)
ChainVerdictKeeps(o, u) ==
    IF QualifiedAt(o, u) = {} THEN "keep"
    ELSE IF InReach(BaseTile(o), u) THEN "take" ELSE "pop"

ChainVerdict(o, u) ==
    IF QualifiedAt(o, u) # {} /\ InReach(BaseTile(o), u) THEN "take" ELSE "pop"

Verdict(o, u) ==
    CASE TypeOf(o) = "SITE"        -> SiteVerdict(o, u)
      [] TypeOf(o) = "LUT6"        -> Lut6Verdict(o, u)
      [] TypeOf(o) = "CARRY_CHAIN" -> ChainVerdict(o, u)

(* A pair of an exchange: from goes from a to b, to the other way. *)
Pair(f, t, a, b) == [from |-> f, to |-> t, a |-> a, b |-> b]

(* A whole tile changes places with another one. *)
TileExchange(t, u) ==
    [k \in 1..NumSlices |-> Pair(slot[<<t, k - 1>>], slot[<<u, k - 1>>],
                                 <<t, k - 1>>, <<u, k - 1>>)]

(* The exchanges that swap_insts_for_site may make with tile u. *)
SiteExchanges(o, u) ==
    LET i == InstsOf(o)[1]
    IN  CASE MacroType(u) = "SITE" ->
               (IF occ[u] < NumSlices
                  THEN {<<Pair(i, NULL, pos[i], <<u, UnoccZ(u)>>)>>} ELSE {})
               \cup {<<Pair(i, j, pos[i], pos[j])>> : j \in {k \in Occupants(u) : ~IsFixed(k)}}
          [] MacroType(u) = "LUT6" -> {TileExchange(BaseTile(o), u)}
          [] MacroType(u) = "CARRY_CHAIN" ->
               LET z == Lowest({y \in Z : \/ slot[<<u, y>>] = NULL
                                          \/ SwapType(slot[<<u, y>>]) # "CARRY_CHAIN"})
               IN  {<<Pair(i, slot[<<u, z>>], pos[i], <<u, z>>)>>}

(* The one exchange of swap_insts_for_carrychain. *)
ChainExchange(o, u) ==
    LET is == InstsOf(o)
        cs == ChainCells(Len(is), u[1], u[2], (Lowest(QualifiedAt(o, u)) - 1) * CarrySize)
    IN  [k \in DOMAIN is |-> Pair(is[k], slot[cs[k]], pos[is[k]], cs[k])]

Exchanges(o, u) ==
    CASE TypeOf(o) = "SITE"        -> SiteExchanges(o, u)
      [] TypeOf(o) = "LUT6"        -> {TileExchange(BaseTile(o), u)}
      [] TypeOf(o) = "CARRY_CHAIN" -> {ChainExchange(o, u)}
-----------------------------------------------------------------------------
(* swap_insts begins with any object: another one when the last has been   *)
(* given up ("pick").                                                      *)
PickObject ==
    /\ phase \in {"idle", "pick"}
    /\ from' \in objs
    /\ phase' = "find"
    /\ UNCHANGED <<nl, slot, occ, avail, pos, past, objs, qual, rlim, next, swaps>>

(* All objects are given up: rand() % 0. *)
NoObject ==
    /\ phase \in {"idle", "pick"}
    /\ objs = {}
    /\ phase' = "trap"
    /\ UNCHANGED <<nl, slot, occ, avail, pos, past, objs, qual, rlim, next, from, swaps>>

(* The object's tile has no position left to try. *)
GiveUp ==
    /\ phase = "find"
    /\ avail[BaseTile(from)] = {}
    /\ objs' = objs \ {from}
    /\ from' = 0
    /\ phase' = "pick"
    /\ UNCHANGED <<nl, slot, occ, avail, pos, past, qual, rlim, next, swaps>>

(* A position is drawn and the rules refuse it. *)
Refuse ==
    /\ phase = "find"
    /\ \E u \in avail[BaseTile(from)] :
         \/ /\ Verdict(from, u) = "pop"
            /\ avail' = [avail EXCEPT ![BaseTile(from)] = @ \ {u}]
         \/ Verdict(from, u) = "keep" /\ UNCHANGED avail
    /\ UNCHANGED <<nl, slot, occ, pos, past, objs, qual, rlim, phase, next, from, swaps>>

(* A position is taken: the instances get their new positions. *)
Exchange ==
    /\ phase = "find"
    /\ \E u \in avail[BaseTile(from)] :
         /\ Verdict(from, u) = "take"
         /\ \E ex \in Exchanges(from, u) :
              /\ swaps' = [k \in DOMAIN ex |-> [from |-> ex[k].from, to |-> ex[k].to]]
              /\ pos' = [i \in Inst |->
                   IF \E k \in DOMAIN ex : ex[k].from = i
                     THEN ex[CHOOSE k \in DOMAIN ex : ex[k].from = i].b
                     ELSE IF \E k \in DOMAIN ex : ex[k].to = i
                       THEN ex[CHOOSE k \in DOMAIN ex : ex[k].to = i].a
                       ELSE pos[i]]
    /\ phase' = "decide"
    /\ UNCHANGED <<nl, slot, occ, avail, past, objs, qual, rlim, next, from>>

InFlight(i) == \E k \in DOMAIN swaps : i \in {swaps[k].from, swaps[k].to}

(* pos_from and pos_to of maintain, for pair k. *)
PosFrom(k) == IF swaps[k].from # NULL THEN past[swaps[k].from] ELSE pos[swaps[k].to]

PosTo(k) == IF swaps[k].from # NULL THEN pos[swaps[k].from] ELSE past[swaps[k].to]

(* The slots once maintain has written the pairs, one after the other. *)
Settled ==
    LET after[k \in 0..Len(swaps)] ==
            IF k = 0 THEN slot
            ELSE [after[k - 1] EXCEPT ![PosFrom(k)] = swaps[k].to, ![PosTo(k)] = swaps[k].from]
    IN  after[Len(swaps)]

(* Mutant of Losses: only the tile that gains an instance is counted. *)
LossesForgotten(t) == {}

(* The pairs by which tile t gains an instance, and those by which it      *)
(* loses one: only where the other side of the pair was empty.             *)
Gains(t) == {k \in DOMAIN swaps : \/ swaps[k].to = NULL /\ PosTo(k)[1] = t
                                  \/ swaps[k].from = NULL /\ PosFrom(k)[1] = t}

Losses(t) == {k \in DOMAIN swaps : \/ swaps[k].to = NULL /\ PosFrom(k)[1] = t
                                   \/ swaps[k].from = NULL /\ PosTo(k)[1] = t}

(* Mutant of Affected: the z position is taken for the carry index. *)
AffectedByZ ==
    UNION {{<<past[i][1][2], past[i][2] + 1>>, <<pos[i][1][2], pos[i][2] + 1>>}
             : i \in {j \in Inst : InFlight(j)}}

(* The columns and carry indices an exchange touches: those the instances  *)
(* come from and those they go to.                                         *)
Affected ==
    UNION {{<<past[i][1][2], past[i][2] \div CarrySize + 1>>,
            <<pos[i][1][2], pos[i][2] \div CarrySize + 1>>} : i \in {j \in Inst : InFlight(j)}}

EndSwap ==
    /\ past' = pos'
    /\ from' = 0
    /\ swaps' = <<>>
    /\ phase' = "idle"
    /\ UNCHANGED <<nl, avail, objs, rlim, next>>

(* maintain(true): the exchange is kept. *)
Keep ==
    /\ phase = "decide"
    /\ slot' = Settled
    /\ occ' = [t \in Tile |-> occ[t] + Cardinality(Gains(t)) - Cardinality(Losses(t))]
    /\ qual' = Requalified(slot', Affected)
    /\ UNCHANGED pos
    /\ EndSwap

(* maintain(false): the instances get their past positions back. *)
Undo ==
    /\ phase = "decide"
    /\ pos' = [i \in Inst |-> IF InFlight(i) THEN past[i] ELSE pos[i]]
    /\ EndSwap
    /\ UNCHANGED <<slot, occ, qual>>

(* SAPlacer::update_rlim between two swaps: the limit, here its integer    *)
(* part, is multiplied by the success rate plus .56 and kept inside        *)
(* 1..MaxRlim (here nl.minRlim..MaxRlim).                                  *)
NextTemperature ==
    /\ phase = "idle"
    /\ rlim' \in {r \in nl.minRlim..MaxRlim : (56 * rlim) \div 100 <= r /\ 100 * r < 156 * (rlim + 1)}
    /\ UNCHANGED <<nl, slot, occ, avail, pos, past, objs, qual, phase, next, from, swaps>>

(* The annealing is over and check_place compares all positions. *)
Finish ==
    /\ phase = "idle"
    /\ phase' = IF \E i, j \in Inst : i # j /\ pos[i] # NULL /\ pos[i] = pos[j]
                  THEN "error" ELSE "done"
    /\ UNCHANGED <<nl, slot, occ, avail, pos, past, objs, qual, rlim, next, from, swaps>>

(* The placer has returned or been stopped. *)
Stopped == phase \in {"done", "error", "trap"} /\ UNCHANGED vars

Next ==
    \/ PlaceChain
    \/ PlaceChainFails
    \/ PlaceLut6
    \/ PlaceLut6Hangs
    \/ PlaceSite
    \/ PlaceSiteFails
    \/ StartAnnealing
    \/ PickObject
    \/ NoObject
    \/ GiveUp
    \/ Refuse
    \/ Exchange
    \/ Keep
    \/ Undo
    \/ NextTemperature
    \/ Finish
    \/ Stopped

Spec == Init /\ [][Next]_vars
-----------------------------------------------------------------------------
(* The placement that is in force: an exchange counts when it is kept. *)
Placed == IF phase = "decide" THEN past ELSE pos

P == INSTANCE Placement WITH design <- nl, place <- Placed

(* The two halves of the bookkeeping agree, whatever was exchanged and     *)
(* undone before: the slots of the tiles hold the instances that think     *)
(* they are there, and the occupancy counters count them.                  *)
SlotsAgree ==
    /\ \A p \in Pos : slot[p] # NULL => Placed[slot[p]] = p
    /\ \A i \in Inst : Placed[i] # NULL => slot[Placed[i]] = i
    /\ \A t \in Tile : occ[t] = Cardinality(Occupants(t))

(* Reference: a chain of len members fits on the slots from row r up.      *)
Fits(len, r, c, x) ==
    LET cs == ChainCells(len, r, c, (x - 1) * CarrySize)
    IN  /\ <<r, c>> \in Tile
        /\ Len(cs) = len
        /\ \A k \in DOMAIN cs :
             slot[cs[k]] = NULL \/ ~(IsMacro(slot[cs[k]]) \/ IsFixed(slot[cs[k]]))

(* The table of qualified positions, of which a kept exchange recomputes   *)
(* only the columns it touched, is never stale, and the scan that fills it *)
(* finds exactly the starts from which the whole chain fits.               *)
QualCurrent ==
    phase \notin {"place", "error"} =>
        \A o \in ChainObjects : \A c \in Column : \A x \in CarryIndex :
            qual[o][c][x] = {r \in 0..(Rows - 1) : Fits(Len(InstsOf(o)), r, c, x)}

(* All that the placer keeps beside the positions of the instances is what *)
(* the positions make it: slots, occupancy and the table for the chains.   *)
BookkeepingAgrees == SlotsAgree /\ QualCurrent

(* The placement is legal as long as the annealing runs: constraints, one  *)
(* instance per slot, what the carry and F5 nets of the design ask of the  *)
(* slices they join, and an undone exchange leaves nothing behind.         *)
StaysLegal == P!Spec

(* The rules take every position they draw for object o, or pop it: always *)
(* for a chain, for a pair if no slice is constrained, and for a single    *)
(* slice if besides the design has not both chains and pairs.              *)
PopsWhatItRefuses(o) ==
    \/ TypeOf(o) = "CARRY_CHAIN"
    \/ /\ nl.cst = [i \in {} |-> NULL]
       /\ TypeOf(o) = "LUT6" \/ ~ \E p, q \in DOMAIN nl.objects : /\ TypeOf(p) = "CARRY_CHAIN"
                                                                /\ TypeOf(q) = "LUT6"

(* find_to comes to an end for every object of which the rules leave no    *)
(* position both refused and available: it takes a position or runs out of *)
(* them and gives the object up.  For the others it need not: what is left *)
(* to a pair may be tiles with a constrained slice, and to a single slice  *)
(* beside a chain or a constrained slice the tile of a pair.               *)
FindEnds ==
    phase = "find" /\ PopsWhatItRefuses(from) ~> phase # "find"
=============================================================================
