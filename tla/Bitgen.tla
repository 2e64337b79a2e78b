-------------------------------- MODULE Bitgen --------------------------------
(***************************************************************************)
(* The bit stream generator (src/bitgen).  The default image of every tile *)
(* type is built from the configuration library, the configurations and    *)
(* pips of the circuit are turned into bits of their tiles, bits that      *)
(* physically lie in a neighbour are handed over tile by tile, the images  *)
(* are built and cut into frames and words.  The commands of the library   *)
(* write the stream: a header says which register of the device the next   *)
(* words are for, and how many they are.                                   *)
(*                                                                         *)
(* Names of sites, elements, functions, srams, wires and tile types are    *)
(* opaque; a type's sram is [cell, offset, owner]: the place in the bit    *)
(* array, the distance to the tile that holds it, and that tile's type.    *)
(* The widths of the code (32 bits a word, 48 rows padded to 80, memories  *)
(* of 320 rows) are parameters.                                            *)
(***************************************************************************)
EXTENDS Integers, FiniteSets, SequencesExt

CONSTANTS
    Designs,        \* the devices with their circuits: see MCBitgen
    WordBits,       \* bits of a word of the stream
    HexBits,        \* bits a hexadecimal truth table has
    ShortRows,      \* height of a tile the 80K decoder wants padded ...
    FrameRows,      \* ... to this height
    BramRows,       \* height of the array of a memory tile
    BramFrames,     \* its frames, one word of contents each
    ParitySlices,   \* words a parity line is spread over
    MemBase,        \* address of the memories ...
    MemStep         \* ... and their distance

ASSUME WidthAssumption ==
    {WordBits, HexBits, ShortRows, FrameRows, BramRows, BramFrames, ParitySlices, MemBase, MemStep}
        \subseteq Nat \ {0}

VARIABLES
    design,     \* the input: device, circuit and options
    phase,
    todo,       \* what the loop of the phase has not handled
    dfot,       \* per tile type: its bits and, once built, its image
    tile,       \* per tile: used, logics, routes, bits, image
    mem,        \* per memory of the 1000K: used and its list of words
    stream      \* the stream, a word a line

vars == <<design, phase, todo, dfot, tile, mem, stream>>

-----------------------------------------------------------------------------
(* The configuration library and the circuit.                              *)

Row(t) == t[1]
Col(t) == t[2]
Plus(t, o) == <<t[1] + o[1], t[2] + o[2]>>

Here == <<0, 0>>

Tiles == {<<r, c>> : r \in 0 .. design.rows - 1, c \in 0 .. design.cols - 1}

(* Reading order of the tile array. *)
TileSeq == [i \in 1 .. design.rows * design.cols |->
                <<(i - 1) \div design.cols, (i - 1) % design.cols>>]

Type(t) == design.types[design.grid[t]]

Cells(ty) == (0 .. ty.rows - 1) \X (0 .. ty.cols - 1)

(* Tile::setBitPlace. *)
Placed(ty, name, content) ==
    [cell |-> ty.srams[name].cell, offset |-> ty.srams[name].offset,
     owner |-> ty.srams[name].owner, content |-> content]

BitIf(b) == IF b THEN 1 ELSE 0

(* Variable k of an expression is bit k - 1 of the address.  A term is     *)
(* evaluated from left to right: * and @ bind equally.                     *)
FactorValue(f, addr) == f.not # ((addr \div 2 ^ (f.var - 1)) % 2 = 1)

TermValue(term, addr) ==
    FoldLeft(LAMBDA v, f : IF f.op = "and" THEN v /\ FactorValue(f, addr)
                                           ELSE v # FactorValue(f, addr),
             FactorValue(Head(term), addr), Tail(term))

(* Exp2LUT: an expression, the entries of the table from the last to the   *)
(* first, or a number.                                                     *)
TruthTable(func, size) ==
    [a \in 0 .. size - 1 |->
        CASE func.form = "expression" ->
                BitIf(\E i \in DOMAIN func.text : TermValue(func.text[i], a))
          [] func.form = "binary" -> func.text[size - a]
          [] func.form = "hex" ->
                IF a >= size - HexBits THEN (func.text \div 2 ^ (a - (size - HexBits))) % 2 ELSE 0]

(* What a configuration sets: nothing for an element or a function that    *)
(* the library does not know.                                              *)
FuncBits(ty, cfg) ==
    IF cfg.elem \notin DOMAIN ty.elems THEN {}
    ELSE LET elem == ty.elems[cfg.elem] IN
         IF cfg.func.form = "naming"
         THEN IF cfg.func.text \in DOMAIN elem.named
              THEN {Placed(ty, s.sram, s.content) : s \in elem.named[cfg.func.text]}
              ELSE {}
         ELSE LET table == TruthTable(cfg.func, Cardinality(elem.lut))
              IN {Placed(ty, s.sram, table[s.addr]) : s \in elem.lut}

(* Of several paths between two wires the last one is taken; a dummy path  *)
(* has none.                                                               *)
PipBits(ty, pip) ==
    IF <<pip.src, pip.snk>> \notin DOMAIN ty.paths THEN {}
    ELSE {Placed(ty, s.sram, s.content) : s \in Last(ty.paths[<<pip.src, pip.snk>>])}

(* dfotTileBstr::analyzeBits: the defaults of the elements' srams, the     *)
(* functions that are the default of their elements, the defaults of the   *)
(* paths.                                                                  *)
DefaultCfgs(ty) ==
    LET elems == SetToSeq(DOMAIN ty.defaultFuncs)
    IN  [i \in DOMAIN elems |-> [elem |-> elems[i], func |-> ty.defaultFuncs[elems[i]]]]

LogicBits(ty, cfgs) == FlattenSeq([i \in DOMAIN cfgs |-> SetToSeq(FuncBits(ty, cfgs[i]))])

SramBits(ty, defaults) ==
    [i \in DOMAIN defaults |-> Placed(ty, defaults[i].sram, defaults[i].content)]

DefaultBits(ty) ==
    SramBits(ty, ty.defaults) \o LogicBits(ty, DefaultCfgs(ty)) \o SramBits(ty, ty.pathDefaults)

(* cfgInst::constructFromXML: a switched off configuration is no one. *)
IsUsed(cfg) == ~(cfg.func.form = "naming" /\ cfg.func.text = "#OFF")

(* Pads of the system on chip get their input delay set. *)
ForSopc(cfg) ==
    IF design.sopc /\ cfg.elem = "IDELMUX" /\ cfg.tile \in design.sopcTiles
    THEN [cfg EXCEPT !.func.text = "sopc"]
    ELSE cfg

IsInit(cfg) == cfg.elem \in {"INIT", "INITP"}

-----------------------------------------------------------------------------
NewTile == [used |-> FALSE, logics |-> <<>>, routes |-> <<>>, bits |-> <<>>, image |-> <<>>]

NewMem == [used |-> FALSE, words |-> [i \in 1 .. design.memWords |-> "zero"]]

Init ==
    /\ design \in Designs
    /\ phase = "dfot_regulate"
    /\ todo = SetToSeq(DOMAIN design.types)
    /\ dfot = [n \in DOMAIN design.types |->
                 [bits |-> DefaultBits(design.types[n]), image |-> <<>>]]
    /\ tile = [t \in Tiles |-> NewTile]
    /\ mem = [t \in Range(design.mems) |-> NewMem]
    /\ stream = <<>>

(* The default bits of a type that lie in another type go to that type's   *)
(* array.                                                                  *)
DfotRegulate ==
    /\ phase = "dfot_regulate" /\ todo # <<>>
    /\ LET n       == Head(todo)
           lodgers == SelectSeq(dfot[n].bits, LAMBDA b : b.owner # n)
           own     == SelectSeq(dfot[n].bits, LAMBDA b : b.owner = n)
       IN dfot' = [m \in DOMAIN dfot |->
                     [dfot[m] EXCEPT !.bits =
                        (IF m = n THEN own ELSE @)
                        \o SelectSeq(lodgers, LAMBDA b : b.owner = m)]]
    /\ todo' = Tail(todo)
    /\ UNCHANGED <<design, phase, tile, mem, stream>>

(* A bit array from its ground and bits; of two bits on a cell the later   *)
(* one stays.                                                              *)
Built(ground, bits) == FoldLeft(LAMBDA im, b : [im EXCEPT ![b.cell] = b.content], ground, bits)

Ground(n) == IF design.device = "FDP500KIP" /\ n = "BRAMSITE" THEN 0 ELSE 1

DfotBuild ==
    /\ phase = "dfot_regulate" /\ todo = <<>>
    /\ dfot' = [n \in DOMAIN dfot |->
                  [dfot[n] EXCEPT !.image =
                     Built([c \in Cells(design.types[n]) |-> Ground(n)], dfot[n].bits)]]
    /\ phase' = "cfgs"
    /\ todo' = SelectSeq(design.cfgs, IsUsed)
    /\ UNCHANGED <<design, tile, mem, stream>>

(* The 80K keeps the contents of a memory in the bit array of its tile,    *)
(* one bit line per bit of a word, and the parity bits of several words in *)
(* one line.  The array starts as zeros.                                   *)
BlankArray(t) == [c \in Cells(Type(t)) |-> 0]

ContentsAt(cfg) ==
    LET lines == Len(cfg.func.text) IN
    IF cfg.elem = "INIT"
    THEN [c \in {<<design.lines[i], cfg.index>> : i \in 1 .. lines} |->
            cfg.func.text[CHOOSE i \in 1 .. lines : design.lines[i] = c[1]]]
    ELSE LET width == lines \div ParitySlices
             At(i, k) == <<design.parityLines[i], cfg.index * ParitySlices + k>>
         IN [c \in {At(i, k) : i \in 1 .. width, k \in 0 .. ParitySlices - 1} |->
               LET i == CHOOSE j \in 1 .. width : design.parityLines[j] = c[1]
                   k == c[2] - cfg.index * ParitySlices
               IN cfg.func.text[i + k * width]]

WithContents(t, cfg) ==
    LET array == IF tile[t].image = <<>> THEN BlankArray(t) ELSE tile[t].image
        at    == ContentsAt(cfg)
    IN [c \in DOMAIN array |-> IF c \in DOMAIN at THEN at[c] ELSE array[c]]

(* The 1000K shifts the words of a line into the list of the memory, the   *)
(* last word first, whatever the index of the line.                        *)
Shifted(m, cfg) ==
    [used  |-> TRUE,
     words |-> SubSeq(m.words, Len(cfg.func.text) + 1, Len(m.words)) \o Reverse(cfg.func.text)]

RecordCfg ==
    /\ phase = "cfgs" /\ todo # <<>>
    /\ LET cfg == Head(todo)
           t   == cfg.tile
       IN CASE ~IsInit(cfg) ->
                  /\ tile' = [tile EXCEPT ![t].used = TRUE, ![t].logics = Append(@, ForSopc(cfg))]
                  /\ UNCHANGED mem
            [] IsInit(cfg) /\ design.device # "FDP1000K" ->
                  /\ tile' = [tile EXCEPT ![t].used = TRUE, ![t].image = WithContents(t, cfg)]
                  /\ UNCHANGED mem
            [] IsInit(cfg) /\ design.device = "FDP1000K" ->
                  /\ tile' = [tile EXCEPT ![t].used = TRUE]
                  /\ mem' = [mem EXCEPT ![t] = Shifted(@, cfg)]
    /\ todo' = Tail(todo)
    /\ UNCHANGED <<design, phase, dfot, stream>>

RecordPips ==
    /\ phase = "cfgs" /\ todo = <<>>
    /\ tile' = [t \in Tiles |->
                  LET mine == SelectSeq(design.pips, LAMBDA p : p.tile = t)
                  IN [tile[t] EXCEPT !.used = @ \/ mine # <<>>, !.routes = mine]]
    /\ phase' = "analyze"
    /\ UNCHANGED <<design, todo, dfot, mem, stream>>

(* Logic first, then routes. *)
Analyze ==
    /\ phase = "analyze"
    /\ tile' = [t \in Tiles |->
                  [tile[t] EXCEPT !.bits =
                     LogicBits(Type(t), tile[t].logics)
                     \o FlattenSeq([i \in DOMAIN tile[t].routes |->
                                   SetToSeq(PipBits(Type(t), tile[t].routes[i]))])]]
    /\ phase' = "regulate"
    /\ todo' = TileSeq
    /\ UNCHANGED <<design, dfot, mem, stream>>

(* The tile with index i hands over its bits with an offset, and is used   *)
(* no more when it has no others, a memory tile excepted.                  *)
Lodgers(t) == SelectSeq(tile[t].bits, LAMBDA b : b.offset # Here)

OwnBits(t) == SelectSeq(tile[t].bits, LAMBDA b : b.offset = Here)

HandsOver(t) == tile[t].used /\ Lodgers(t) # <<>>

(* Mutant: a tile that handed bits over is used no more. *)
StaysUsedByHeight(t) == Type(t).rows = BramRows

StaysUsed(t) == OwnBits(t) # <<>> \/ Type(t).rows = BramRows

(* Mutant: the offset is kept. *)
AtHomeWithOffset(b) == b

AtHome(b) == [b EXCEPT !.offset = Here]

GivenTo(t, u) ==
    LET bs == SelectSeq(Lodgers(t), LAMBDA b : Plus(t, b.offset) = u)
    IN [i \in DOMAIN bs |-> AtHome(bs[i])]

RegulateTile ==
    /\ phase = "regulate" /\ todo # <<>>
    /\ LET t == Head(todo) IN
       /\ HandsOver(t) => \A b \in Range(Lodgers(t)) : Plus(t, b.offset) \in Tiles
       /\ tile' = IF ~HandsOver(t) THEN tile
                  ELSE [u \in Tiles |->
                          IF u = t THEN [tile[t] EXCEPT !.bits = OwnBits(t), !.used = StaysUsed(t)]
                          ELSE [tile[u] EXCEPT !.bits = @ \o GivenTo(t, u),
                                               !.used = @ \/ GivenTo(t, u) # <<>>]]
    /\ todo' = Tail(todo)
    /\ UNCHANGED <<design, phase, dfot, mem, stream>>

(* "Row of tile out of range after handle offset" *)
RegulateFails ==
    /\ phase = "regulate" /\ todo # <<>>
    /\ HandsOver(Head(todo))
    /\ \E b \in Range(Lodgers(Head(todo))) : Plus(Head(todo), b.offset) \notin Tiles
    /\ phase' = "failed"
    /\ UNCHANGED <<design, todo, dfot, tile, mem, stream>>

(* An array that already holds memory contents is left as it is. *)
Build ==
    /\ phase = "regulate" /\ todo = <<>>
    /\ tile' = [t \in Tiles |->
                  IF tile[t].used /\ tile[t].image = <<>>
                  THEN [tile[t] EXCEPT !.image = Built(dfot[design.grid[t]].image, tile[t].bits)]
                  ELSE tile[t]]
    /\ phase' = "commands"
    /\ todo' = design.commands
    /\ UNCHANGED <<design, dfot, mem, stream>>

-----------------------------------------------------------------------------
(* Frames and words.                                                       *)

(* The 80K wants a short tile padded with zeros, the 500K with ones. *)
PadBit == IF design.device = "FDP80K" THEN 0 ELSE 1

Pads(t) == design.device # "FDP1000K" /\ Type(t).rows = ShortRows

TileFrame(t, f) ==
    LET image == IF tile[t].used THEN tile[t].image ELSE dfot[design.grid[t]].image IN
    [i \in 1 .. Type(t).rows |-> image[<<i - 1, f>>]]
    \o (IF Pads(t) THEN [i \in 1 .. FrameRows - ShortRows |-> PadBit] ELSE <<>>)

ColumnFrame(c, f) == FlattenSeq([r \in 1 .. design.rows |-> TileFrame(<<r - 1, c>>, f)])

(* Every group of bits is turned round. *)
Reversed(bits) ==
    LET g == design.group IN
    [k \in DOMAIN bits |-> bits[((k - 1) \div g) * g + g - ((k - 1) % g)]]

Adjusted(bits) ==
    IF Len(bits) % WordBits = 0 THEN bits
    ELSE bits \o [i \in 1 .. WordBits - (Len(bits) % WordBits) |-> design.initial]

ToWord(bits, w) ==
    FoldLeft(LAMBDA word, b : 2 * word + b, 0, SubSeq(bits, w * WordBits + 1, (w + 1) * WordBits))

FrameWords(c, f) ==
    LET bits == Adjusted(Reversed(ColumnFrame(c, f)))
    IN [w \in 1 .. Len(bits) \div WordBits |-> ToWord(bits, w - 1)]

MajorWords(m) == FlattenSeq([f \in 1 .. m.frames |-> FrameWords(m.col, f - 1)])

(* A partial stream has the majors of one column only. *)
IsWritten(m) == design.partial < 0 \/ m.col = design.partial

-----------------------------------------------------------------------------
(* The commands.  Registers are opaque names.                              *)

Word(v) == [kind |-> "word", value |-> v]

Words(vs) == [i \in DOMAIN vs |-> Word(vs[i])]

(* "0000_0000" *)
Blank == Word("zero")

Blanks(n) == [i \in 1 .. n |-> Blank]

(* A write of one word, and of a long run into the frame data register. *)
WriteReg(reg, v) == <<[kind |-> "write", reg |-> reg, count |-> 1], Word(v)>>

MapOutFDRI(n) == <<[kind |-> "write", reg |-> "FDRI", count |-> 0], [kind |-> "burst", count |-> n]>>

BsHeader == Blanks(6)

Register ==
    [insertCMD |-> "CMD", setOption |-> "COR", shapeMask |-> "MASK", appointCTL |-> "CTL"]

MountSMFA(addr) == WriteReg("FAR", addr * 2 ^ design.majorShift)

MountBMFA(addr) == WriteReg("FAR", MemBase + addr * MemStep)

NormalTiles ==
    LET majors == SelectSeq(design.majors, IsWritten)
    IN  FlattenSeq([i \in DOMAIN majors |->
            MountSMFA(majors[i].addr)
            \o MapOutFDRI(Len(MajorWords(majors[i]))) \o Words(MajorWords(majors[i]))])

(* An unused memory gets the default words. *)
MemContents(t) == IF mem[t].used THEN mem[t].words ELSE NewMem.words

WriteMem ==
    FlattenSeq([i \in DOMAIN design.mems |->
        MountBMFA(i)
        \o MapOutFDRI(Len(MemContents(design.mems[i])) + design.wordsShift)
        \o Words(MemContents(design.mems[i])) \o Blanks(design.fillBlank)])

CommandWords(c) ==
    CASE c.cmd = "bsHeader"        -> BsHeader
      [] c.cmd = "adjustSYNC"      -> Words(<<c.arg, c.arg>>)
      [] c.cmd \in DOMAIN Register -> WriteReg(Register[c.cmd], c.arg)
      [] c.cmd = "setFRMLen"       -> WriteReg("FLR", design.frmLen)
      [] c.cmd = "dummy"           -> WriteReg("FAR", 0)
      [] c.cmd = "writeNomalTiles" -> NormalTiles
      [] c.cmd = "writeMem"        -> WriteMem
      [] OTHER                     -> <<>>

WriteCommand ==
    /\ phase = "commands" /\ todo # <<>>
    /\ stream' = stream \o CommandWords(Head(todo))
    /\ todo' = Tail(todo)
    /\ UNCHANGED <<design, phase, dfot, tile, mem>>

Export ==
    /\ phase = "commands" /\ todo = <<>>
    /\ phase' = "done"
    /\ UNCHANGED <<design, todo, dfot, tile, mem, stream>>

Finished == phase \in {"done", "failed"} /\ UNCHANGED vars

Next ==
    \/ DfotRegulate
    \/ DfotBuild
    \/ RecordCfg
    \/ RecordPips
    \/ Analyze
    \/ RegulateTile
    \/ RegulateFails
    \/ Build
    \/ WriteCommand
    \/ Export
    \/ Finished

Spec == Init /\ [][Next]_vars

-----------------------------------------------------------------------------
(* What the design asks for, said of physical cells: a configuration with  *)
(* a table means the function its author had in mind (meaning).            *)

Asked(ty, cfg) ==
    IF cfg.func.form = "naming"
    THEN {[sram |-> s.sram, content |-> s.content] : s \in ty.elems[cfg.elem].named[cfg.func.text]}
    ELSE {[sram |-> s.sram, content |-> cfg.func.meaning[s.addr]] : s \in ty.elems[cfg.elem].lut}

IsKnown(cfg) ==
    LET ty == Type(cfg.tile) IN
    /\ IsUsed(cfg) /\ ~IsInit(cfg)
    /\ cfg.elem \in DOMAIN ty.elems
    /\ cfg.func.form = "naming" => cfg.func.text \in DOMAIN ty.elems[cfg.elem].named

AskedPip(ty, pip) ==
    IF <<pip.src, pip.snk>> \in DOMAIN ty.paths THEN Last(ty.paths[<<pip.src, pip.snk>>]) ELSE {}

Physical(t, s) ==
    [tile |-> Plus(t, Type(t).srams[s.sram].offset), cell |-> Type(t).srams[s.sram].cell,
     content |-> s.content]

Wanted ==
    UNION {{Physical(cfg.tile, s) : s \in Asked(Type(cfg.tile), cfg)}
             : cfg \in {ForSopc(c) : c \in {d \in Range(design.cfgs) : IsKnown(d)}}}
    \cup UNION {{Physical(p.tile, s) : s \in AskedPip(Type(p.tile), p)} : p \in Range(design.pips)}

(* The one content of a set of contents, or a default. *)
TheOr(S, default) == IF S = {} THEN default ELSE CHOOSE x \in S : TRUE

(* A path's default before a function's before an element's. *)
DefaultOf(n, cell) ==
    LET in(S(_)) == UNION {{d.content : d \in {e \in S(ty) :
                              LET s == ty.srams[e.sram] IN s.owner = n /\ s.cell = cell}}
                             : ty \in Range(design.types)}
        funcs(ty) == UNION {Asked(ty, c) : c \in Range(DefaultCfgs(ty))}
    IN  TheOr(in(LAMBDA ty : Range(ty.pathDefaults)),
              TheOr(in(funcs), TheOr(in(LAMBDA ty : Range(ty.defaults)), Ground(n))))

Contents(t) == {c \in Range(design.cfgs) : c.tile = t /\ IsInit(c)}

(* Bit b of line i of the contents is in frame i of its bit line; a parity *)
(* line holds ParitySlices words of consecutive bits.                      *)
ContentBits(t, cell) ==
    {c.func.text[b] : <<c, b>> \in
        {<<c, b>> \in Contents(t) \X (1 .. Len(design.lines)) :
            LET width == Len(design.lines) \div ParitySlices IN
            cell = IF c.elem = "INIT" THEN <<design.lines[b], c.index>>
                   ELSE <<design.parityLines[((b - 1) % width) + 1],
                          c.index * ParitySlices + ((b - 1) \div width)>>}}

ExpectedBit(t, cell, wanted) ==
    IF design.device # "FDP1000K" /\ Contents(t) # {}
    THEN TheOr(ContentBits(t, cell), 0)
    ELSE TheOr({w.content : w \in {v \in wanted : v.tile = t /\ v.cell = cell}},
               DefaultOf(design.grid[t], cell))

(* How the device reads a packet: frame after frame, each in whole words,  *)
(* most significant bit first, groups turned round, the rows of the column *)
(* from the top, short tiles as high as the decoder wants them.            *)
Height(t) == IF Pads(t) THEN FrameRows ELSE Type(t).rows

Above(t) == FoldFunction(LAMBDA h, sum : h + sum, 0,
                         [r \in 0 .. Row(t) - 1 |-> Height(<<r, Col(t)>>)])

BitOnDevice(words, t, i, f) ==
    LET pos   == Above(t) + i
        bit   == (pos \div design.group) * design.group + design.group - 1 - (pos % design.group)
        last  == <<design.rows - 1, Col(t)>>
        frame == (Above(last) + Height(last) + WordBits - 1) \div WordBits
    IN (words[f * frame + (bit \div WordBits) + 1] \div 2 ^ (WordBits - 1 - (bit % WordBits))) % 2

(* The device reads word after word: the next left words are for register  *)
(* reg; frame data go where the address register says.  It is in step as   *)
(* long as no header is read as data.                                      *)
Reset ==
    [reg |-> "none", left |-> 0, words |-> <<>>, far |-> 0, loaded |-> <<>>, inStep |-> TRUE]

Taken(st) ==
    CASE st.reg = "FAR"  -> [st EXCEPT !.far = st.words[1]]
      [] st.reg = "FDRI" -> [st EXCEPT !.loaded = Append(@, [far |-> st.far, words |-> st.words])]
      [] OTHER           -> st

Reads(st, w) ==
    CASE st.left > 0 /\ w.kind = "word" ->
            LET s == [st EXCEPT !.left = @ - 1, !.words = Append(@, w.value)]
            IN  IF s.left = 0 THEN Taken(s) ELSE s
      [] st.left > 0 /\ w.kind # "word"  -> [st EXCEPT !.inStep = FALSE]
      [] st.left = 0 /\ w.kind = "word"  -> st
      [] st.left = 0 /\ w.kind = "write" -> [st EXCEPT !.reg = w.reg, !.left = w.count, !.words = <<>>]
      [] st.left = 0 /\ w.kind = "burst" -> [st EXCEPT !.left = w.count, !.words = <<>>]

Device == FoldLeft(Reads, Reset, stream)

PacketsOf(device, m) == {p \in Range(device.loaded) : p.far = m.addr * 2 ^ design.majorShift}

(* The words of the lines 0, 1, ... of a memory, in that order. *)
InOrder(t) ==
    LET lines == SelectSeq(design.cfgs, LAMBDA c : c.tile = t /\ IsInit(c)) IN
    /\ \A i \in DOMAIN lines : lines[i].index = i - 1
    /\ Len(FlattenSeq([i \in DOMAIN lines |-> lines[i].func.text])) = design.memWords

(* A memory of the 1000K whose lines all come, in the order of their
   indices, is loaded with them, the last word of each line first; one
   without lines with zeros (cktMemBstr::addMemContents, which shifts
   whatever comes). *)
MemoriesHoldContents(device) ==
    \A i \in DOMAIN design.mems :
        LET t     == design.mems[i]
            lines == SelectSeq(design.cfgs, LAMBDA c : c.tile = t /\ IsInit(c))
        IN \E p \in Range(device.loaded) : LET words == SubSeq(p.words, 1, design.memWords) IN
           /\ p.far = MemBase + i * MemStep
           /\ InOrder(t) =>
                words = FlattenSeq([k \in DOMAIN lines |-> Reverse(lines[k].func.text)])
           /\ lines = <<>> => Range(words) = {"zero"}

(***************************************************************************)
(* End to end: the device that reads the finished stream word by word      *)
(* never takes a header for data nor data for a header, and every          *)
(* configuration cell it loads has what the configurations and pips of the *)
(* circuit ask for it, wherever the tile that owns the configuration lies  *)
(* and in whatever order the tiles are regulated; any other cell has its   *)
(* default, and a memory tile its contents.  A partial stream loads one    *)
(* column only.  (cktTileLibBstr, cktTileBstr, dfotTileLibBstr,            *)
(* CMDLoader.)  And the memories hold theirs.                              *)
(***************************************************************************)
StreamIsDesign ==
    phase = "done" =>
        LET wanted == Wanted
            device == Device
        IN
        /\ device.inStep /\ device.left = 0
        /\ MemoriesHoldContents(device)
        /\ \A m \in Range(design.majors) :
            IF ~IsWritten(m) THEN PacketsOf(device, m) = {}
            ELSE \E p \in PacketsOf(device, m) :
                    /\ PacketsOf(device, m) = {p}
                    /\ \A r \in 0 .. design.rows - 1 : LET t == <<r, m.col>> IN
                         \A cell \in Cells(Type(t)) :
                            BitOnDevice(p.words, t, cell[1], cell[2]) = ExpectedBit(t, cell, wanted)

(***************************************************************************)
(* While tile after tile hands over the bits that lie in a neighbour, a    *)
(* bit is never lost, doubled or moved twice, also when it arrives in a    *)
(* tile that is yet to be handled or has been handled already.             *)
(* (cktTileLibBstr::regulate.)                                             *)
(***************************************************************************)
BitsStayInPlace ==
    phase \in {"regulate", "commands", "done"} =>
        LET wanted == Wanted IN
        /\ wanted = UNION {{[tile |-> Plus(t, b.offset), cell |-> b.cell, content |-> b.content]
                              : b \in Range(tile[t].bits)} : t \in Tiles}
        /\ Cardinality(wanted) = FoldFunction(LAMBDA bits, sum : Len(bits) + sum, 0,
                                              [t \in Tiles |-> tile[t].bits])
=============================================================================
