----------------------------- MODULE Placer_proofs -----------------------------
(***************************************************************************)
(* What the placer keeps beside the positions of the instances is what the *)
(* positions make it, on every device and for every design: the slots, the *)
(* occupancy counters and the table of the positions for carry chains; and *)
(* the placement stays legal: it refines Placement.                        *)
(***************************************************************************)
EXTENDS Placer, Induction, SequenceTheorems

(* The device: its tiles lie in its rows and columns, none in the top row  *)
(* (on FDP devices that of the upper IOBs), and carry chain x takes the    *)
(* x-th group of CarrySize slices of a tile; nullptr is no position.       *)
DeviceFits ==
    /\ NULL \notin Pos
    /\ Rows \in Nat /\ Cols \in Nat /\ NumSlices \in Nat /\ BotRow \in 0..(Rows - 1)
    /\ Tile \subseteq (0..(Rows - 1)) \X (0..(Cols - 1))
    /\ \A c \in Column : <<0, c>> \notin Tile
    /\ Len(CarryChain) \in Nat \ {0} /\ CarryIndex = 1..Len(CarryChain)
    /\ CarrySize \in Nat \ {0}
    /\ Len(CarryChain) * CarrySize <= NumSlices
    /\ \A x \in CarryIndex :
         /\ Len(CarryChain[x]) = CarrySize
         /\ \A k \in 1..CarrySize : CarryChain[x][k] = (x - 1) * CarrySize + k - 1

(* The swap objects: every instance belongs to one of them at most, once,  *)
(* and no constrained instance does; a pair has two members and fills a    *)
(* tile, a single slice is alone.                                          *)
ObjectsFit ==
    /\ Len(nl.objects) \in Nat /\ DOMAIN nl.objects = 1..Len(nl.objects)
    /\ \A o \in DOMAIN nl.objects :
         /\ TypeOf(o) \in {"CARRY_CHAIN", "LUT6", "SITE"}
         /\ InstsOf(o) \in Seq(Inst) /\ InstsOf(o) # <<>>
         /\ \A k \in DOMAIN InstsOf(o) : ~IsFixed(InstsOf(o)[k])
         /\ \A j, k \in DOMAIN InstsOf(o) : InstsOf(o)[j] = InstsOf(o)[k] => j = k
         /\ TypeOf(o) = "LUT6" => Len(InstsOf(o)) = 2 /\ NumSlices = 2
         /\ TypeOf(o) = "SITE" => Len(InstsOf(o)) = 1
         /\ \A u \in DOMAIN nl.objects : \A i \in ElemsOf(InstsOf(o)) : i \in ElemsOf(InstsOf(u)) => u = o
-----------------------------------------------------------------------------
(* The least number of a set. *)
LEMMA LowestFits ==
  ASSUME NEW S, S \subseteq Nat, S # {}
  PROVE  Lowest(S) \in S /\ \A v \in S : Lowest(S) <= v
  BY LeastNat DEF Lowest

(* What dividing undoes. *)
LEMMA DivFits ==
  ASSUME NEW a \in Nat, NEW b \in Nat, b > 0, NEW e \in 0..(b - 1)
  PROVE  (a * b + e) \div b = a
  OBVIOUS

(* The slots of carry chain x, from the first one. *)
LEMMA ChainSlots ==
  ASSUME DeviceFits, NEW x \in CarryIndex
  PROVE  /\ x \in Nat /\ x >= 1
         /\ (x - 1) * CarrySize \in Nat
         /\ (x - 1) * CarrySize + CarrySize <= NumSlices
         /\ \A k \in 1..CarrySize : /\ CarryChain[x][k] = (x - 1) * CarrySize + k - 1
                                    /\ CarryChain[x][k] \in Z
                                    /\ CarryChain[x][k] \div CarrySize + 1 = x
  <1> DEFINE C == CarrySize
             L == Len(CarryChain)
             a == x - 1
  <1>1. /\ C \in Nat /\ C > 0 /\ L \in Nat /\ x \in 1..L /\ NumSlices \in Nat /\ L * C <= NumSlices
        /\ \A k \in 1..C : CarryChain[x][k] = a * C + k - 1
    BY DEF DeviceFits
  <1> HIDE DEF C, L
  <1>2. a \in Nat /\ a + 1 <= L /\ a * C \in Nat
    BY <1>1
  <1>3. (a + 1) * C <= L * C
    BY <1>1, <1>2
  <1>4. a * C + C <= NumSlices
    BY <1>1, <1>2, <1>3
  <1> HIDE DEF a
  <1>5. ASSUME NEW k \in 1..C
        PROVE  CarryChain[x][k] \in Z /\ CarryChain[x][k] \div C = a
    <2>1. CarryChain[x][k] = a * C + (k - 1) /\ k - 1 \in 0..(C - 1)
      BY <1>1, <1>2
    <2>2. (a * C + (k - 1)) \div C = a
      BY <1>1, <1>2, <2>1, DivFits
    <2>3. a * C + (k - 1) \in 0..(NumSlices - 1)
      BY <1>1, <1>2, <1>4, <2>1
    <2>4. QED
      BY <2>1, <2>2, <2>3 DEF Z
  <1>6. QED
    BY <1>1, <1>2, <1>4, <1>5 DEF C, a

-----------------------------------------------------------------------------
(* A slot of sl that a chain may take: no macro and no constrained         *)
(* instance is on it.                                                      *)
IsOpen(sl, p) == ~(sl[p] # NULL /\ (IsMacro(sl[p]) \/ IsFixed(sl[p])))

(* How many slots of chain x are open in row r, from its first one.        *)
OpenIn(sl, r, c, x) ==
    Lowest({m \in 0..CarrySize : m = CarrySize \/ ~IsOpen(sl, <<<<r, c>>, CarryChain[x][m + 1]>>)})

(* How many slots of chain x are open in row r, from its first one. *)
LEMMA OpenInFits ==
  ASSUME DeviceFits, NEW sl, NEW r, NEW c, NEW x
  PROVE  /\ OpenIn(sl, r, c, x) \in 0..CarrySize
         /\ \A j \in 1..OpenIn(sl, r, c, x) : IsOpen(sl, <<<<r, c>>, CarryChain[x][j]>>)
         /\ OpenIn(sl, r, c, x) < CarrySize =>
              ~IsOpen(sl, <<<<r, c>>, CarryChain[x][OpenIn(sl, r, c, x) + 1]>>)
  <1> DEFINE C == CarrySize
             q(m) == <<<<r, c>>, CarryChain[x][m + 1]>>
             S == {m \in 0..C : m = C \/ ~IsOpen(sl, q(m))}
             m == Lowest(S)
  <1>1. C \in Nat
    BY DEF DeviceFits
  <1> HIDE DEF C
  <1>2. S \subseteq Nat /\ C \in S
    BY <1>1
  <1>3. m \in S /\ \A v \in S : m <= v
    <2> HIDE DEF S
    <2> QED
      BY <1>2, LowestFits
  <1> HIDE DEF m, q
  <1>4. \A j \in 1..m : IsOpen(sl, q(j - 1))
    <2> TAKE j \in 1..m
    <2>1. j - 1 \in 0..C /\ j - 1 < m /\ j - 1 # C
      BY <1>1, <1>3
    <2>2. QED
      BY <1>1, <1>3, <2>1
  <1>5. m \in 0..C /\ \A j \in 1..m : (j - 1) + 1 = j
    BY <1>1, <1>3
  <1>6. \A j \in 1..m : IsOpen(sl, <<<<r, c>>, CarryChain[x][j]>>)
    BY <1>4, <1>5 DEF q
  <1>7. m < C => ~IsOpen(sl, q(m))
    BY <1>3, <1>1
  <1>8. QED
    BY <1>5, <1>6, <1>7 DEF OpenIn, m, S, q, C

(* How many slots in a row a chain finds open in a column, upwards from the *)
(* tile of a row: f[k] for row k - 1, the one above it being row k - 2.    *)
IsRoom(f, sl, c, x) ==
    /\ f \in [0..Rows -> Nat]
    /\ f[0] = 0
    /\ \A k \in 1..Rows :
         f[k] = IF <<k - 1, c>> \notin Tile THEN f[k - 1]
                ELSE IF OpenIn(sl, k - 1, c, x) = CarrySize THEN CarrySize + f[k - 1]
                ELSE OpenIn(sl, k - 1, c, x)

(* There is room of some size everywhere. *)
LEMMA RoomExists ==
  ASSUME DeviceFits, NEW sl, NEW c, NEW x
  PROVE  \E f : IsRoom(f, sl, c, x)
  <1> DEFINE Up(s, k) == IF <<k - 1, c>> \notin Tile THEN s
                         ELSE IF OpenIn(sl, k - 1, c, x) = CarrySize THEN CarrySize + s
                         ELSE OpenIn(sl, k - 1, c, x)
             G == [k \in Nat |-> [s \in Nat |-> Up(s, k)]]
  <1>1. Rows \in Nat /\ CarrySize \in Nat
    BY DEF DeviceFits
  <1>2. \A k \in Nat : OpenIn(sl, k - 1, c, x) \in Nat
    <2> TAKE k \in Nat
    <2>1. OpenIn(sl, k - 1, c, x) \in 0..CarrySize
      BY OpenInFits
    <2>2. QED
      BY <1>1, <2>1
  <1>3. \A k \in Nat : \A s \in Nat : Up(s, k) \in Nat
    BY <1>1, <1>2
  <1> HIDE DEF Up
  <1>4. G \in [Nat -> [Nat -> Nat]]
    BY <1>3
  <1>5. \E f : Iterates(f, Nat, 0, G, Rows)
    <2> HIDE DEF G
    <2> QED
      BY <1>1, <1>4, IterateExists
  <1>6. PICK f : Iterates(f, Nat, 0, G, Rows)
    BY <1>5
  <1>7. f \in [0..Rows -> Nat] /\ f[0] = 0 /\ \A k \in 1..Rows : f[k] = Up(f[k - 1], k)
    <2>1. \A k \in 1..Rows : k \in Nat /\ k - 1 \in 0..Rows
      BY <1>1
    <2>2. QED
      BY <1>6, <2>1 DEF Iterates
  <1>8. QED
    BY <1>7 DEF IsRoom, Up

-----------------------------------------------------------------------------
(* The lesser of two numbers. *)
LEMMA LesserFits ==
  ASSUME NEW a \in Int, NEW b \in Int
  PROVE  Lowest({a, b}) = IF a <= b THEN a ELSE b
  BY DEF Lowest

(* The first m slots from z on of tile t.                                  *)
CellsOf(t, z, m) == [j \in 1..m |-> <<t, z + j - 1>>]

(* The rows upwards from row r, one by one.                                *)
IsClimb(g, len, r, c, z) ==
    /\ g \in [0..(r + 1) -> {s \in Seq(Tile \X Nat) : Len(s) <= len}]
    /\ g[0] = <<>>
    /\ \A k \in 1..(r + 1) :
         g[k] = IF <<r - k + 1, c>> \notin Tile THEN g[k - 1]
                ELSE IF CarrySize <= len - Len(g[k - 1])
                  THEN g[k - 1] \o CellsOf(<<r - k + 1, c>>, z, CarrySize)
                  ELSE g[k - 1] \o CellsOf(<<r - k + 1, c>>, z, len - Len(g[k - 1]))

(* A sequence with m more elements. *)
LEMMA Lengthened ==
  ASSUME NEW W, NEW s \in Seq(W), NEW m \in Nat, NEW e \in [1..m -> W]
  PROVE  /\ s \o e \in Seq(W)
         /\ Len(s) \in Nat
         /\ Len(s \o e) = Len(s) + m
         /\ \A j \in 1..Len(s) : (s \o e)[j] = s[j]
         /\ \A j \in 1..m : (s \o e)[Len(s) + j] = e[j]
  <1>1. e \in Seq(W) /\ Len(e) = m
    OBVIOUS
  <1>2. QED
    BY <1>1

(* Slots of a tile after those that a sequence has. *)
LEMMA CellsAppended ==
  ASSUME NEW s, s \in Seq(Tile \X Nat), NEW t, t \in Tile, NEW z \in Nat, NEW m \in Nat
  PROVE  s \o CellsOf(t, z, m) \in Seq(Tile \X Nat) /\ Len(s \o CellsOf(t, z, m)) = Len(s) + m
  <1> DEFINE W == Tile \X Nat
  <1>1. PICK e : e = CellsOf(t, z, m)
    OBVIOUS
  <1>2. e \in [1..m -> W]
    BY <1>1 DEF CellsOf
  <1>3. s \in Seq(W)
    OBVIOUS
  <1> HIDE DEF W
  <1>4. s \o e \in Seq(W) /\ Len(s \o e) = Len(s) + m
    BY <1>2, <1>3, Lengthened
  <1>5. QED
    BY <1>1, <1>4 DEF W

(* What ChainCells goes through. *)
LEMMA ChainClimbs ==
  ASSUME DeviceFits, NEW len \in Nat, NEW r \in 0..(Rows - 1), NEW c, NEW z \in Nat
  PROVE  \E g : IsClimb(g, len, r, c, z) /\ ChainCells(len, r, c, z) = g[r + 1]
  <1> DEFINE N      == r + 1
             V      == {s \in Seq(Tile \X Nat) : Len(s) <= len}
             t(k)   == <<r - k + 1, c>>
             Up(s, k) == IF t(k) \in Tile
                           THEN s \o [j \in 1..Lowest({CarrySize, len - Len(s)}) |-> <<t(k), z + j - 1>>]
                           ELSE s
             G      == [k \in Nat |-> [s \in V |-> Up(s, k)]]
             Def(h) == h = [k \in 0..N |-> IF k = 0 THEN <<>> ELSE Up(h[k - 1], k)]
             h      == CHOOSE g : Def(g)
  <1>1. N \in Nat /\ CarrySize \in Nat
    BY DEF DeviceFits
  <1>2. ASSUME NEW s \in V, NEW k \in Nat
        PROVE  /\ Up(s, k) \in V
               /\ Up(s, k) = IF t(k) \notin Tile THEN s
                             ELSE IF CarrySize <= len - Len(s)
                               THEN s \o CellsOf(t(k), z, CarrySize)
                               ELSE s \o CellsOf(t(k), z, len - Len(s))
    <2> DEFINE m == Lowest({CarrySize, len - Len(s)})
    <2>1. s \in Seq(Tile \X Nat) /\ Len(s) \in Nat /\ Len(s) <= len
      OBVIOUS
    <2>2. m \in Nat /\ m <= len - Len(s) /\ m = IF CarrySize <= len - Len(s) THEN CarrySize ELSE len - Len(s)
      BY <1>1, <2>1, LesserFits
    <2>3. Up(s, k) = IF t(k) \in Tile THEN s \o CellsOf(t(k), z, m) ELSE s
      BY DEF CellsOf
    <2> HIDE DEF m, t, Up
    <2>4. ASSUME t(k) \in Tile
          PROVE  s \o CellsOf(t(k), z, m) \in V
      <3>1. PICK u : u = t(k)
        OBVIOUS
      <3>2. s \o CellsOf(u, z, m) \in Seq(Tile \X Nat) /\ Len(s \o CellsOf(u, z, m)) = Len(s) + m
        BY <2>1, <2>2, <2>4, <3>1, CellsAppended
      <3>3. Len(s) + m <= len
        BY <2>1, <2>2
      <3>4. QED
        BY <3>1, <3>2, <3>3
    <2>5. Up(s, k) \in V
      BY <2>3, <2>4
    <2>6. QED
      BY <2>2, <2>3, <2>5
  <1>3. <<>> \in V /\ \A s \in V : \A k \in Nat : Up(s, k) \in V
    <2>1. <<>> \in V
      OBVIOUS
    <2> HIDE DEF V, Up
    <2>2. QED
      BY <1>2, <2>1
  <1>4. ChainCells(len, r, c, z) = h[N]
    BY DEF ChainCells
  <1> HIDE DEF Up, N
  <1>5. G \in [Nat -> [V -> V]]
    BY <1>2
  <1>6. \E f : Iterates(f, V, <<>>, G, N)
    <2> HIDE DEF G, Def, h, V
    <2> QED
      BY <1>5, <1>3, <1>1, IterateExists
  <1>7. PICK f \in [0..N -> V] : f[0] = <<>> /\ \A k \in 1..N : f[k] = Up(f[k - 1], k)
    <2>1. \A k \in 1..N : k \in Nat /\ k - 1 \in 0..N
      BY <1>1
    <2>2. QED
      BY <1>6, <1>1, <2>1 DEF Iterates
  <1> HIDE DEF V
  <1>8. Def(f)
    <2>1. f = [k \in 0..N |-> f[k]]
      OBVIOUS
    <2>2. \A k \in 0..N : f[k] = (IF k = 0 THEN <<>> ELSE Up(f[k - 1], k))
      BY <1>7, <1>1
    <2>3. QED
      BY <2>1, <2>2
  <1>9. Def(h)
    <2> HIDE DEF Def
    <2> QED
      BY <1>8
  <1> HIDE DEF h
  <1>10. h[0] = <<>> /\ \A k \in 1..N : h[k] = Up(h[k - 1], k)
    BY <1>9, <1>1
  <1>11. \A k \in 0..N : h[k] \in V
    <2> DEFINE S == {k \in 0..N : h[k] \in V}
    <2>1. 0 \in S
      BY <1>1, <1>3, <1>10
    <2>2. ASSUME NEW k \in 1..N, k - 1 \in S
          PROVE  k \in S
      <3>1. k \in Nat /\ h[k - 1] \in V /\ h[k] = Up(h[k - 1], k)
        BY <1>1, <1>10, <2>2
      <3>2. QED
        BY <3>1, <1>1, <1>3
    <2> HIDE DEF S
    <2>3. 0..N \subseteq S
      BY <1>1, <2>1, <2>2, BoundedInduction
    <2>4. QED
      BY <2>3 DEF S
  <1>12. h \in [0..N -> V]
    BY <1>9, <1>11
  <1>13. IsClimb(h, len, r, c, z)
    <2>1. ASSUME NEW k \in 1..N
          PROVE  h[k] = IF t(k) \notin Tile THEN h[k - 1]
                        ELSE IF CarrySize <= len - Len(h[k - 1])
                          THEN h[k - 1] \o CellsOf(t(k), z, CarrySize)
                          ELSE h[k - 1] \o CellsOf(t(k), z, len - Len(h[k - 1]))
      <3>1. h[k] = Up(h[k - 1], k) /\ h[k - 1] \in V /\ k \in Nat
        BY <1>1, <1>10, <1>11
      <3>2. QED
        BY <3>1, <1>2
    <2>2. QED
      BY <1>10, <1>12, <2>1 DEF IsClimb, V, N
  <1>14. QED
    BY <1>4, <1>13 DEF N

(* q has m slots of tile t, from z on, after those of s. *)
Longer(s, q, t, z, m) ==
    /\ Len(s) \in Nat /\ m \in Nat
    /\ Len(q) = Len(s) + m
    /\ \A j \in 1..Len(s) : q[j] = s[j]
    /\ \A j \in 1..m : q[Len(s) + j] = <<t, z + j - 1>>

(* Slots put after those of a sequence make it longer.                     *)
LEMMA CellsLonger ==
  ASSUME NEW s, s \in Seq(Tile \X Nat), NEW t, t \in Tile, NEW z \in Nat, NEW m \in Nat,
         NEW q, q = s \o CellsOf(t, z, m)
  PROVE  Longer(s, q, t, z, m)
  <1> DEFINE W == Tile \X Nat
  <1>1. PICK e : e = CellsOf(t, z, m)
    OBVIOUS
  <1>2. e \in [1..m -> W] /\ \A j \in 1..m : e[j] = <<t, z + j - 1>>
    BY <1>1 DEF CellsOf
  <1>3. s \in Seq(W) /\ q = s \o e
    BY <1>1
  <1> HIDE DEF W
  <1>4. Len(s) \in Nat /\ Len(q) = Len(s) + m
    BY <1>2, <1>3, Lengthened
  <1>5. \A j \in 1..Len(s) : q[j] = s[j]
    BY <1>2, <1>3, Lengthened
  <1>6. \A j \in 1..m : q[Len(s) + j] = e[j]
    BY <1>2, <1>3, Lengthened
  <1>7. \A j \in 1..m : q[Len(s) + j] = <<t, z + j - 1>>
    BY <1>2, <1>6
  <1>8. QED
    BY <1>4, <1>5, <1>7 DEF Longer

(* A row more takes as many slots of its tile as the chain still needs. *)
LEMMA ClimbStep ==
  ASSUME DeviceFits, NEW len \in Nat, NEW r \in 0..(Rows - 1), NEW c, NEW z \in Nat,
         NEW g, IsClimb(g, len, r, c, z), NEW k \in 1..(r + 1)
  PROVE  /\ Len(g[k - 1]) \in 0..len
         /\ <<r - k + 1, c>> \notin Tile => g[k] = g[k - 1]
         /\ <<r - k + 1, c>> \in Tile =>
              \E m \in 0..CarrySize :
                 /\ Longer(g[k - 1], g[k], <<r - k + 1, c>>, z, m)
                 /\ m = IF CarrySize <= len - Len(g[k - 1]) THEN CarrySize ELSE len - Len(g[k - 1])
  <1> DEFINE s == g[k - 1]
             t == <<r - k + 1, c>>
  <1>1. k - 1 \in 0..(r + 1) /\ CarrySize \in Nat /\ Rows \in Nat
    BY DEF DeviceFits
  <1>2. s \in Seq(Tile \X Nat) /\ Len(s) \in Nat /\ Len(s) <= len
    BY <1>1 DEF IsClimb
  <1>3. g[k] = IF t \notin Tile THEN s
               ELSE IF CarrySize <= len - Len(s) THEN s \o CellsOf(t, z, CarrySize)
                                                 ELSE s \o CellsOf(t, z, len - Len(s))
    BY DEF IsClimb
  <1> HIDE DEF s, t
  <1>4. ASSUME t \in Tile
        PROVE  \E m \in 0..CarrySize :
                 /\ Longer(s, g[k], t, z, m)
                 /\ m = IF CarrySize <= len - Len(s) THEN CarrySize ELSE len - Len(s)
    <2> DEFINE m == IF CarrySize <= len - Len(s) THEN CarrySize ELSE len - Len(s)
    <2>1. m \in 0..CarrySize /\ m \in Nat
      BY <1>1, <1>2
    <2>2. g[k] = s \o CellsOf(t, z, m)
      BY <1>3, <1>4
    <2> HIDE DEF m
    <2>3. Longer(s, g[k], t, z, m)
      <3>1. s \in Seq(Tile \X Nat) /\ t \in Tile
        BY <1>2, <1>4
      <3>2. QED
        BY <2>1, <2>2, <3>1, CellsLonger
    <2>4. QED
      BY <2>1, <2>3 DEF m
  <1>5. QED
    BY <1>2, <1>3, <1>4 DEF s, t

(* The slots s lie in column c and its rows lo..hi, in the first CarrySize *)
(* slots from z on, and each is there once.                                *)
Apart(s, c, lo, hi, z) ==
    /\ \A i \in 1..Len(s) : /\ s[i] = <<<<s[i][1][1], c>>, s[i][2]>>
                            /\ s[i][1] \in Tile
                            /\ s[i][1][1] \in lo..hi
                            /\ s[i][2] \in z..(z + CarrySize - 1)
    /\ \A i, j \in 1..Len(s) : s[i] = s[j] => i = j

(* The slots of a tile further up are none of those taken so far. *)
LEMMA LongerApart ==
  ASSUME DeviceFits, NEW c, NEW lo \in Int, NEW hi \in Int, NEW z \in Nat, NEW s, Apart(s, c, lo + 1, hi, z),
         NEW q, NEW m \in 0..CarrySize, Longer(s, q, <<lo, c>>, z, m), <<lo, c>> \in Tile, lo <= hi
  PROVE  Apart(q, c, lo, hi, z)
  <1> DEFINE L == Len(s)
             C == CarrySize
  <1>1. C \in Nat
    BY DEF DeviceFits
  <1>2. /\ L \in Nat /\ Len(q) = L + m /\ m \in 0..C
        /\ \A j \in 1..L : q[j] = s[j]
        /\ \A j \in 1..m : q[L + j] = <<<<lo, c>>, z + j - 1>>
    BY DEF Longer
  <1>3. \A i \in 1..L : /\ s[i] = <<<<s[i][1][1], c>>, s[i][2]>>
                        /\ s[i][1] \in Tile
                        /\ s[i][1][1] \in (lo + 1)..hi
                        /\ s[i][2] \in z..(z + C - 1)
    BY DEF Apart
  <1>4. \A i, j \in 1..L : s[i] = s[j] => i = j
    BY DEF Apart
  <1> HIDE DEF L, C
  <1>5. ASSUME NEW i \in 1..(L + m)
        PROVE  \/ i \in 1..L /\ q[i] = s[i]
               \/ i - L \in 1..m /\ q[i] = <<<<lo, c>>, z + (i - L) - 1>>
    <2>1. CASE i <= L
      BY <1>2, <2>1
    <2>2. CASE i > L
      <3>1. i - L \in 1..m /\ L + (i - L) = i
        BY <1>2, <2>2
      <3>2. QED
        BY <1>2, <3>1
    <2>3. QED
      BY <1>2, <2>1, <2>2
  <1>6. ASSUME NEW i \in 1..(L + m)
        PROVE  /\ q[i] = <<<<q[i][1][1], c>>, q[i][2]>>
               /\ q[i][1] \in Tile
               /\ q[i][1][1] \in lo..hi
               /\ q[i][2] \in z..(z + C - 1)
    <2>1. CASE i \in 1..L /\ q[i] = s[i]
      <3>1. s[i][1][1] \in lo..hi
        BY <1>3, <2>1
      <3>2. QED
        BY <1>3, <2>1, <3>1
    <2>2. CASE i - L \in 1..m /\ q[i] = <<<<lo, c>>, z + (i - L) - 1>>
      <3>1. z + (i - L) - 1 \in z..(z + C - 1)
        BY <1>1, <1>2, <2>2
      <3>2. lo \in lo..hi
        BY <1>1
      <3>3. QED
        BY <1>1, <2>2, <3>1, <3>2
    <2>3. QED
      BY <1>5, <2>1, <2>2
  <1>7. ASSUME NEW i \in 1..(L + m), NEW j \in 1..(L + m), q[i] = q[j]
        PROVE  i = j
    <2>1. \A k \in 1..L : s[k][1][1] # lo
      BY <1>3
    <2>2. CASE i \in 1..L /\ q[i] = s[i]
      <3>1. q[j][1][1] # lo
        BY <1>7, <2>1, <2>2
      <3>2. j \in 1..L /\ q[j] = s[j]
        BY <1>5, <3>1
      <3>3. QED
        BY <1>4, <1>7, <2>2, <3>2
    <2>3. CASE i - L \in 1..m /\ q[i] = <<<<lo, c>>, z + (i - L) - 1>>
      <3>1. q[j][1][1] = lo
        BY <1>7, <2>3
      <3>2. j - L \in 1..m /\ q[j] = <<<<lo, c>>, z + (j - L) - 1>>
        BY <1>5, <2>1, <3>1
      <3>3. q[i][2] = z + (i - L) - 1 /\ q[j][2] = z + (j - L) - 1
        BY <2>3, <3>2
      <3>4. QED
        BY <1>2, <1>7, <3>3
    <2>4. QED
      BY <1>5, <2>2, <2>3
  <1>8. QED
    BY <1>2, <1>6, <1>7 DEF Apart, L, C

(* The slots that ChainCells gives.                                        *)
LEMMA CellsApart ==
  ASSUME DeviceFits, NEW len \in Nat, NEW r \in 0..(Rows - 1), NEW c, NEW z \in Nat,
         NEW g, IsClimb(g, len, r, c, z)
  PROVE  Apart(g[r + 1], c, 0, r, z)
  <1> DEFINE S == {k \in 0..(r + 1) : Apart(g[k], c, r - k + 1, r, z)}
  <1>1. Rows \in Nat /\ r \in Nat /\ r + 1 \in Nat
    BY DEF DeviceFits
  <1>2. 0 \in S
    <2>1. g[0] = <<>> /\ Len(<<>>) = 0
      BY DEF IsClimb
    <2>2. Apart(g[0], c, r - 0 + 1, r, z)
      BY <2>1 DEF Apart
    <2>3. QED
      BY <1>1, <2>2
  <1>3. ASSUME NEW k \in 1..(r + 1), k - 1 \in S
        PROVE  k \in S
    <2> DEFINE lo == r - k + 1
               t  == <<lo, c>>
    <2>1. lo \in Int /\ lo <= r /\ r - (k - 1) + 1 = lo + 1
      BY <1>1
    <2>2. Apart(g[k - 1], c, lo + 1, r, z)
      BY <1>3, <2>1
    <2>3. CASE t \notin Tile
      <3>1. g[k] = g[k - 1]
        BY <2>3, ClimbStep
      <3>2. \A v : v \in (lo + 1)..r => v \in lo..r
        BY <2>1
      <3>3. Apart(g[k], c, lo, r, z)
        BY <2>2, <3>1, <3>2 DEF Apart
      <3>4. QED
        BY <3>3
    <2>4. CASE t \in Tile
      <3>1. PICK m \in 0..CarrySize : Longer(g[k - 1], g[k], t, z, m)
        BY <2>4, ClimbStep
      <3> HIDE DEF lo
      <3>2. Apart(g[k], c, lo, r, z)
        BY <1>1, <2>1, <2>2, <2>4, <3>1, LongerApart
      <3>3. QED
        BY <3>2 DEF lo
    <2>5. QED
      BY <2>3, <2>4
  <1> HIDE DEF S
  <1>4. 0..(r + 1) \subseteq S
    BY <1>1, <1>2, <1>3, BoundedInduction
  <1>5. r + 1 \in S
    BY <1>1, <1>4
  <1>6. Apart(g[r + 1], c, r - (r + 1) + 1, r, z) /\ r - (r + 1) + 1 = 0
    BY <1>1, <1>5 DEF S
  <1>7. QED
    BY <1>6

(* The slots s can all be taken. *)
AllOpen(sl, s) == \A k \in 1..Len(s) : IsOpen(sl, s[k])

(* The slots of one more tile are open as far as its open slots go.        *)
LEMMA LongerOpen ==
  ASSUME DeviceFits, NEW sl, NEW r, NEW c, NEW x \in CarryIndex, NEW s, NEW q, NEW m \in 0..CarrySize,
         Longer(s, q, <<r, c>>, (x - 1) * CarrySize, m)
  PROVE  AllOpen(sl, q) <=> AllOpen(sl, s) /\ m <= OpenIn(sl, r, c, x)
  <1> DEFINE L == Len(s)
             C == CarrySize
             o == OpenIn(sl, r, c, x)
             p(j) == <<<<r, c>>, CarryChain[x][j]>>
  <1>1. /\ C \in Nat /\ o \in 0..C
        /\ \A j \in 1..o : IsOpen(sl, p(j))
        /\ o < C => ~IsOpen(sl, p(o + 1))
    BY OpenInFits DEF DeviceFits
  <1>2. \A j \in 1..C : CarryChain[x][j] = (x - 1) * C + j - 1
    BY ChainSlots
  <1>3. /\ L \in Nat /\ Len(q) = L + m /\ m \in 0..C
        /\ \A j \in 1..L : q[j] = s[j]
        /\ \A j \in 1..m : q[L + j] = <<<<r, c>>, (x - 1) * C + j - 1>>
    BY DEF Longer
  <1>4. \A j \in 1..m : q[L + j] = p(j)
    <2> TAKE j \in 1..m
    <2>1. j \in 1..C
      BY <1>1
    <2>2. q[L + j] = <<<<r, c>>, (x - 1) * C + j - 1>> /\ CarryChain[x][j] = (x - 1) * C + j - 1
      BY <1>2, <1>3, <2>1
    <2>3. QED
      BY <2>2
  <1> HIDE DEF L, C, o, p
  <1>5. \A i \in 1..(L + m) : \/ i \in 1..L /\ q[i] = s[i]
                              \/ i - L \in 1..m /\ q[i] = p(i - L)
    <2> TAKE i \in 1..(L + m)
    <2>1. CASE i <= L
      BY <1>3, <2>1
    <2>2. CASE i > L
      <3>1. i - L \in 1..m /\ L + (i - L) = i
        BY <1>3, <2>2
      <3>2. QED
        BY <1>4, <3>1
    <2>3. QED
      BY <1>3, <2>1, <2>2
  <1>6. ASSUME AllOpen(sl, s), m <= o
        PROVE  AllOpen(sl, q)
    <2>1. \A i \in 1..L : IsOpen(sl, s[i])
      BY <1>6 DEF AllOpen, L
    <2>2. \A j \in 1..m : IsOpen(sl, p(j))
      BY <1>1, <1>6
    <2>3. QED
      BY <1>3, <1>5, <2>1, <2>2 DEF AllOpen
  <1>7. ASSUME AllOpen(sl, q)
        PROVE  AllOpen(sl, s) /\ m <= o
    <2>1. \A i \in 1..(L + m) : IsOpen(sl, q[i])
      BY <1>3, <1>7 DEF AllOpen
    <2>2. \A i \in 1..L : IsOpen(sl, s[i])
      BY <1>3, <2>1
    <2>3. \A j \in 1..m : IsOpen(sl, p(j))
      <3> TAKE j \in 1..m
      <3>1. L + j \in 1..(L + m)
        BY <1>3
      <3>2. QED
        BY <1>4, <2>1, <3>1
    <2>4. ~(o < m)
      <3> SUFFICES ASSUME o < m
                   PROVE  FALSE
        OBVIOUS
      <3>1. o + 1 \in 1..m /\ o < C
        BY <1>1, <1>3
      <3>2. QED
        BY <1>1, <2>3, <3>1
    <2>5. QED
      BY <1>1, <2>2, <2>4 DEF AllOpen, L
  <1>8. QED
    BY <1>6, <1>7 DEF o

(* What the slots s, taken so far, say of the room in the column: F is that *)
(* from their first row, R that which is left above them.                  *)
Promises(sl, s, len, F, R) ==
    /\ AllOpen(sl, s) /\ Len(s) < len => F = Len(s) + R
    /\ AllOpen(sl, s) /\ Len(s) = len => F >= len
    /\ ~AllOpen(sl, s) => F < len

(* One more tile keeps what the slots taken so far promise. *)
LEMMA LongerPromises ==
  ASSUME DeviceFits, NEW sl, NEW r, NEW c, NEW x \in CarryIndex, NEW len \in Nat, NEW s, NEW q,
         NEW z, z = (x - 1) * CarrySize,
         NEW m \in 0..CarrySize, Longer(s, q, <<r, c>>, z, m), Len(s) <= len,
         m = IF CarrySize <= len - Len(s) THEN CarrySize ELSE len - Len(s),
         NEW F \in Nat, NEW Q \in Nat, NEW R \in Nat, Promises(sl, s, len, F, R),
         R = IF OpenIn(sl, r, c, x) = CarrySize THEN CarrySize + Q ELSE OpenIn(sl, r, c, x)
  PROVE  Promises(sl, q, len, F, Q)
  <1> DEFINE L == Len(s)
             C == CarrySize
             o == OpenIn(sl, r, c, x)
  <1>1. C \in Nat /\ o \in 0..C
    BY OpenInFits DEF DeviceFits
  <1>2. L \in Nat /\ L <= len /\ Len(q) = L + m
    BY DEF Longer
  <1>3. AllOpen(sl, q) <=> AllOpen(sl, s) /\ m <= o
    BY LongerOpen
  <1>4. /\ AllOpen(sl, s) /\ L < len => F = L + R
        /\ AllOpen(sl, s) /\ L = len => F >= len
        /\ ~AllOpen(sl, s) => F < len
    BY DEF Promises
  <1>5. /\ m \in 0..C
        /\ m = IF C <= len - L THEN C ELSE len - L
        /\ R = IF o = C THEN C + Q ELSE o
    OBVIOUS
  <1> HIDE DEF L, C, o
  <1>6. AllOpen(sl, q) /\ L + m < len => F = L + m + Q
    <2>1. SUFFICES ASSUME AllOpen(sl, s), m <= o, L + m < len
                   PROVE  F = L + m + Q
      BY <1>3
    <2>2. m # len - L /\ L < len
      BY <1>2, <1>5, <2>1
    <2>3. m = C
      BY <1>5, <2>2
    <2>4. o = C
      BY <1>1, <2>1, <2>3
    <2>5. R = C + Q
      BY <1>5, <2>4
    <2>6. F = L + R
      BY <1>4, <2>1, <2>2
    <2>7. F = L + (m + Q) /\ m \in Nat
      BY <1>1, <2>3, <2>5, <2>6
    <2>8. L + (m + Q) = L + m + Q
      BY <1>2, <2>7
    <2>9. QED
      BY <2>7, <2>8
  <1>7. AllOpen(sl, q) /\ L + m = len => F >= len
    <2>1. SUFFICES ASSUME AllOpen(sl, s), m <= o, L + m = len
                   PROVE  F >= len
      BY <1>3
    <2>2. CASE L = len
      BY <1>4, <2>1, <2>2
    <2>3. CASE L < len
      <3>1. F = L + R
        BY <1>4, <2>1, <2>3
      <3>2. R >= m
        BY <1>1, <1>5, <2>1
      <3>3. QED
        BY <1>2, <2>1, <3>1, <3>2
    <2>4. QED
      BY <1>2, <2>2, <2>3
  <1>8. ~AllOpen(sl, q) => F < len
    <2>1. CASE ~AllOpen(sl, s)
      BY <1>4, <2>1
    <2>2. CASE AllOpen(sl, s) /\ ~(m <= o)
      <3>1. o < m /\ o < C /\ L < len /\ m <= len - L
        BY <1>1, <1>2, <1>5, <2>2
      <3>2. F = L + R /\ R = o
        BY <1>1, <1>4, <1>5, <2>2, <3>1
      <3>3. QED
        BY <1>1, <1>2, <1>5, <3>1, <3>2
    <2>3. QED
      BY <1>3, <2>1, <2>2
  <1>9. QED
    BY <1>2, <1>6, <1>7, <1>8 DEF Promises

(* A chain of len fits from row r upwards iff there is room for it.        *)
LEMMA CellsRoom ==
  ASSUME DeviceFits, NEW sl, NEW len \in Nat \ {0}, NEW r \in 0..(Rows - 1), NEW c, NEW x \in CarryIndex,
         NEW f, IsRoom(f, sl, c, x), NEW g, IsClimb(g, len, r, c, (x - 1) * CarrySize)
  PROVE  Len(g[r + 1]) = len /\ AllOpen(sl, g[r + 1]) <=> f[r + 1] >= len
  <1> DEFINE F == f[r + 1]
             z == (x - 1) * CarrySize
             S == {k \in 0..(r + 1) : Promises(sl, g[k], len, F, f[r - k + 1])}
  <1>1. /\ Rows \in Nat /\ r \in Nat /\ r + 1 \in 0..Rows /\ z \in Nat
        /\ \A k \in 0..Rows : f[k] \in Nat
        /\ F \in Nat /\ f[0] = 0
    <2>1. Rows \in Nat /\ r \in Nat /\ r + 1 \in 0..Rows
      BY DEF DeviceFits
    <2>2. (\A k \in 0..Rows : f[k] \in Nat) /\ f[0] = 0
      BY DEF IsRoom
    <2>3. z \in Nat
      BY ChainSlots
    <2>4. QED
      BY <2>1, <2>2, <2>3
  <1>9. IsClimb(g, len, r, c, z) /\ len \in Nat /\ z = (x - 1) * CarrySize
    OBVIOUS
  <1> HIDE DEF z
  <1>2. 0 \in S
    <2>1. g[0] = <<>> /\ Len(<<>>) = 0
      BY DEF IsClimb
    <2>2. Promises(sl, g[0], len, F, F)
      BY <1>1, <2>1 DEF Promises, AllOpen
    <2>3. r - 0 + 1 = r + 1
      BY <1>1
    <2>4. QED
      BY <1>1, <2>2, <2>3
  <1>3. ASSUME NEW k \in 1..(r + 1), k - 1 \in S
        PROVE  k \in S
    <2> DEFINE q == r - k + 1
    <2>1. q \in 0..(Rows - 1) /\ q + 1 \in 1..Rows /\ r - (k - 1) + 1 = q + 1 /\ (q + 1) - 1 = q
      BY <1>1
    <2>2. Promises(sl, g[k - 1], len, F, f[q + 1]) /\ f[q] \in Nat /\ f[q + 1] \in Nat
      BY <1>1, <1>3, <2>1
    <2>3. f[q + 1] = IF <<q, c>> \notin Tile THEN f[q]
                     ELSE IF OpenIn(sl, q, c, x) = CarrySize THEN CarrySize + f[q]
                     ELSE OpenIn(sl, q, c, x)
      BY <2>1 DEF IsRoom
    <2>4. CASE <<q, c>> \notin Tile
      <3>1. g[k] = g[k - 1]
        BY <1>1, <1>9, <2>4, ClimbStep
      <3>2. QED
        BY <2>2, <2>3, <2>4, <3>1
    <2>5. CASE <<q, c>> \in Tile
      <3>1. Len(g[k - 1]) <= len
        <4>1. Len(g[k - 1]) \in 0..len
          BY <1>1, <1>9, ClimbStep
        <4>2. QED
          BY <4>1
      <3>2. \E m \in 0..CarrySize :
              /\ Longer(g[k - 1], g[k], <<r - k + 1, c>>, z, m)
              /\ m = IF CarrySize <= len - Len(g[k - 1]) THEN CarrySize ELSE len - Len(g[k - 1])
        <4>1. <<r - k + 1, c>> \in Tile
          BY <2>5
        <4>2. z \in Nat
          BY <1>1
        <4>3. QED
          BY <1>9, <4>1, <4>2, ClimbStep
      <3>a. PICK m \in 0..CarrySize :
              /\ Longer(g[k - 1], g[k], <<q, c>>, z, m)
              /\ m = IF CarrySize <= len - Len(g[k - 1]) THEN CarrySize ELSE len - Len(g[k - 1])
        BY <3>2
      <3>3. f[q + 1] = IF OpenIn(sl, q, c, x) = CarrySize THEN CarrySize + f[q]
                       ELSE OpenIn(sl, q, c, x)
        BY <2>3, <2>5
      <3> HIDE DEF F, q
      <3>4. ASSUME NEW R, R = f[q + 1], NEW Q, Q = f[q], NEW s, s = g[k - 1], NEW e, e = g[k]
            PROVE  Promises(sl, e, len, F, Q)
        <4>1. Longer(s, e, <<q, c>>, z, m) /\ Len(s) <= len
          BY <3>1, <3>a, <3>4
        <4>2. m = IF CarrySize <= len - Len(s) THEN CarrySize ELSE len - Len(s)
          BY <3>a, <3>4
        <4>3. Promises(sl, s, len, F, R) /\ R \in Nat /\ Q \in Nat
          BY <2>2, <3>4
        <4>4. R = IF OpenIn(sl, q, c, x) = CarrySize THEN CarrySize + Q ELSE OpenIn(sl, q, c, x)
          BY <3>3, <3>4
        <4>5. F \in Nat
          BY <1>1
        <4>6. QED
          BY <1>9, <4>1, <4>2, <4>3, <4>4, <4>5, LongerPromises
      <3>5. Promises(sl, g[k], len, F, f[q])
        BY <3>4
      <3>6. QED
        BY <3>5 DEF q
    <2>6. QED
      BY <2>4, <2>5
  <1> HIDE DEF S
  <1>4. 0..(r + 1) \subseteq S
    BY <1>1, <1>2, <1>3, BoundedInduction
  <1>5. r + 1 \in S
    BY <1>1, <1>4
  <1>6. Promises(sl, g[r + 1], len, F, 0)
    <2>1. r - (r + 1) + 1 = 0
      BY <1>1
    <2>2. QED
      BY <1>1, <1>5, <2>1 DEF S
  <1>7. Len(g[r + 1]) \in Nat /\ Len(g[r + 1]) <= len
    <2>1. r + 1 \in 0..(r + 1)
      BY <1>1
    <2>2. QED
      BY <2>1 DEF IsClimb
  <1>8. QED
    BY <1>1, <1>6, <1>7 DEF Promises

-----------------------------------------------------------------------------
(* The parts of a step of Scan: the starts handed out, the state when a run *)
(* ends, and the state with the m slots of row r.                          *)
Given(st, len) ==
    {st.starts[k] : k \in {j \in DOMAIN st.starts : st.length - (j - 1) * CarrySize >= len}}

Flushed(st, len) == [length |-> 0, starts |-> <<>>, rows |-> st.rows \cup Given(st, len)]

Grown(st, r, m) ==
    [st EXCEPT !.length = @ + m, !.starts = IF m > 0 THEN Append(@, r) ELSE @]

ScanStates == [length : Nat, starts : Seq(Int), rows : SUBSET Int]

ScanUp(sl, len, c, x, st, r) ==
    IF <<r, c>> \notin Tile THEN IF r > 0 THEN st ELSE Flushed(st, len)
    ELSE IF OpenIn(sl, r, c, x) = CarrySize THEN Grown(st, r, OpenIn(sl, r, c, x))
    ELSE Flushed(Grown(st, r, OpenIn(sl, r, c, x)), len)

(* The state with one more row, field by field. *)
LEMMA GrownFits ==
  ASSUME NEW st \in ScanStates, NEW r \in Int, NEW m \in Nat
  PROVE  /\ Grown(st, r, m) \in ScanStates
         /\ Grown(st, r, m).length = st.length + m
         /\ Grown(st, r, m).starts = IF m > 0 THEN Append(st.starts, r) ELSE st.starts
         /\ Grown(st, r, m).rows = st.rows
  <1>1. st.length \in Nat /\ st.starts \in Seq(Int) /\ st.rows \in SUBSET Int
    BY DEF ScanStates
  <1>2. /\ Grown(st, r, m).length = st.length + m
        /\ Grown(st, r, m).starts = IF m > 0 THEN Append(st.starts, r) ELSE st.starts
        /\ Grown(st, r, m).rows = st.rows
    BY DEF Grown, ScanStates
  <1>3. Append(st.starts, r) \in Seq(Int)
    BY <1>1
  <1>4. \A k \in Nat : \A s \in Seq(Int) :
          [st EXCEPT !.length = k, !.starts = s] \in ScanStates
    BY DEF ScanStates
  <1>5. Grown(st, r, m) \in ScanStates
    <2> DEFINE n == st.length + m
               e == IF m > 0 THEN Append(st.starts, r) ELSE st.starts
    <2>1. n \in Nat /\ e \in Seq(Int)
      BY <1>1, <1>3
    <2>2. Grown(st, r, m) = [st EXCEPT !.length = n, !.starts = e]
      BY DEF Grown
    <2> HIDE DEF n, e
    <2>3. [st EXCEPT !.length = n, !.starts = e] \in ScanStates
      BY <2>1, <1>4
    <2>4. QED
      BY <2>2, <2>3, Zenon
  <1>6. QED
    BY <1>2, <1>5

(* The state when a run ends, field by field. *)
LEMMA FlushedFits ==
  ASSUME NEW st \in ScanStates, NEW len
  PROVE  /\ Flushed(st, len) \in ScanStates
         /\ Flushed(st, len).length = 0
         /\ Flushed(st, len).starts = <<>>
         /\ Flushed(st, len).rows = st.rows \cup Given(st, len)
  <1>1. st.length \in Nat /\ st.starts \in Seq(Int) /\ st.rows \in SUBSET Int
    BY DEF ScanStates
  <1>2. \A j \in DOMAIN st.starts : st.starts[j] \in Int
    BY <1>1
  <1>3. Given(st, len) \in SUBSET Int
    BY <1>2 DEF Given
  <1>4. \A U \in SUBSET Int : [length |-> 0, starts |-> <<>>, rows |-> U] \in ScanStates
    BY DEF ScanStates
  <1>5. QED
    BY <1>1, <1>3, <1>4 DEF Flushed

(* A step of the scan leads to a state of it. *)
LEMMA ScanUpFits ==
  ASSUME DeviceFits, NEW sl, NEW len, NEW c, NEW x, NEW st \in ScanStates, NEW r \in Int
  PROVE  ScanUp(sl, len, c, x, st, r) \in ScanStates
  <1>1. OpenIn(sl, r, c, x) \in Nat
    <2>1. OpenIn(sl, r, c, x) \in 0..CarrySize /\ CarrySize \in Nat
      BY OpenInFits DEF DeviceFits
    <2>2. QED
      BY <2>1
  <1>2. Grown(st, r, OpenIn(sl, r, c, x)) \in ScanStates
    BY <1>1, GrownFits
  <1>3. QED
    BY <1>2, FlushedFits DEF ScanUp

(* The rows of Scan, from the bottom one up.                               *)
IsScan(g, sl, len, c, x) ==
    /\ g \in [0..Rows -> ScanStates]
    /\ g[0] = [length |-> 0, starts |-> <<>>, rows |-> {}]
    /\ \A k \in 1..Rows : g[k] = ScanUp(sl, len, c, x, g[k - 1], Rows - k)

(* The rows that Scan finds are those of its last step. *)
LEMMA ScanRuns ==
  ASSUME DeviceFits, NEW sl, NEW len, NEW c, NEW x \in CarryIndex
  PROVE  \E g : IsScan(g, sl, len, c, x) /\ Scan(sl, len, c, x) = g[Rows].rows
  <1> DEFINE zs      == CarryChain[x]
             open(r) == Lowest({m \in 0..Len(zs) :
                                  \/ m = Len(zs)
                                  \/ LET i == sl[<<<<r, c>>, zs[m + 1]>>]
                                     IN  i # NULL /\ (IsMacro(i) \/ IsFixed(i))})
             Raw(st, r) == IF <<r, c>> \notin Tile
                             THEN IF r > 0 THEN st ELSE Flushed(st, len)
                             ELSE IF open(r) = Len(zs) THEN Grown(st, r, open(r))
                                  ELSE Flushed(Grown(st, r, open(r)), len)
             a      == [length |-> 0, starts |-> <<>>, rows |-> {}]
             Def(h) == h = [k \in 0..Rows |-> IF k = 0 THEN a ELSE Raw(h[k - 1], Rows - k)]
             h      == CHOOSE g : Def(g)
             Up(s, k) == ScanUp(sl, len, c, x, s, Rows - k)
             G      == [k \in Nat |-> [s \in ScanStates |-> Up(s, k)]]
  <1>1. Rows \in Nat /\ CarrySize \in Nat /\ Len(zs) = CarrySize
    BY DEF DeviceFits
  <1>2. \A r : open(r) = OpenIn(sl, r, c, x)
    <2> TAKE r
    <2>1. {m \in 0..Len(zs) :
             \/ m = Len(zs)
             \/ LET i == sl[<<<<r, c>>, zs[m + 1]>>]
                IN  i # NULL /\ (IsMacro(i) \/ IsFixed(i))}
          = {m \in 0..CarrySize : m = CarrySize \/ ~IsOpen(sl, <<<<r, c>>, CarryChain[x][m + 1]>>)}
      BY <1>1 DEF IsOpen
    <2>2. QED
      BY <2>1 DEF OpenIn
  <1>3. Scan(sl, len, c, x) = h[Rows].rows
    BY DEF Scan, Flushed, Given, Grown
  <1> HIDE DEF open, zs
  <1>4. \A st, r : Raw(st, r) = ScanUp(sl, len, c, x, st, r)
    BY <1>1, <1>2 DEF ScanUp
  <1> HIDE DEF Raw
  <1>5. G \in [Nat -> [ScanStates -> ScanStates]] /\ \A k \in Nat : \A s \in ScanStates : Up(s, k) \in ScanStates
    <2>1. \A k \in Nat : Rows - k \in Int
      BY <1>1
    <2>2. \A k \in Nat : \A s \in ScanStates : Up(s, k) \in ScanStates
      BY <2>1, ScanUpFits
    <2> HIDE DEF Up
    <2>3. QED
      BY <2>2
  <1>6. a \in ScanStates
    BY DEF ScanStates
  <1> HIDE DEF a, Up
  <1>7. PICK f : Iterates(f, ScanStates, a, G, Rows)
    <2> HIDE DEF G
    <2> QED
      BY <1>1, <1>5, <1>6, IterateExists
  <1>8. f \in [0..Rows -> ScanStates] /\ f[0] = a /\ \A k \in 1..Rows : f[k] = Up(f[k - 1], k)
    <2>1. \A k \in 1..Rows : k \in Nat /\ k - 1 \in 0..Rows
      BY <1>1
    <2>2. QED
      BY <1>7, <2>1 DEF Iterates
  <1>9. Def(f)
    <2>1. f = [k \in 0..Rows |-> f[k]]
      BY <1>8
    <2>2. \A k \in 0..Rows : f[k] = (IF k = 0 THEN a ELSE Raw(f[k - 1], Rows - k))
      BY <1>1, <1>4, <1>8 DEF Up
    <2>3. QED
      BY <2>1, <2>2
  <1>10. Def(h)
    <2> HIDE DEF Def
    <2> QED
      BY <1>9
  <1> HIDE DEF h
  <1>11. h[0] = a /\ \A k \in 1..Rows : h[k] = Up(h[k - 1], k)
    BY <1>10, <1>1, <1>4 DEF Up
  <1>12. \A k \in 0..Rows : h[k] \in ScanStates
    <2> DEFINE S == {k \in 0..Rows : h[k] \in ScanStates}
    <2>1. 0 \in S
      BY <1>1, <1>6, <1>11
    <2>2. ASSUME NEW k \in 1..Rows, k - 1 \in S
          PROVE  k \in S
      <3>1. k \in Nat /\ k \in 0..Rows /\ h[k - 1] \in ScanStates /\ h[k] = Up(h[k - 1], k)
        BY <1>1, <1>11, <2>2
      <3>2. QED
        BY <3>1, <1>5
    <2> HIDE DEF S
    <2>3. 0..Rows \subseteq S
      BY <1>1, <2>1, <2>2, BoundedInduction
    <2>4. QED
      BY <2>3 DEF S
  <1>13. h \in [0..Rows -> ScanStates]
    BY <1>10, <1>12
  <1>14. IsScan(h, sl, len, c, x)
    BY <1>11, <1>13 DEF IsScan, Up, a
  <1>15. QED
    BY <1>3, <1>14

(* The rows of a column from which there is room for len slots.            *)
HasRoom(f, len, c) == {r \in 0..(Rows - 1) : <<r, c>> \in Tile /\ f[r + 1] >= len}

(* The rows of the state are right, and every row from r on with room that *)
(* is not among them is a start.                                           *)
Covers(st, f, len, c, r) ==
    /\ st.rows \subseteq HasRoom(f, len, c)
    /\ \A q \in HasRoom(f, len, c) :
         q >= r => q \in st.rows \/ \E j \in 1..Len(st.starts) : st.starts[j] = q

(* The j-th start of the state has room for the length from it on, and     *)
(* more more.                                                              *)
StartsFit(st, f, c, r, more) ==
    \A j \in 1..Len(st.starts) :
        /\ st.starts[j] \in r..(Rows - 1)
        /\ <<st.starts[j], c>> \in Tile
        /\ f[st.starts[j] + 1] = st.length - (j - 1) * CarrySize + more

(* What the scan knows when it has come to row r. *)
ScanKnows(st, f, len, c, r) ==
    /\ st.length = Len(st.starts) * CarrySize
    /\ StartsFit(st, f, c, r, f[r])
    /\ Covers(st, f, len, c, r)

(* A run that ends is handed out as far as there is room.                  *)
LEMMA RunEnds ==
  ASSUME DeviceFits, NEW st \in ScanStates, NEW f, NEW len \in Nat, NEW c, NEW r \in Nat,
         StartsFit(st, f, c, r, 0), Covers(st, f, len, c, r)
  PROVE  ScanKnows(Flushed(st, len), f, len, c, r)
  <1> DEFINE e == Flushed(st, len)
             H == HasRoom(f, len, c)
             n == Len(st.starts)
  <1>1. CarrySize \in Nat /\ Rows \in Nat
    BY DEF DeviceFits
  <1>2. st.starts \in Seq(Int) /\ st.length \in Nat /\ st.rows \in SUBSET Int /\ n \in Nat /\ DOMAIN st.starts = 1..n
    BY DEF ScanStates
  <1>3. e.length = 0 /\ e.starts = <<>> /\ e.rows = st.rows \cup Given(st, len)
    BY FlushedFits
  <1>4. ASSUME NEW j \in 1..n
        PROVE  /\ st.starts[j] \in r..(Rows - 1)
               /\ <<st.starts[j], c>> \in Tile
               /\ f[st.starts[j] + 1] = st.length - (j - 1) * CarrySize
    <2>1. /\ st.starts[j] \in r..(Rows - 1)
          /\ <<st.starts[j], c>> \in Tile
          /\ f[st.starts[j] + 1] = st.length - (j - 1) * CarrySize + 0
      BY DEF StartsFit
    <2>2. (j - 1) * CarrySize \in Int
      BY <1>1, <1>2
    <2>3. QED
      BY <1>2, <2>1, <2>2
  <1>5. \A q : q \in Given(st, len) <=> \E j \in 1..n : st.starts[j] = q /\ st.length - (j - 1) * CarrySize >= len
    BY <1>2 DEF Given
  <1> HIDE DEF e, n
  <1>6. Given(st, len) \subseteq H
    <2> SUFFICES ASSUME NEW q \in Given(st, len)
                 PROVE  q \in H
      OBVIOUS
    <2>1. PICK j \in 1..n : st.starts[j] = q /\ st.length - (j - 1) * CarrySize >= len
      BY <1>5
    <2>2. q \in r..(Rows - 1) /\ <<q, c>> \in Tile /\ f[q + 1] >= len
      BY <1>4, <2>1
    <2>3. q \in 0..(Rows - 1)
      BY <1>1, <2>2
    <2>4. QED
      BY <2>2, <2>3 DEF HasRoom
  <1>7. \A q \in H : q >= r => q \in e.rows
    <2> SUFFICES ASSUME NEW q \in H, q >= r, q \notin st.rows
                 PROVE  q \in Given(st, len)
      BY <1>3
    <2>1. PICK j \in 1..n : st.starts[j] = q
      BY DEF Covers, n
    <2>2. f[q + 1] >= len
      BY DEF HasRoom
    <2>3. st.length - (j - 1) * CarrySize >= len
      BY <1>4, <2>1, <2>2
    <2>4. QED
      BY <1>5, <2>1, <2>3
  <1>8. Covers(e, f, len, c, r)
    BY <1>3, <1>6, <1>7 DEF Covers
  <1>9. e.length = Len(e.starts) * CarrySize /\ StartsFit(e, f, c, r, f[r])
    <2>1. Len(e.starts) = 0 /\ 1..0 = {}
      BY <1>3
    <2>2. 0 = 0 * CarrySize
      BY <1>1
    <2>3. QED
      BY <1>3, <2>1, <2>2 DEF StartsFit
  <1>10. QED
    BY <1>8, <1>9 DEF ScanKnows, e

(* A run that takes m slots of the next row.                               *)
LEMMA RunGrows ==
  ASSUME DeviceFits, NEW st \in ScanStates, NEW f, NEW len \in Nat \ {0}, NEW c, NEW r \in 0..(Rows - 1),
         ScanKnows(st, f, len, c, r + 1), <<r, c>> \in Tile,
         NEW m \in Nat, NEW more \in Nat, f[r + 1] = m + more, m = 0 => more = 0
  PROVE  /\ StartsFit(Grown(st, r, m), f, c, r, more)
         /\ Covers(Grown(st, r, m), f, len, c, r)
         /\ m = CarrySize => Grown(st, r, m).length = Len(Grown(st, r, m).starts) * CarrySize
  <1> DEFINE e == Grown(st, r, m)
             H == HasRoom(f, len, c)
             n == Len(st.starts)
             C == CarrySize
  <1>1. C \in Nat \ {0} /\ Rows \in Nat /\ r \in Int
    BY DEF DeviceFits
  <1>2. st.starts \in Seq(Int) /\ st.length \in Nat /\ n \in Nat
    BY DEF ScanStates
  <1>3. /\ e.length = st.length + m
        /\ e.rows = st.rows
        /\ e.starts = IF m > 0 THEN Append(st.starts, r) ELSE st.starts
    BY <1>1, GrownFits
  <1>4. m > 0 => /\ Len(e.starts) = n + 1
                 /\ \A j \in 1..n : e.starts[j] = st.starts[j]
                 /\ e.starts[n + 1] = r
    BY <1>1, <1>2, <1>3
  <1>5. st.length = n * C /\ Covers(st, f, len, c, r + 1)
    BY DEF ScanKnows
  <1>6. ASSUME NEW j \in 1..n
        PROVE  /\ st.starts[j] \in r..(Rows - 1)
               /\ <<st.starts[j], c>> \in Tile
               /\ f[st.starts[j] + 1] = e.length - (j - 1) * C + more
    <2>1. /\ st.starts[j] \in (r + 1)..(Rows - 1)
          /\ <<st.starts[j], c>> \in Tile
          /\ f[st.starts[j] + 1] = st.length - (j - 1) * C + (m + more)
      BY DEF ScanKnows, StartsFit
    <2> DEFINE w == (j - 1) * C
               v == st.starts[j]
    <2>2. w \in Int
      BY <1>1, <1>2
    <2> HIDE DEF w, v, e, n, C
    <2>3. f[v + 1] = e.length - w + more
      <3>1. f[v + 1] = st.length - w + (m + more)
        BY <2>1 DEF w, v
      <3>2. \A a, b \in Int : a - b + (m + more) = (a + m) - b + more
        OBVIOUS
      <3>3. QED
        BY <1>2, <1>3, <2>2, <3>1, <3>2
    <2>4. v \in r..(Rows - 1)
      BY <1>1, <2>1 DEF v
    <2>5. QED
      BY <2>1, <2>3, <2>4 DEF w, v
  <1> HIDE DEF e, n, C
  <1>7. StartsFit(e, f, c, r, more)
    <2> SUFFICES ASSUME NEW j \in 1..Len(e.starts)
                 PROVE  /\ e.starts[j] \in r..(Rows - 1)
                        /\ <<e.starts[j], c>> \in Tile
                        /\ f[e.starts[j] + 1] = e.length - (j - 1) * C + more
      BY DEF StartsFit, C
    <2>1. CASE m = 0
      <3>1. e.starts = st.starts /\ j \in 1..n
        BY <1>3, <2>1 DEF n
      <3>2. QED
        BY <1>6, <3>1
    <2>2. CASE m > 0 /\ j \in 1..n
      <3>1. e.starts[j] = st.starts[j]
        BY <1>4, <2>2
      <3>2. QED
        BY <1>6, <2>2, <3>1
    <2>3. CASE m > 0 /\ j = n + 1
      <3>1. e.starts[j] = r /\ (j - 1) * C = n * C
        BY <1>1, <1>2, <1>4, <2>3
      <3>2. e.length - (j - 1) * C + more = m + more
        <4>1. n * C \in Int
          BY <1>1, <1>2
        <4>2. QED
          BY <1>3, <1>5, <3>1, <4>1
      <3>3. r \in r..(Rows - 1)
        BY <1>1
      <3>4. QED
        BY <3>1, <3>2, <3>3
    <2>4. QED
      BY <1>2, <1>4, <2>1, <2>2, <2>3
  <1>8. Covers(e, f, len, c, r)
    <2>1. e.rows \subseteq H
      BY <1>3, <1>5 DEF Covers
    <2>2. ASSUME NEW q \in H, q >= r, q \notin e.rows
          PROVE  \E j \in 1..Len(e.starts) : e.starts[j] = q
      <3>1. q \in Int /\ f[q + 1] >= len
        BY <1>1 DEF HasRoom
      <3>2. CASE q = r
        <4>1. m > 0
          BY <3>1, <3>2
        <4>2. QED
          BY <1>2, <1>4, <3>2, <4>1
      <3>3. CASE q >= r + 1
        <4>1. PICK j \in 1..n : st.starts[j] = q
          BY <1>3, <1>5, <2>2, <3>3 DEF Covers, n
        <4>2. j \in 1..Len(e.starts) /\ e.starts[j] = q
          <5>1. CASE m = 0
            BY <1>3, <4>1, <5>1 DEF n
          <5>2. CASE m > 0
            BY <1>2, <1>4, <4>1, <5>2
          <5>3. QED
            BY <5>1, <5>2
        <4>3. QED
          BY <4>2
      <3>4. QED
        BY <1>1, <2>2, <3>1, <3>2, <3>3
    <2>3. QED
      BY <2>1, <2>2 DEF Covers
  <1>9. ASSUME m = C
        PROVE  e.length = Len(e.starts) * C
    <2>1. Len(e.starts) = n + 1 /\ e.length = n * C + C
      BY <1>1, <1>3, <1>4, <1>5, <1>9
    <2>2. (n + 1) * C = n * C + C
      BY <1>1, <1>2
    <2>3. QED
      BY <2>1, <2>2
  <1>10. QED
    BY <1>7, <1>8, <1>9 DEF e, C

(* A step of the scan keeps that, and the last one ends the run. *)
LEMMA ScanStepKnows ==
  ASSUME DeviceFits, NEW sl, NEW len \in Nat \ {0}, NEW c \in Column, NEW x \in CarryIndex,
         NEW f, IsRoom(f, sl, c, x), NEW st \in ScanStates, NEW r \in 0..(Rows - 1),
         ScanKnows(st, f, len, c, r + 1)
  PROVE  /\ ScanKnows(ScanUp(sl, len, c, x, st, r), f, len, c, r)
         /\ r = 0 => ScanUp(sl, len, c, x, st, r).starts = <<>>
  <1> DEFINE o == OpenIn(sl, r, c, x)
             e == ScanUp(sl, len, c, x, st, r)
  <1>1. /\ CarrySize \in Nat \ {0} /\ Rows \in Nat /\ r \in Nat
        /\ o \in 0..CarrySize
        /\ f[r] \in Nat /\ f[0] = 0
        /\ f[r + 1] = IF <<r, c>> \notin Tile THEN f[r]
                      ELSE IF o = CarrySize THEN CarrySize + f[r] ELSE o
    <2>1. CarrySize \in Nat \ {0} /\ Rows \in Nat /\ r \in Nat
      BY DEF DeviceFits
    <2>2. r + 1 \in 1..Rows /\ (r + 1) - 1 = r /\ r \in 0..Rows
      BY <2>1
    <2>3. o \in 0..CarrySize
      BY OpenInFits
    <2>4. QED
      BY <2>1, <2>2, <2>3 DEF IsRoom
  <1>2. r = 0 => <<r, c>> \notin Tile
    BY DEF DeviceFits
  <1>3. e = IF <<r, c>> \notin Tile THEN IF r > 0 THEN st ELSE Flushed(st, len)
            ELSE IF o = CarrySize THEN Grown(st, r, o) ELSE Flushed(Grown(st, r, o), len)
    BY DEF ScanUp
  <1> HIDE DEF o, e
  <1>4. CASE <<r, c>> \notin Tile
    <2>1. f[r + 1] = f[r]
      BY <1>1, <1>4
    <2>2. StartsFit(st, f, c, r, f[r]) /\ st.length = Len(st.starts) * CarrySize
      <3>1. \A v : v \in (r + 1)..(Rows - 1) => v \in r..(Rows - 1)
        BY <1>1
      <3>2. QED
        BY <2>1, <3>1 DEF ScanKnows, StartsFit
    <2>3. Covers(st, f, len, c, r)
      <3>1. \A q \in HasRoom(f, len, c) : q >= r => q >= r + 1
        BY <1>1, <1>4 DEF HasRoom
      <3>2. QED
        BY <3>1 DEF ScanKnows, Covers
    <2>4. CASE r > 0
      <3>1. e = st /\ ScanKnows(st, f, len, c, r)
        BY <1>3, <1>4, <2>2, <2>3, <2>4 DEF ScanKnows
      <3>2. QED
        BY <2>4, <3>1 DEF e
    <2>5. CASE r = 0
      <3>1. StartsFit(st, f, c, r, 0)
        BY <1>1, <2>2, <2>5
      <3>2. e = Flushed(st, len)
        BY <1>3, <1>4, <2>5
      <3>3. ScanKnows(Flushed(st, len), f, len, c, r)
        BY <1>1, <2>3, <3>1, RunEnds
      <3>4. Flushed(st, len).starts = <<>>
        BY FlushedFits
      <3>5. QED
        BY <3>2, <3>3, <3>4 DEF e
    <2>6. QED
      BY <1>1, <2>4, <2>5 DEF e
  <1>5. CASE <<r, c>> \in Tile /\ o = CarrySize
    <2>1. f[r + 1] = o + f[r] /\ o > 0 /\ o \in Nat
      BY <1>1, <1>5
    <2>2. /\ StartsFit(Grown(st, r, o), f, c, r, f[r])
          /\ Covers(Grown(st, r, o), f, len, c, r)
          /\ o = CarrySize => Grown(st, r, o).length = Len(Grown(st, r, o).starts) * CarrySize
      BY <1>1, <1>5, <2>1, RunGrows
    <2>3. ScanKnows(e, f, len, c, r) /\ r # 0
      BY <1>2, <1>3, <1>5, <2>2 DEF ScanKnows
    <2>4. QED
      BY <2>3 DEF e
  <1>6. CASE <<r, c>> \in Tile /\ o # CarrySize
    <2>1. f[r + 1] = o + 0 /\ o \in Nat /\ 0 \in Nat
      BY <1>1, <1>6
    <2>2. /\ StartsFit(Grown(st, r, o), f, c, r, 0)
          /\ Covers(Grown(st, r, o), f, len, c, r)
      BY <1>6, <2>1, RunGrows
    <2>3. Grown(st, r, o) \in ScanStates
      BY <1>1, <2>1, GrownFits
    <2>4. ScanKnows(Flushed(Grown(st, r, o), len), f, len, c, r)
      BY <1>1, <2>2, <2>3, RunEnds
    <2>5. ScanKnows(e, f, len, c, r) /\ r # 0
      BY <1>2, <1>3, <1>6, <2>4
    <2>6. QED
      BY <2>5 DEF e
  <1>7. QED
    BY <1>4, <1>5, <1>6

(* The scan finds exactly the rows with room.                              *)
LEMMA ScanFinds ==
  ASSUME DeviceFits, NEW sl, NEW len \in Nat \ {0}, NEW c \in Column, NEW x \in CarryIndex,
         NEW f, IsRoom(f, sl, c, x)
  PROVE  Scan(sl, len, c, x) = HasRoom(f, len, c)
  <1>1. PICK g : IsScan(g, sl, len, c, x) /\ Scan(sl, len, c, x) = g[Rows].rows
    BY ScanRuns
  <1>2. Rows \in Nat /\ Rows > 0 /\ CarrySize \in Nat
    BY DEF DeviceFits
  <1>3. g \in [0..Rows -> ScanStates]
    BY <1>1 DEF IsScan
  <1> DEFINE S == {k \in 0..Rows : /\ ScanKnows(g[k], f, len, c, Rows - k)
                                   /\ k = Rows => g[k].starts = <<>>}
  <1>4. 0 \in S
    <2>1. g[0].length = 0 /\ g[0].starts = <<>> /\ g[0].rows = {} /\ Len(<<>>) = 0 /\ 1..0 = {}
      BY <1>1 DEF IsScan
    <2>2. StartsFit(g[0], f, c, Rows, f[Rows])
      BY <2>1 DEF StartsFit
    <2>3. Covers(g[0], f, len, c, Rows)
      <3>1. \A q \in HasRoom(f, len, c) : ~(q >= Rows)
        BY <1>2 DEF HasRoom
      <3>2. QED
        BY <2>1, <3>1 DEF Covers
    <2>4. g[0].length = Len(g[0].starts) * CarrySize
      BY <1>2, <2>1
    <2>5. Rows - 0 = Rows
      BY <1>2
    <2>6. QED
      BY <1>2, <2>1, <2>2, <2>3, <2>4, <2>5 DEF ScanKnows
  <1>5. ASSUME NEW k \in 1..Rows, k - 1 \in S
        PROVE  k \in S
    <2> DEFINE r == Rows - k
    <2>1. r \in 0..(Rows - 1) /\ Rows - (k - 1) = r + 1 /\ k - 1 \in 0..Rows /\ k \in 0..Rows
          /\ (k = Rows => r = 0)
      BY <1>2
    <2>2. ScanKnows(g[k - 1], f, len, c, r + 1) /\ g[k - 1] \in ScanStates
      BY <1>3, <1>5, <2>1
    <2>3. g[k] = ScanUp(sl, len, c, x, g[k - 1], r)
      BY <1>1 DEF IsScan
    <2> HIDE DEF r
    <2>4. /\ ScanKnows(ScanUp(sl, len, c, x, g[k - 1], r), f, len, c, r)
          /\ r = 0 => ScanUp(sl, len, c, x, g[k - 1], r).starts = <<>>
      BY <2>1, <2>2, ScanStepKnows
    <2>5. ScanKnows(g[k], f, len, c, r) /\ (k = Rows => g[k].starts = <<>>)
      BY <2>1, <2>3, <2>4
    <2>6. QED
      BY <2>1, <2>5 DEF r
  <1> HIDE DEF S
  <1>6. 0..Rows \subseteq S
    BY <1>2, <1>4, <1>5, BoundedInduction
  <1>7. ScanKnows(g[Rows], f, len, c, 0) /\ g[Rows].starts = <<>>
    <2>1. Rows \in S /\ Rows - Rows = 0
      BY <1>2, <1>6
    <2>2. QED
      BY <2>1 DEF S
  <1>8. g[Rows].rows = HasRoom(f, len, c)
    <2>1. \A q \in HasRoom(f, len, c) : q >= 0
      BY <1>2 DEF HasRoom
    <2>2. ~\E j \in 1..Len(g[Rows].starts) : TRUE
      BY <1>7
    <2>3. QED
      BY <1>7, <2>1, <2>2 DEF ScanKnows, Covers
  <1>9. QED
    BY <1>1, <1>8

-----------------------------------------------------------------------------
(* A chain of len members fits on the slots of sl from row r up.           *)
FitsOn(sl, len, r, c, x) ==
    LET cs == ChainCells(len, r, c, (x - 1) * CarrySize)
    IN  <<r, c>> \in Tile /\ Len(cs) = len /\ AllOpen(sl, cs)

(* It does where the column has room for it. *)
LEMMA FitsRoom ==
  ASSUME DeviceFits, NEW sl, NEW len \in Nat \ {0}, NEW r \in 0..(Rows - 1), NEW c, NEW x \in CarryIndex,
         NEW f, IsRoom(f, sl, c, x)
  PROVE  FitsOn(sl, len, r, c, x) <=> r \in HasRoom(f, len, c)
  <1> DEFINE z == (x - 1) * CarrySize
  <1>1. z \in Nat
    BY ChainSlots
  <1>2. PICK g : IsClimb(g, len, r, c, z) /\ ChainCells(len, r, c, z) = g[r + 1]
    BY <1>1, ChainClimbs
  <1>3. Len(g[r + 1]) = len /\ AllOpen(sl, g[r + 1]) <=> f[r + 1] >= len
    BY <1>2, CellsRoom
  <1>4. QED
    BY <1>2, <1>3 DEF FitsOn, HasRoom

(* cs are the slots of a chain of len members from row r up.               *)
AreCells(cs, len, r, c, x) == cs = ChainCells(len, r, c, (x - 1) * CarrySize)

(* The slots that Fits looks at. *)
LEMMA FitsIsFitsOn ==
  ASSUME DeviceFits, NEW len \in Nat \ {0}, NEW r \in 0..(Rows - 1), NEW c, NEW x \in CarryIndex
  PROVE  Fits(len, r, c, x) <=> FitsOn(slot, len, r, c, x)
  <1> DEFINE z  == (x - 1) * CarrySize
             cs == ChainCells(len, r, c, z)
  <1>1. z \in Nat
    BY ChainSlots
  <1>2. PICK g : IsClimb(g, len, r, c, z) /\ cs = g[r + 1]
    BY <1>1, ChainClimbs
  <1>3. r + 1 \in 0..(r + 1)
    BY DEF DeviceFits
  <1>4. cs \in Seq(Tile \X Nat)
    BY <1>2, <1>3 DEF IsClimb
  <1>5. DOMAIN cs = 1..Len(cs)
    BY <1>4
  <1>6. \A k : IsOpen(slot, cs[k]) <=> slot[cs[k]] = NULL \/ ~(IsMacro(slot[cs[k]]) \/ IsFixed(slot[cs[k]]))
    BY DEF IsOpen
  <1>7. AllOpen(slot, cs) <=>
          \A k \in DOMAIN cs : slot[cs[k]] = NULL \/ ~(IsMacro(slot[cs[k]]) \/ IsFixed(slot[cs[k]]))
    BY <1>5, <1>6 DEF AllOpen
  <1>8. Fits(len, r, c, x) <=>
          /\ <<r, c>> \in Tile
          /\ Len(cs) = len
          /\ \A k \in DOMAIN cs : slot[cs[k]] = NULL \/ ~(IsMacro(slot[cs[k]]) \/ IsFixed(slot[cs[k]]))
    BY DEF Fits
  <1>9. FitsOn(slot, len, r, c, x) <=> <<r, c>> \in Tile /\ Len(cs) = len /\ AllOpen(slot, cs)
    BY DEF FitsOn
  <1>10. QED
    BY <1>7, <1>8, <1>9

(* The slots of a chain that fits. *)
LEMMA FittingCells ==
  ASSUME DeviceFits, NEW sl, NEW len \in Nat \ {0}, NEW r \in 0..(Rows - 1), NEW c, NEW x \in CarryIndex,
         FitsOn(sl, len, r, c, x), NEW cs, AreCells(cs, len, r, c, x)
  PROVE  /\ cs \in Seq(Tile \X Nat) /\ Len(cs) = len
         /\ \A k \in 1..len : cs[k] \in Pos /\ IsOpen(sl, cs[k])
         /\ \A j, k \in 1..len : cs[j] = cs[k] => j = k
  <1> DEFINE z  == (x - 1) * CarrySize
  <1>1. z \in Nat /\ z + CarrySize <= NumSlices /\ CarrySize \in Nat /\ NumSlices \in Nat /\ r + 1 \in 0..(r + 1)
    BY ChainSlots DEF DeviceFits
  <1>2. PICK g : IsClimb(g, len, r, c, z) /\ cs = g[r + 1]
    BY <1>1, ChainClimbs DEF AreCells
  <1>3. Apart(cs, c, 0, r, z)
    BY <1>1, <1>2, CellsApart
  <1>4. cs \in Seq(Tile \X Nat)
    BY <1>1, <1>2 DEF IsClimb
  <1>5. Len(cs) = len /\ AllOpen(sl, cs)
    BY DEF FitsOn, AreCells
  <1> HIDE DEF z
  <1>6. ASSUME NEW k \in 1..len
        PROVE  cs[k] \in Pos
    <2>1. cs[k] = <<<<cs[k][1][1], c>>, cs[k][2]>> /\ cs[k][1] \in Tile /\ cs[k][2] \in z..(z + CarrySize - 1)
      BY <1>3, <1>5 DEF Apart
    <2>2. cs[k] \in Tile \X Nat
      BY <1>4, <1>5
    <2>3. cs[k][2] \in Z
      BY <1>1, <2>1 DEF Z
    <2>4. QED
      BY <2>1, <2>2, <2>3 DEF Pos
  <1>7. QED
    BY <1>3, <1>4, <1>5, <1>6 DEF Apart, AllOpen

-----------------------------------------------------------------------------
(* The slots sl and the positions pl say the same. *)
Agree(sl, pl) ==
    /\ sl \in [Pos -> Inst \cup {NULL}]
    /\ pl \in [Inst -> Pos \cup {NULL}]
    /\ \A p \in Pos : sl[p] # NULL => pl[sl[p]] = p
    /\ \A i \in Inst : pl[i] # NULL => sl[pl[i]] = i

(* The slots of a tile that are taken. *)
Taken(sl, t) == {z \in Z : sl[<<t, z>>] # NULL}

(* The taken slots of a tile are finitely many. *)
LEMMA TakenFinite ==
  ASSUME DeviceFits, NEW sl, NEW t
  PROVE  IsFiniteSet(Taken(sl, t)) /\ Cardinality(Taken(sl, t)) \in Nat
         /\ IsFiniteSet(Z) /\ Cardinality(Z) = NumSlices
  <1>1. IsFiniteSet(Z) /\ Cardinality(Z) = NumSlices
    <2>1. NumSlices \in Nat
      BY DEF DeviceFits
    <2>2. IsFiniteSet(0..(NumSlices - 1)) /\ Cardinality(0..(NumSlices - 1)) = IF 0 > NumSlices - 1 THEN 0 ELSE NumSlices - 1 - 0 + 1
      BY <2>1, FS_Interval
    <2>3. QED
      BY <2>1, <2>2 DEF Z
  <1>2. Taken(sl, t) \in SUBSET Z
    BY DEF Taken
  <1>3. QED
    BY <1>1, <1>2, FS_Subset, FS_CardinalityType

(* The instances of a tile are as many as its slots that are taken.        *)
LEMMA OccupantsCounted ==
  ASSUME DeviceFits, NullAssumption, NEW pl, Agree(slot, pl), NEW t \in Tile
  PROVE  /\ IsFiniteSet(Occupants(t))
         /\ Cardinality(Occupants(t)) = Cardinality(Taken(slot, t))
  <1> DEFINE f == [z \in Taken(slot, t) |-> slot[<<t, z>>]]
             T == Taken(slot, t)
  <1>1. \A z \in T : z \in Z /\ <<t, z>> \in Pos /\ slot[<<t, z>>] # NULL /\ slot[<<t, z>>] \in Occupants(t)
    BY DEF Taken, Pos, Occupants
  <1>2. \A w \in Occupants(t) : \E z \in T : slot[<<t, z>>] = w
    BY DEF Taken, Occupants
  <1>3. \A z, y \in T : slot[<<t, z>>] = slot[<<t, y>>] => z = y
    BY <1>1 DEF Agree
  <1>4. IsFiniteSet(T)
    BY TakenFinite
  <1> HIDE DEF T
  <1>5. f \in [T -> Occupants(t)] /\ \A z \in T : f[z] = slot[<<t, z>>]
    BY <1>1 DEF T
  <1> HIDE DEF f
  <1>9. \A u, v \in T : f[u] = f[v] => u = v
    BY <1>3, <1>5
  <1>6. \A w \in Occupants(t) : \E u \in T : f[u] = w
    BY <1>2, <1>5
  <1>7. IsFiniteSet(Occupants(t)) /\ Cardinality(Occupants(t)) = Cardinality(T)
    BY <1>4, <1>5, <1>6, <1>9, CountedBy
  <1>8. QED
    BY <1>7 DEF T

(* A tile that is not full has a free slot. *)
LEMMA FreeSlot ==
  ASSUME DeviceFits, NullAssumption, NEW pl, Agree(slot, pl), NEW t \in Tile,
         Cardinality(Occupants(t)) < NumSlices
  PROVE  UnoccZ(t) \in Z /\ slot[<<t, UnoccZ(t)>>] = NULL
  <1>1. Cardinality(Taken(slot, t)) < NumSlices
    BY OccupantsCounted
  <1>2. Taken(slot, t) # Z
    BY <1>1, TakenFinite DEF DeviceFits
  <1>3. {z \in Z : slot[<<t, z>>] = NULL} # {}
    BY <1>2 DEF Taken
  <1>4. {z \in Z : slot[<<t, z>>] = NULL} \subseteq Nat
    BY DEF Z, DeviceFits
  <1> DEFINE S == {z \in Z : slot[<<t, z>>] = NULL}
  <1>5. Lowest(S) \in S
    <2> HIDE DEF S
    <2>1. S \subseteq Nat /\ S # {}
      BY <1>3, <1>4 DEF S
    <2>2. QED
      BY <2>1, LowestFits
  <1>6. QED
    BY <1>5 DEF UnoccZ

(* A tile that has no instance has all slots free. *)
LEMMA EmptyTile ==
  ASSUME DeviceFits, NullAssumption, NEW pl, Agree(slot, pl), NEW t \in Tile,
         Cardinality(Occupants(t)) = 0
  PROVE  \A z \in Z : slot[<<t, z>>] = NULL
  <1>1. Occupants(t) = {}
    BY OccupantsCounted, FS_EmptySet
  <1>2. QED
    BY <1>1 DEF Occupants

(* A set that gains G elements and loses L. *)
LEMMA Recounted ==
  ASSUME NEW A, NEW B, IsFiniteSet(A), IsFiniteSet(B), NEW G, NEW L, IsFiniteSet(G), IsFiniteSet(L),
         NEW f \in [G -> B \ A], \A u, v \in G : f[u] = f[v] => u = v, \A w \in B \ A : \E u \in G : f[u] = w,
         NEW g \in [L -> A \ B], \A u, v \in L : g[u] = g[v] => u = v, \A w \in A \ B : \E u \in L : g[u] = w
  PROVE  Cardinality(B) = Cardinality(A) + Cardinality(G) - Cardinality(L)
  <1>1. Cardinality(B \ A) = Cardinality(G) /\ IsFiniteSet(B \ A)
    BY CountedBy
  <1>2. Cardinality(A \ B) = Cardinality(L) /\ IsFiniteSet(A \ B)
    BY CountedBy
  <1>3. IsFiniteSet(A \cap B)
    <2>1. A \cap B \in SUBSET A
      OBVIOUS
    <2>2. QED
      BY <2>1, FS_Subset
  <1>4. Cardinality(A) = Cardinality(A \cap B) + Cardinality(A \ B)
    <2>1. A = (A \cap B) \cup (A \ B) /\ (A \cap B) \cap (A \ B) = {}
      OBVIOUS
    <2>2. Cardinality(A) = Cardinality(A \cap B) + Cardinality(A \ B) - Cardinality({})
      BY <1>2, <1>3, <2>1, FS_Union
    <2>3. Cardinality({}) = 0 /\ Cardinality(A \cap B) \in Nat /\ Cardinality(A \ B) \in Nat
      BY <1>2, <1>3, FS_EmptySet, FS_CardinalityType
    <2>4. QED
      BY <2>2, <2>3
  <1>5. Cardinality(B) = Cardinality(A \cap B) + Cardinality(B \ A)
    <2>1. B = (A \cap B) \cup (B \ A) /\ (A \cap B) \cap (B \ A) = {}
      OBVIOUS
    <2>2. Cardinality(B) = Cardinality(A \cap B) + Cardinality(B \ A) - Cardinality({})
      BY <1>1, <1>3, <2>1, FS_Union
    <2>3. Cardinality({}) = 0 /\ Cardinality(A \cap B) \in Nat /\ Cardinality(B \ A) \in Nat
      BY <1>1, <1>3, FS_EmptySet, FS_CardinalityType
    <2>4. QED
      BY <2>2, <2>3
  <1>6. Cardinality(A \cap B) \in Nat /\ Cardinality(A \ B) \in Nat /\ Cardinality(B \ A) \in Nat
    BY <1>1, <1>2, <1>3, FS_CardinalityType
  <1>7. QED
    BY <1>1, <1>2, <1>4, <1>5, <1>6
-----------------------------------------------------------------------------
(* n instances is and n positions ps to put them on: none twice.           *)
Puttable(n, is, ps) ==
    /\ n \in Nat /\ DOMAIN is = 1..n /\ DOMAIN ps = 1..n
    /\ \A k \in 1..n : is[k] \in Inst /\ ps[k] \in Pos
    /\ \A j, k \in 1..n : is[j] = is[k] => j = k
    /\ \A j, k \in 1..n : ps[j] = ps[k] => j = k

(* The slots and the positions once PutOn has put is on ps. *)
PutSlots(sl, is, ps) ==
    [p \in Pos |-> IF \E k \in DOMAIN ps : ps[k] = p
                     THEN is[CHOOSE k \in DOMAIN ps : ps[k] = p] ELSE sl[p]]

PutPlaces(pl, is, ps) ==
    [i \in Inst |-> IF \E k \in DOMAIN is : is[k] = i
                      THEN ps[CHOOSE k \in DOMAIN is : is[k] = i] ELSE pl[i]]

(* PutOn changes the slots and instances that it puts, and no other. *)
LEMMA PutFits ==
  ASSUME NEW sl, NEW pl, NEW n, NEW is, NEW ps, Puttable(n, is, ps),
         NEW s2, s2 = PutSlots(sl, is, ps), NEW p2, p2 = PutPlaces(pl, is, ps)
  PROVE  /\ \A k \in 1..n : s2[ps[k]] = is[k] /\ p2[is[k]] = ps[k]
         /\ \A p \in Pos : (\A k \in 1..n : ps[k] # p) => s2[p] = sl[p]
         /\ \A i \in Inst : (\A k \in 1..n : is[k] # i) => p2[i] = pl[i]
         /\ DOMAIN s2 = Pos /\ DOMAIN p2 = Inst
  <1>1. /\ DOMAIN is = 1..n /\ DOMAIN ps = 1..n
        /\ \A k \in 1..n : is[k] \in Inst /\ ps[k] \in Pos
        /\ \A j, k \in 1..n : is[j] = is[k] => j = k
        /\ \A j, k \in 1..n : ps[j] = ps[k] => j = k
    BY DEF Puttable
  <1>2. ASSUME NEW k \in 1..n
        PROVE  (CHOOSE j \in 1..n : ps[j] = ps[k]) = k /\ (CHOOSE j \in 1..n : is[j] = is[k]) = k
    BY <1>1
  <1>3. \A p \in Pos : s2[p] = IF \E k \in 1..n : ps[k] = p
                                 THEN is[CHOOSE k \in 1..n : ps[k] = p] ELSE sl[p]
    BY <1>1 DEF PutSlots
  <1>4. \A i \in Inst : p2[i] = IF \E k \in 1..n : is[k] = i
                                  THEN ps[CHOOSE k \in 1..n : is[k] = i] ELSE pl[i]
    BY <1>1 DEF PutPlaces
  <1>5. ASSUME NEW k \in 1..n
        PROVE  s2[ps[k]] = is[k] /\ p2[is[k]] = ps[k]
    <2>1. s2[ps[k]] = is[CHOOSE j \in 1..n : ps[j] = ps[k]]
      BY <1>1, <1>3
    <2>2. p2[is[k]] = ps[CHOOSE j \in 1..n : is[j] = is[k]]
      BY <1>1, <1>4
    <2>3. QED
      BY <1>2, <2>1, <2>2
  <1>6. DOMAIN s2 = Pos /\ DOMAIN p2 = Inst
    BY DEF PutSlots, PutPlaces
  <1>7. QED
    BY <1>3, <1>4, <1>5, <1>6

(* Instances without a position put on free slots. *)
LEMMA PutAgrees ==
  ASSUME DeviceFits, NullAssumption, NEW sl, NEW pl, Agree(sl, pl), NEW n, NEW is, NEW ps, Puttable(n, is, ps),
         \A k \in 1..n : sl[ps[k]] = NULL /\ pl[is[k]] = NULL,
         NEW s2, s2 = PutSlots(sl, is, ps), NEW p2, p2 = PutPlaces(pl, is, ps)
  PROVE  Agree(s2, p2)
  <1>1. NULL \notin Pos /\ NULL \notin Inst
    BY DEF DeviceFits, NullAssumption
  <1>2. /\ \A k \in 1..n : s2[ps[k]] = is[k] /\ p2[is[k]] = ps[k]
        /\ \A p \in Pos : (\A k \in 1..n : ps[k] # p) => s2[p] = sl[p]
        /\ \A i \in Inst : (\A k \in 1..n : is[k] # i) => p2[i] = pl[i]
        /\ DOMAIN s2 = Pos /\ DOMAIN p2 = Inst
    BY PutFits
  <1>3. \A k \in 1..n : is[k] \in Inst /\ ps[k] \in Pos
    BY DEF Puttable
  <1>4. /\ sl \in [Pos -> Inst \cup {NULL}]
        /\ pl \in [Inst -> Pos \cup {NULL}]
        /\ \A p \in Pos : sl[p] # NULL => pl[sl[p]] = p
        /\ \A i \in Inst : pl[i] # NULL => sl[pl[i]] = i
    BY DEF Agree
  <1>5. s2 = [p \in Pos |-> s2[p]] /\ p2 = [i \in Inst |-> p2[i]]
    BY DEF PutSlots, PutPlaces
  <1>6. \A p \in Pos : s2[p] \in Inst \cup {NULL} /\ (s2[p] # NULL => p2[s2[p]] = p)
    <2> TAKE p \in Pos
    <2>1. CASE \E k \in 1..n : ps[k] = p
      BY <1>2, <1>3, <2>1
    <2>2. CASE \A k \in 1..n : ps[k] # p
      <3>1. s2[p] = sl[p]
        BY <1>2, <2>2
      <3>2. ASSUME sl[p] # NULL, NEW k \in 1..n, is[k] = sl[p]
            PROVE  FALSE
        <4>1. pl[is[k]] = p /\ pl[is[k]] = NULL
          BY <1>4, <3>2
        <4>2. QED
          BY <1>1, <4>1
      <3>3. sl[p] # NULL => p2[sl[p]] = pl[sl[p]]
        BY <1>2, <1>4, <3>2
      <3>4. QED
        BY <1>4, <3>1, <3>3
    <2>3. QED
      BY <2>1, <2>2
  <1>7. \A i \in Inst : p2[i] \in Pos \cup {NULL} /\ (p2[i] # NULL => s2[p2[i]] = i)
    <2> TAKE i \in Inst
    <2>1. CASE \E k \in 1..n : is[k] = i
      BY <1>2, <1>3, <2>1
    <2>2. CASE \A k \in 1..n : is[k] # i
      <3>1. p2[i] = pl[i]
        BY <1>2, <2>2
      <3>2. ASSUME pl[i] # NULL, NEW k \in 1..n, ps[k] = pl[i]
            PROVE  FALSE
        BY <1>1, <1>4, <3>2
      <3>3. pl[i] # NULL => s2[pl[i]] = sl[pl[i]]
        BY <1>2, <1>4, <3>2
      <3>4. QED
        BY <1>4, <3>1, <3>3
    <2>3. QED
      BY <2>1, <2>2
  <1>8. s2 \in [Pos -> Inst \cup {NULL}] /\ p2 \in [Inst -> Pos \cup {NULL}]
    BY <1>5, <1>6, <1>7
  <1>9. QED
    BY <1>6, <1>7, <1>8 DEF Agree

(* Each tile has as many instances more as it got. *)
LEMMA PutCounted ==
  ASSUME DeviceFits, NullAssumption, NEW sl, NEW n, NEW is, NEW ps, Puttable(n, is, ps),
         \A k \in 1..n : sl[ps[k]] = NULL, NEW s2, s2 = PutSlots(sl, is, ps), NEW t \in Tile
  PROVE  /\ IsFiniteSet({k \in DOMAIN ps : ps[k][1] = t})
         /\ Cardinality(Taken(s2, t)) = Cardinality(Taken(sl, t)) + Cardinality({k \in DOMAIN ps : ps[k][1] = t})
  <1> DEFINE G == {k \in DOMAIN ps : ps[k][1] = t}
             A == Taken(sl, t)
             B == Taken(s2, t)
             f == [k \in G |-> ps[k][2]]
             g == [k \in {} |-> 0]
  <1>1. /\ n \in Nat /\ DOMAIN ps = 1..n
        /\ \A k \in 1..n : is[k] \in Inst /\ ps[k] \in Pos
        /\ \A j, k \in 1..n : ps[j] = ps[k] => j = k
    BY DEF Puttable
  <1>2. /\ \A k \in 1..n : s2[ps[k]] = is[k]
        /\ \A p \in Pos : (\A k \in 1..n : ps[k] # p) => s2[p] = sl[p]
    <2>1. ASSUME NEW p2, p2 = PutPlaces(sl, is, ps)
          PROVE  /\ \A k \in 1..n : s2[ps[k]] = is[k]
                 /\ \A p \in Pos : (\A k \in 1..n : ps[k] # p) => s2[p] = sl[p]
      BY <2>1, PutFits
    <2>2. QED
      BY <2>1
  <1>3. \A k \in 1..n : ps[k] = <<ps[k][1], ps[k][2]>> /\ ps[k][1] \in Tile /\ ps[k][2] \in Z
    BY <1>1 DEF Pos
  <1>4. \A z \in Z : <<t, z>> \in Pos
    BY DEF Pos
  <1>5. \A k \in G : k \in 1..n /\ ps[k] = <<t, ps[k][2]>> /\ ps[k][2] \in B \ A
    <2> TAKE k \in G
    <2>1. k \in 1..n /\ ps[k] = <<t, ps[k][2]>> /\ ps[k][2] \in Z
      BY <1>1, <1>3
    <2>2. sl[<<t, ps[k][2]>>] = NULL /\ s2[<<t, ps[k][2]>>] \in Inst
      BY <1>1, <1>2, <2>1
    <2>3. QED
      BY <2>1, <2>2, NullAssumption DEF Taken
  <1>6. \A w \in B \ A : \E k \in G : ps[k][2] = w
    <2> TAKE w \in B \ A
    <2>1. w \in Z /\ s2[<<t, w>>] # NULL /\ sl[<<t, w>>] = NULL
      BY DEF Taken
    <2>2. PICK k \in 1..n : ps[k] = <<t, w>>
      BY <1>2, <1>4, <2>1
    <2>3. QED
      BY <1>1, <2>2
  <1>7. A \ B = {}
    <2> SUFFICES ASSUME NEW w \in A, w \notin B
                 PROVE  FALSE
      OBVIOUS
    <2>1. w \in Z /\ sl[<<t, w>>] # NULL /\ s2[<<t, w>>] = NULL
      BY DEF Taken
    <2>2. PICK k \in 1..n : ps[k] = <<t, w>>
      BY <1>2, <1>4, <2>1
    <2>3. QED
      BY <2>1, <2>2
  <1>8. \A j, k \in G : ps[j][2] = ps[k][2] => j = k
    BY <1>1, <1>5
  <1>9. IsFiniteSet(G)
    <2>1. IsFiniteSet(1..n) /\ G \in SUBSET (1..n)
      BY <1>1, FS_Interval
    <2>2. QED
      BY <2>1, FS_Subset
  <1>10. IsFiniteSet(A) /\ IsFiniteSet(B) /\ Cardinality(A) \in Nat
    BY TakenFinite
  <1> HIDE DEF G, A, B
  <1>11. f \in [G -> B \ A] /\ \A k \in G : f[k] = ps[k][2]
    BY <1>5
  <1>12. g \in [{} -> A \ B]
    BY <1>7
  <1> HIDE DEF f, g
  <1>13. (\A u, v \in G : f[u] = f[v] => u = v) /\ \A w \in B \ A : \E u \in G : f[u] = w
    BY <1>6, <1>8, <1>11
  <1>14. IsFiniteSet({}) /\ Cardinality({}) = 0 /\ Cardinality(G) \in Nat
    BY <1>9, FS_EmptySet, FS_CardinalityType
  <1>15. Cardinality(B) = Cardinality(A) + Cardinality(G) - Cardinality({})
    <2>1. ASSUME NEW L, L = {}
          PROVE  Cardinality(B) = Cardinality(A) + Cardinality(G) - Cardinality(L)
      <3>1. g \in [L -> A \ B] /\ IsFiniteSet(L)
        BY <1>12, <1>14, <2>1
      <3>2. (\A u, v \in L : g[u] = g[v] => u = v) /\ \A w \in A \ B : \E u \in L : g[u] = w
        BY <1>7, <2>1
      <3>3. (\A u, v \in G : f[u] = f[v] => u = v)
        BY <1>13
      <3>4. \A w \in B \ A : \E u \in G : f[u] = w
        BY <1>13
      <3>5. f \in [G -> B \ A]
        BY <1>11
      <3>6. QED
        BY <1>9, <1>10, <3>1, <3>2, <3>3, <3>4, <3>5, Recounted
    <2>2. QED
      BY <2>1
  <1>16. QED
    BY <1>9, <1>10, <1>14, <1>15 DEF G, A, B

-----------------------------------------------------------------------------
(* How many slots of the first carry chain are free in row r, from its     *)
(* first one, and the first m of them.                                     *)
FreeIn(r, c) ==
    Lowest({m \in 0..CarrySize : m = CarrySize \/ slot[<<<<r, c>>, CarryChain[1][m + 1]>>] # NULL})

InitCells(r, c, m) == [k \in 1..m |-> <<<<r, c>>, CarryChain[1][k]>>]

(* A step of InitRun from the run s to row r.                              *)
RunUp(s, c, len, r) ==
    IF Len(s) >= len \/ <<r, c>> \notin Tile THEN s
    ELSE IF Len(s) + FreeIn(r, c) >= len THEN s \o InitCells(r, c, len - Len(s))
    ELSE IF FreeIn(r, c) = CarrySize THEN s \o InitCells(r, c, CarrySize)
    ELSE <<>>

(* The slots up to FreeIn are free. *)
LEMMA FreeInFits ==
  ASSUME DeviceFits, NEW r, NEW c
  PROVE  /\ FreeIn(r, c) \in 0..CarrySize /\ CarrySize \in Nat
         /\ \A j \in 1..FreeIn(r, c) : slot[<<<<r, c>>, CarryChain[1][j]>>] = NULL
  <1> DEFINE C == CarrySize
             q(m) == <<<<r, c>>, CarryChain[1][m + 1]>>
             S == {m \in 0..C : m = C \/ slot[q(m)] # NULL}
             m == Lowest(S)
  <1>1. C \in Nat
    BY DEF DeviceFits
  <1> HIDE DEF C
  <1>2. S \subseteq Nat /\ C \in S
    BY <1>1
  <1>3. m \in S /\ \A v \in S : m <= v
    <2> HIDE DEF S
    <2> QED
      BY <1>2, LowestFits
  <1> HIDE DEF m, q
  <1>4. \A j \in 1..m : slot[q(j - 1)] = NULL
    <2> TAKE j \in 1..m
    <2>1. j - 1 \in 0..C /\ j - 1 < m /\ j - 1 # C
      BY <1>1, <1>3
    <2>2. QED
      BY <1>1, <1>3, <2>1
  <1>5. m \in 0..C /\ \A j \in 1..m : (j - 1) + 1 = j
    BY <1>1, <1>3
  <1>6. \A j \in 1..m : slot[<<<<r, c>>, CarryChain[1][j]>>] = NULL
    BY <1>4, <1>5 DEF q
  <1>7. QED
    BY <1>1, <1>5, <1>6 DEF FreeIn, m, S, q, C

(* What the run knows: its positions are free, in column c and from row lo *)
(* down, none twice.                                                       *)
RunKnows(s, c, len, lo) ==
    /\ s \in Seq(Pos) /\ Len(s) <= len
    /\ \A i \in 1..Len(s) : /\ slot[s[i]] = NULL
                            /\ s[i][1][1] \in Nat /\ s[i][1][1] >= lo
    /\ \A i, j \in 1..Len(s) : s[i] = s[j] => i = j

(* The first m slots of the first chain are free positions of row r. *)
LEMMA InitCellsFit ==
  ASSUME DeviceFits, NEW r, NEW c, <<r, c>> \in Tile, NEW m \in 0..FreeIn(r, c)
  PROVE  /\ InitCells(r, c, m) \in Seq(Pos) /\ Len(InitCells(r, c, m)) = m
         /\ \A j \in 1..m : /\ InitCells(r, c, m)[j] \in Pos
                            /\ slot[InitCells(r, c, m)[j]] = NULL
                            /\ InitCells(r, c, m)[j][1] = <<r, c>>
                            /\ InitCells(r, c, m)[j][2] = j - 1
  <1>1. m \in Nat /\ FreeIn(r, c) \in 0..CarrySize /\ CarrySize \in Nat
    BY FreeInFits
  <1>2. ASSUME NEW j \in 1..m
        PROVE  /\ <<<<r, c>>, CarryChain[1][j]>> \in Pos
               /\ slot[<<<<r, c>>, CarryChain[1][j]>>] = NULL
               /\ CarryChain[1][j] = j - 1
    <2>1. j \in 1..FreeIn(r, c) /\ j \in 1..CarrySize
      BY <1>1
    <2>2. 1 \in CarryIndex
      BY DEF DeviceFits
    <2>3. CarryChain[1][j] = (1 - 1) * CarrySize + j - 1 /\ CarryChain[1][j] \in Z
      BY <2>1, <2>2, ChainSlots
    <2>4. (1 - 1) * CarrySize + j - 1 = j - 1
      BY <1>1
    <2>5. slot[<<<<r, c>>, CarryChain[1][j]>>] = NULL
      BY <2>1, FreeInFits
    <2>6. QED
      BY <2>3, <2>4, <2>5 DEF Pos
  <1>3. /\ InitCells(r, c, m) \in [1..m -> Pos]
        /\ \A j \in 1..m : InitCells(r, c, m)[j] = <<<<r, c>>, CarryChain[1][j]>>
    BY <1>2 DEF InitCells
  <1>4. InitCells(r, c, m) \in Seq(Pos) /\ Len(InitCells(r, c, m)) = m
    BY <1>1, <1>3
  <1>5. QED
    BY <1>2, <1>3, <1>4

(* A run that takes m slots of the next row is still a run. *)
LEMMA RunLonger ==
  ASSUME DeviceFits, NEW len \in Nat, NEW lo \in Nat, NEW c, NEW s, RunKnows(s, c, len, lo + 1),
         <<lo, c>> \in Tile, NEW m \in 0..FreeIn(lo, c), Len(s) + m <= len
  PROVE  RunKnows(s \o InitCells(lo, c, m), c, len, lo)
  <1> DEFINE e == InitCells(lo, c, m)
             q == s \o e
             L == Len(s)
  <1>1. /\ e \in Seq(Pos) /\ Len(e) = m
        /\ \A j \in 1..m : e[j] \in Pos /\ slot[e[j]] = NULL /\ e[j][1] = <<lo, c>> /\ e[j][2] = j - 1
    BY InitCellsFit
  <1>2. m \in Nat
    BY FreeInFits
  <1>3. /\ s \in Seq(Pos) /\ L \in Nat
        /\ \A i \in 1..L : slot[s[i]] = NULL /\ s[i][1][1] \in Nat /\ s[i][1][1] >= lo + 1
        /\ \A i, j \in 1..L : s[i] = s[j] => i = j
    BY DEF RunKnows
  <1> HIDE DEF e
  <1>4. e \in [1..m -> Pos]
    BY <1>1
  <1>5. /\ q \in Seq(Pos) /\ Len(q) = L + m
        /\ \A j \in 1..L : q[j] = s[j]
        /\ \A j \in 1..m : q[L + j] = e[j]
    BY <1>2, <1>3, <1>4, Lengthened
  <1> HIDE DEF q, L
  <1>6. ASSUME NEW i \in 1..(L + m)
        PROVE  \/ i \in 1..L /\ q[i] = s[i]
               \/ i - L \in 1..m /\ q[i] = e[i - L]
    <2>1. CASE i <= L
      BY <1>3, <1>5, <2>1
    <2>2. CASE i > L
      <3>1. i - L \in 1..m /\ L + (i - L) = i
        BY <1>2, <1>3, <2>2
      <3>2. QED
        BY <1>5, <3>1
    <2>3. QED
      BY <1>2, <1>3, <2>1, <2>2
  <1>7. ASSUME NEW i \in 1..(L + m)
        PROVE  slot[q[i]] = NULL /\ q[i][1][1] \in Nat /\ q[i][1][1] >= lo
    <2>1. CASE i \in 1..L /\ q[i] = s[i]
      BY <1>3, <2>1
    <2>2. CASE i - L \in 1..m /\ q[i] = e[i - L]
      BY <1>1, <2>2
    <2>3. QED
      BY <1>6, <2>1, <2>2
  <1>8. ASSUME NEW i \in 1..(L + m), NEW j \in 1..(L + m), q[i] = q[j]
        PROVE  i = j
    <2>1. \A k \in 1..L : s[k][1][1] # lo
      BY <1>3
    <2>2. CASE i \in 1..L /\ q[i] = s[i]
      <3>1. q[j][1][1] # lo
        BY <1>8, <2>1, <2>2
      <3>2. j \in 1..L /\ q[j] = s[j]
        BY <1>1, <1>6, <3>1
      <3>3. QED
        BY <1>3, <1>8, <2>2, <3>2
    <2>3. CASE i - L \in 1..m /\ q[i] = e[i - L]
      <3>1. q[j][1][1] = lo
        BY <1>1, <1>8, <2>3
      <3>2. j - L \in 1..m /\ q[j] = e[j - L]
        BY <1>6, <2>1, <3>1
      <3>3. q[i][2] = (i - L) - 1 /\ q[j][2] = (j - L) - 1
        BY <1>1, <2>3, <3>2
      <3>4. QED
        BY <1>2, <1>3, <1>8, <3>3
    <2>4. QED
      BY <1>6, <2>2, <2>3
  <1>9. L + m <= len
    BY DEF L
  <1>10. QED
    BY <1>5, <1>7, <1>8, <1>9 DEF RunKnows, q, e

(* A step to the next row keeps what the run knows. *)
LEMMA RunUpKnows ==
  ASSUME DeviceFits, NEW len \in Nat, NEW lo \in Nat, NEW c, NEW s, RunKnows(s, c, len, lo + 1)
  PROVE  RunKnows(RunUp(s, c, len, lo), c, len, lo)
  <1> DEFINE f == FreeIn(lo, c)
  <1>1. f \in 0..CarrySize /\ f \in Nat /\ CarrySize \in Nat
    BY FreeInFits
  <1>2. Len(s) \in Nat /\ Len(s) <= len
    BY DEF RunKnows
  <1>3. RunKnows(s, c, len, lo)
    BY DEF RunKnows
  <1>4. RunKnows(<<>>, c, len, lo)
    BY DEF RunKnows
  <1> HIDE DEF f
  <1>5. CASE ~(Len(s) >= len \/ <<lo, c>> \notin Tile) /\ Len(s) + f >= len
    <2>1. len - Len(s) \in 0..f /\ Len(s) + (len - Len(s)) <= len
      BY <1>1, <1>2, <1>5
    <2>2. RunKnows(s \o InitCells(lo, c, len - Len(s)), c, len, lo)
      BY <1>5, <2>1, RunLonger DEF f
    <2>3. QED
      BY <1>5, <2>2 DEF RunUp, f
  <1>6. CASE ~(Len(s) >= len \/ <<lo, c>> \notin Tile) /\ ~(Len(s) + f >= len)
    <2>1. CASE f = CarrySize
      <3>1. f \in 0..f /\ Len(s) + f <= len
        BY <1>1, <1>2, <1>6
      <3>2. RunKnows(s \o InitCells(lo, c, f), c, len, lo)
        BY <1>6, <3>1, RunLonger DEF f
      <3>3. QED
        BY <1>6, <2>1, <3>2 DEF RunUp, f
    <2>2. CASE f # CarrySize
      BY <1>4, <1>6, <2>2 DEF RunUp, f
    <2>3. QED
      BY <2>1, <2>2
  <1>7. CASE Len(s) >= len \/ <<lo, c>> \notin Tile
    BY <1>3, <1>7 DEF RunUp
  <1>8. QED
    BY <1>5, <1>6, <1>7

(* A step of the run leads to positions again. *)
LEMMA RunUpFits ==
  ASSUME DeviceFits, NEW len \in Nat, NEW r, NEW c, NEW s \in Seq(Pos)
  PROVE  RunUp(s, c, len, r) \in Seq(Pos)
  <1> DEFINE f == FreeIn(r, c)
  <1>1. f \in 0..CarrySize /\ f \in Nat /\ CarrySize \in Nat /\ Len(s) \in Nat
    BY FreeInFits
  <1> HIDE DEF f
  <1>2. ASSUME <<r, c>> \in Tile, NEW m \in 0..f
        PROVE  s \o InitCells(r, c, m) \in Seq(Pos)
    <2>1. InitCells(r, c, m) \in Seq(Pos)
      BY <1>2, InitCellsFit DEF f
    <2>2. QED
      BY <2>1
  <1>3. ~(Len(s) >= len) /\ Len(s) + f >= len => len - Len(s) \in 0..f
    BY <1>1
  <1>4. f \in 0..f /\ <<>> \in Seq(Pos)
    BY <1>1
  <1>5. QED
    BY <1>2, <1>3, <1>4 DEF RunUp, f

(* The steps of InitRun, from the bottom row up. *)
IsRun(h, c, len) ==
    /\ h[0] = <<>>
    /\ \A k \in 1..(BotRow + 1) : h[k] = RunUp(h[k - 1], c, len, BotRow - k + 1)

(* The run that init_place_carrychain places a chain on is made by them.   *)
LEMMA InitRunSteps ==
  ASSUME DeviceFits, NEW len \in Nat, NEW c, NEW ps, ps = InitRun(c, len), ps # <<>>
  PROVE  \E h : IsRun(h, c, len) /\ ps = h[BotRow + 1] /\ Len(ps) = len
  <1> DEFINE zs      == CarryChain[1]
             free(r) == Lowest({m \in 0..Len(zs) : m = Len(zs) \/ slot[<<<<r, c>>, zs[m + 1]>>] # NULL})
             cells(r, m) == [k \in 1..m |-> <<<<r, c>>, zs[k]>>]
             N       == BotRow + 1
             Row(k)  == BotRow - k + 1
             Raw(s, r) == IF Len(s) >= len \/ <<r, c>> \notin Tile THEN s
                          ELSE IF Len(s) + free(r) >= len THEN s \o cells(r, len - Len(s))
                          ELSE IF free(r) = Len(zs) THEN s \o cells(r, free(r))
                          ELSE <<>>
             Def(h)  == h = [k \in 0..N |-> IF k = 0 THEN <<>> ELSE Raw(h[k - 1], Row(k))]
             h       == CHOOSE g : Def(g)
             Up(s, k) == RunUp(s, c, len, Row(k))
             G       == [k \in Nat |-> [s \in Seq(Pos) |-> Up(s, k)]]
             V       == Seq(Pos)
  <1>1. BotRow \in Nat /\ CarrySize \in Nat /\ Len(zs) = CarrySize /\ N \in Nat
    BY DEF DeviceFits
  <1>2. ps = IF <<BotRow, c>> \in Tile /\ Len(h[N]) = len THEN h[N] ELSE <<>>
    BY DEF InitRun
  <1>3. \A s, r : Raw(s, r) = RunUp(s, c, len, r)
    BY <1>1 DEF RunUp, FreeIn, InitCells
  <1> HIDE DEF Raw, zs
  <1>4. \A s \in V : \A k \in Nat : Up(s, k) \in V
    BY RunUpFits
  <1>5. <<>> \in V
    OBVIOUS
  <1> HIDE DEF Up, V
  <1>6. G \in [Nat -> [V -> V]]
    BY <1>4 DEF V
  <1>7. PICK f : Iterates(f, V, <<>>, G, N)
    <2> HIDE DEF G, N
    <2> QED
      BY <1>1, <1>5, <1>6, IterateExists
  <1>8. f \in [0..N -> V] /\ f[0] = <<>> /\ \A k \in 1..N : f[k] = Up(f[k - 1], k)
    <2>1. \A k \in 1..N : k \in Nat /\ k - 1 \in 0..N
      BY <1>1
    <2>2. QED
      BY <1>7, <2>1 DEF Iterates, V
  <1>9. Def(f)
    <2>1. f = [k \in 0..N |-> f[k]]
      BY <1>8
    <2>2. \A k \in 0..N : f[k] = (IF k = 0 THEN <<>> ELSE Raw(f[k - 1], Row(k)))
      BY <1>1, <1>3, <1>8 DEF Up
    <2>3. QED
      BY <2>1, <2>2
  <1>10. Def(h)
    <2> HIDE DEF Def
    <2> QED
      BY <1>9
  <1> HIDE DEF h
  <1>11. h[0] = <<>> /\ \A k \in 1..N : h[k] = RunUp(h[k - 1], c, len, Row(k))
    BY <1>10, <1>1, <1>3
  <1>12. QED
    <2>1. ps = h[N] /\ Len(ps) = len
      BY <1>2
    <2>2. IsRun(h, c, len)
      BY <1>11 DEF IsRun
    <2>3. QED
      BY <2>1, <2>2

(* It is free, and as long as the chain.                                   *)
LEMMA InitRunFits ==
  ASSUME DeviceFits, NEW len \in Nat, NEW c, NEW ps, ps = InitRun(c, len), ps # <<>>
  PROVE  /\ ps \in Seq(Pos) /\ Len(ps) = len
         /\ \A k \in 1..len : slot[ps[k]] = NULL
         /\ \A j, k \in 1..len : ps[j] = ps[k] => j = k
  <1> DEFINE N == BotRow + 1
  <1>1. BotRow \in Nat /\ N \in Nat
    BY DEF DeviceFits
  <1>2. PICK h : IsRun(h, c, len) /\ ps = h[N] /\ Len(ps) = len
    BY InitRunSteps
  <1> DEFINE S == {k \in 0..N : RunKnows(h[k], c, len, BotRow - k + 1)}
  <1>3. 0 \in S
    <2>1. RunKnows(<<>>, c, len, BotRow - 0 + 1)
      BY DEF RunKnows
    <2>2. QED
      BY <1>1, <1>2, <2>1 DEF IsRun
  <1>4. ASSUME NEW k \in 1..N, k - 1 \in S
        PROVE  k \in S
    <2> DEFINE lo == BotRow - k + 1
    <2>1. lo \in Nat /\ BotRow - (k - 1) + 1 = lo + 1 /\ k \in 0..N
      BY <1>1
    <2>2. RunKnows(h[k - 1], c, len, lo + 1)
      BY <1>4, <2>1
    <2>3. h[k] = RunUp(h[k - 1], c, len, lo)
      BY <1>2 DEF IsRun
    <2> HIDE DEF lo
    <2>4. RunKnows(h[k], c, len, lo)
      BY <2>1, <2>2, <2>3, RunUpKnows
    <2>5. QED
      BY <2>1, <2>4 DEF lo
  <1>5. N \in S
    <2> HIDE DEF S, N
    <2>1. 0..N \subseteq S
      BY <1>1, <1>3, <1>4, BoundedInduction
    <2>2. QED
      BY <1>1, <2>1
  <1>6. RunKnows(h[N], c, len, BotRow - N + 1) /\ ps = h[N] /\ Len(ps) = len
    BY <1>2, <1>5
  <1>7. QED
    BY <1>6 DEF RunKnows

-----------------------------------------------------------------------------
(* The n pairs of an exchange: from is on slot a and to, or nothing, on    *)
(* slot b, never nothing on both, and no slot is in two places of it.      *)
Exchangeable(n, ex) ==
    /\ n \in Nat /\ DOMAIN ex = 1..n
    /\ \A k \in 1..n :
         /\ ex[k].a \in Pos /\ ex[k].b \in Pos
         /\ slot[ex[k].a] = ex[k].from /\ slot[ex[k].b] = ex[k].to
         /\ ex[k].from # NULL \/ ex[k].to # NULL
    /\ \A j, k \in 1..n : /\ ex[j].a # ex[k].b
                          /\ ex[j].a = ex[k].a => j = k
                          /\ ex[j].b = ex[k].b => j = k

(* The positions that Exchange makes of pl. *)
ExchangedPlaces(ex, pl) ==
    [i \in Inst |->
       IF \E k \in DOMAIN ex : ex[k].from = i
         THEN ex[CHOOSE k \in DOMAIN ex : ex[k].from = i].b
         ELSE IF \E k \in DOMAIN ex : ex[k].to = i
           THEN ex[CHOOSE k \in DOMAIN ex : ex[k].to = i].a
           ELSE pl[i]]

(* What the positions are after the exchange ex. *)
MovedBy(n, ex, pl, po) ==
    /\ \A k \in 1..n : /\ ex[k].from \in Inst \cup {NULL} /\ ex[k].to \in Inst \cup {NULL}
                       /\ ex[k].from # NULL => po[ex[k].from] = ex[k].b /\ pl[ex[k].from] = ex[k].a
                       /\ ex[k].to # NULL => po[ex[k].to] = ex[k].a /\ pl[ex[k].to] = ex[k].b
    /\ \A i \in Inst : (\A k \in 1..n : ex[k].from # i /\ ex[k].to # i) => po[i] = pl[i]
    /\ po \in [Inst -> Pos \cup {NULL}]

(* The exchange of instances that are where they think they are. *)
LEMMA ExchangeMoves ==
  ASSUME NullAssumption, NEW pl, Agree(slot, pl), NEW n, NEW ex, Exchangeable(n, ex),
         NEW po, po = ExchangedPlaces(ex, pl)
  PROVE  MovedBy(n, ex, pl, po)
  <1>1. /\ n \in Nat /\ DOMAIN ex = 1..n
        /\ \A k \in 1..n : ex[k].a \in Pos /\ ex[k].b \in Pos
        /\ \A k \in 1..n : slot[ex[k].a] = ex[k].from /\ slot[ex[k].b] = ex[k].to
        /\ \A j, k \in 1..n : ex[j].a # ex[k].b
        /\ \A j, k \in 1..n : ex[j].a = ex[k].a => j = k
        /\ \A j, k \in 1..n : ex[j].b = ex[k].b => j = k
    BY DEF Exchangeable
  <1>2. /\ slot \in [Pos -> Inst \cup {NULL}]
        /\ pl \in [Inst -> Pos \cup {NULL}]
        /\ \A p \in Pos : slot[p] # NULL => pl[slot[p]] = p
    BY DEF Agree
  <1>3. \A k \in 1..n : /\ ex[k].from \in Inst \cup {NULL} /\ ex[k].to \in Inst \cup {NULL}
                        /\ ex[k].from # NULL => pl[ex[k].from] = ex[k].a
                        /\ ex[k].to # NULL => pl[ex[k].to] = ex[k].b
    BY <1>1, <1>2
  <1>4. po = [i \in Inst |->
                IF \E k \in 1..n : ex[k].from = i
                  THEN ex[CHOOSE k \in 1..n : ex[k].from = i].b
                  ELSE IF \E k \in 1..n : ex[k].to = i
                    THEN ex[CHOOSE k \in 1..n : ex[k].to = i].a
                    ELSE pl[i]]
    BY <1>1 DEF ExchangedPlaces
  <1>5. ASSUME NEW k \in 1..n, ex[k].from # NULL
        PROVE  po[ex[k].from] = ex[k].b
    <2>1. \A j \in 1..n : ex[j].from = ex[k].from => j = k
      BY <1>1, <1>3, <1>5
    <2>2. (CHOOSE j \in 1..n : ex[j].from = ex[k].from) = k
      BY <2>1
    <2>3. ex[k].from \in Inst
      BY <1>3, <1>5
    <2>4. po[ex[k].from] = ex[CHOOSE j \in 1..n : ex[j].from = ex[k].from].b
      BY <1>4, <2>3
    <2>5. QED
      BY <2>2, <2>4
  <1>6. ASSUME NEW k \in 1..n, ex[k].to # NULL
        PROVE  po[ex[k].to] = ex[k].a
    <2>1. \A j \in 1..n : ex[j].to = ex[k].to => j = k
      BY <1>1, <1>3, <1>6
    <2>2. (CHOOSE j \in 1..n : ex[j].to = ex[k].to) = k
      BY <2>1
    <2>3. ex[k].to \in Inst
      BY <1>3, <1>6
    <2>4. \A j \in 1..n : ex[j].from # ex[k].to
      BY <1>1, <1>3, <1>6
    <2>5. po[ex[k].to] = ex[CHOOSE j \in 1..n : ex[j].to = ex[k].to].a
      BY <1>4, <2>3, <2>4
    <2>6. QED
      BY <2>2, <2>5
  <1>7. ASSUME NEW i \in Inst, \A k \in 1..n : ex[k].from # i /\ ex[k].to # i
        PROVE  po[i] = pl[i]
    BY <1>4, <1>7
  <1>8. \A i \in Inst : po[i] \in Pos \cup {NULL}
    <2> TAKE i \in Inst
    <2>1. i # NULL
      BY NullAssumption
    <2>2. CASE \E k \in 1..n : ex[k].from = i
      BY <1>1, <1>5, <2>1, <2>2
    <2>3. CASE \E k \in 1..n : ex[k].to = i
      BY <1>1, <1>6, <2>1, <2>3
    <2>4. CASE \A k \in 1..n : ex[k].from # i /\ ex[k].to # i
      BY <1>2, <1>7, <2>4
    <2>5. QED
      BY <2>2, <2>3, <2>4
  <1>9. po = [i \in Inst |-> po[i]]
    BY <1>4
  <1>10. po \in [Inst -> Pos \cup {NULL}]
    BY <1>8, <1>9
  <1>11. QED
    BY <1>3, <1>5, <1>6, <1>7, <1>10 DEF MovedBy

(* PosFrom and PosTo, with the positions pa before and po after.           *)
FromPos(sw, pa, po, k) == IF sw[k].from # NULL THEN pa[sw[k].from] ELSE po[sw[k].to]

ToPos(sw, pa, po, k) == IF sw[k].from # NULL THEN po[sw[k].from] ELSE pa[sw[k].to]

Moves(sw, i) == \E k \in DOMAIN sw : i \in {sw[k].from, sw[k].to}

(* The exchange in flight: its instances are still on the slots they came   *)
(* from, where the others are that they change places with.                *)
Flying(n, sw, sl, pa, po) ==
    /\ n \in Nat /\ Len(sw) = n /\ DOMAIN sw = 1..n
    /\ po \in [Inst -> Pos \cup {NULL}]
    /\ \A k \in 1..n :
         /\ sw[k].from \in Inst \cup {NULL} /\ sw[k].to \in Inst \cup {NULL}
         /\ sw[k].from # NULL \/ sw[k].to # NULL
         /\ FromPos(sw, pa, po, k) \in Pos /\ ToPos(sw, pa, po, k) \in Pos
         /\ sl[FromPos(sw, pa, po, k)] = sw[k].from /\ sl[ToPos(sw, pa, po, k)] = sw[k].to
         /\ sw[k].from # NULL => po[sw[k].from] = ToPos(sw, pa, po, k)
         /\ sw[k].to # NULL => po[sw[k].to] = FromPos(sw, pa, po, k)
    /\ \A j, k \in 1..n :
         /\ FromPos(sw, pa, po, j) # ToPos(sw, pa, po, k)
         /\ FromPos(sw, pa, po, j) = FromPos(sw, pa, po, k) => j = k
         /\ ToPos(sw, pa, po, j) = ToPos(sw, pa, po, k) => j = k
    /\ \A i \in Inst : ~Moves(sw, i) => po[i] = pa[i]

(* What the swaps of the exchange ex are. *)
SwapsOf(n, sw, ex) ==
    /\ Len(sw) = n /\ DOMAIN sw = 1..n
    /\ \A k \in 1..n : sw[k].from = ex[k].from /\ sw[k].to = ex[k].to

(* The swaps that Exchange keeps have the instances of its pairs. *)
LEMMA SwapsFit ==
  ASSUME NEW n \in Nat, NEW ex, DOMAIN ex = 1..n,
         NEW sw, sw = [k \in DOMAIN ex |-> [from |-> ex[k].from, to |-> ex[k].to]]
  PROVE  SwapsOf(n, sw, ex)
  <1>1. DOMAIN sw = 1..n /\ \A k \in 1..n : sw[k].from = ex[k].from /\ sw[k].to = ex[k].to
    OBVIOUS
  <1>2. Len(sw) = n
    <2> DEFINE W == {[from |-> ex[k].from, to |-> ex[k].to] : k \in 1..n}
    <2>1. sw \in [1..n -> W]
      OBVIOUS
    <2> HIDE DEF W
    <2>2. QED
      BY <2>1
  <1>3. QED
    BY <1>1, <1>2 DEF SwapsOf

(* Once the positions have changed, the exchange is in flight. *)
LEMMA ExchangeFlies ==
  ASSUME NEW pl, NEW n, NEW ex, Exchangeable(n, ex), NEW po, MovedBy(n, ex, pl, po), NEW sw, SwapsOf(n, sw, ex)
  PROVE  Flying(n, sw, slot, pl, po)
  <1> DEFINE F(k) == FromPos(sw, pl, po, k)
             T(k) == ToPos(sw, pl, po, k)
  <1>1. /\ n \in Nat
        /\ \A k \in 1..n : ex[k].a \in Pos /\ ex[k].b \in Pos
        /\ \A k \in 1..n : slot[ex[k].a] = ex[k].from /\ slot[ex[k].b] = ex[k].to
        /\ \A k \in 1..n : ex[k].from # NULL \/ ex[k].to # NULL
        /\ \A j, k \in 1..n : ex[j].a # ex[k].b
        /\ \A j, k \in 1..n : ex[j].a = ex[k].a => j = k
        /\ \A j, k \in 1..n : ex[j].b = ex[k].b => j = k
    BY DEF Exchangeable
  <1>2. /\ Len(sw) = n /\ DOMAIN sw = 1..n
        /\ \A k \in 1..n : sw[k].from = ex[k].from /\ sw[k].to = ex[k].to
    BY DEF SwapsOf
  <1>3. ASSUME NEW k \in 1..n
        PROVE  /\ sw[k].from \in Inst \cup {NULL} /\ sw[k].to \in Inst \cup {NULL}
               /\ sw[k].from # NULL \/ sw[k].to # NULL
               /\ F(k) = ex[k].a /\ T(k) = ex[k].b
               /\ slot[F(k)] = sw[k].from /\ slot[T(k)] = sw[k].to
               /\ sw[k].from # NULL => po[sw[k].from] = T(k)
               /\ sw[k].to # NULL => po[sw[k].to] = F(k)
    <2>1. /\ ex[k].from \in Inst \cup {NULL} /\ ex[k].to \in Inst \cup {NULL}
          /\ ex[k].from # NULL => po[ex[k].from] = ex[k].b /\ pl[ex[k].from] = ex[k].a
          /\ ex[k].to # NULL => po[ex[k].to] = ex[k].a /\ pl[ex[k].to] = ex[k].b
      BY DEF MovedBy
    <2>2. sw[k].from = ex[k].from /\ sw[k].to = ex[k].to
      BY <1>2
    <2>3. ex[k].from # NULL \/ ex[k].to # NULL
      BY <1>1
    <2>4. F(k) = ex[k].a /\ T(k) = ex[k].b
      BY <2>1, <2>2, <2>3 DEF FromPos, ToPos
    <2>5. slot[ex[k].a] = ex[k].from /\ slot[ex[k].b] = ex[k].to
      BY <1>1
    <2>6. QED
      BY <2>1, <2>2, <2>3, <2>4, <2>5
  <1> HIDE DEF F, T
  <1>4. \A j, k \in 1..n : /\ F(j) # T(k)
                           /\ F(j) = F(k) => j = k
                           /\ T(j) = T(k) => j = k
    BY <1>1, <1>3
  <1>5. \A i \in Inst : ~Moves(sw, i) => po[i] = pl[i]
    <2> SUFFICES ASSUME NEW i \in Inst, ~Moves(sw, i)
                 PROVE  po[i] = pl[i]
      OBVIOUS
    <2>1. \A k \in 1..n : sw[k].from # i /\ sw[k].to # i
      BY <1>2 DEF Moves
    <2>2. \A k \in 1..n : ex[k].from # i /\ ex[k].to # i
      BY <1>2, <2>1
    <2>3. QED
      BY <2>2 DEF MovedBy
  <1>6. po \in [Inst -> Pos \cup {NULL}]
    BY DEF MovedBy
  <1>7. \A k \in 1..n : F(k) \in Pos /\ T(k) \in Pos
    BY <1>1, <1>3
  <1>8. QED
    BY <1>1, <1>2, <1>3, <1>4, <1>5, <1>6, <1>7 DEF Flying, F, T

(* An instance that changes its place alone, or with one other.            *)
LEMMA OneExchangeable ==
  ASSUME NEW f, NEW t, NEW a \in Pos, NEW b \in Pos, a # b, slot[a] = f, slot[b] = t, f # NULL,
         NEW ex, ex = <<Pair(f, t, a, b)>>
  PROVE  Exchangeable(1, ex)
  <1>1. DOMAIN ex = 1..1 /\ \A k \in 1..1 : k = 1 /\ ex[k] = Pair(f, t, a, b)
    OBVIOUS
  <1>2. /\ Pair(f, t, a, b).from = f /\ Pair(f, t, a, b).to = t
        /\ Pair(f, t, a, b).a = a /\ Pair(f, t, a, b).b = b
    BY DEF Pair
  <1>3. QED
    BY <1>1, <1>2 DEF Exchangeable

(* Two tiles, one of them full. *)
LEMMA TilesExchangeable ==
  ASSUME DeviceFits, NEW t \in Tile, NEW u \in Tile, t # u,
         \/ \A z \in Z : slot[<<t, z>>] # NULL
         \/ \A z \in Z : slot[<<u, z>>] # NULL,
         NEW ex, ex = TileExchange(t, u)
  PROVE  /\ Exchangeable(NumSlices, ex)
         /\ \A k \in 1..NumSlices : ex[k] = Pair(slot[<<t, k - 1>>], slot[<<u, k - 1>>], <<t, k - 1>>, <<u, k - 1>>)
  <1>1. NumSlices \in Nat /\ \A k \in 1..NumSlices : k - 1 \in Z
    BY DEF DeviceFits, Z
  <1>2. DOMAIN ex = 1..NumSlices
        /\ \A k \in 1..NumSlices : ex[k] = Pair(slot[<<t, k - 1>>], slot[<<u, k - 1>>], <<t, k - 1>>, <<u, k - 1>>)
    BY DEF TileExchange
  <1>3. ASSUME NEW k \in 1..NumSlices
        PROVE  /\ ex[k].from = slot[<<t, k - 1>>] /\ ex[k].to = slot[<<u, k - 1>>]
               /\ ex[k].a = <<t, k - 1>> /\ ex[k].b = <<u, k - 1>>
               /\ <<t, k - 1>> \in Pos /\ <<u, k - 1>> \in Pos
               /\ ex[k].from # NULL \/ ex[k].to # NULL
    <2>1. /\ ex[k].from = slot[<<t, k - 1>>] /\ ex[k].to = slot[<<u, k - 1>>]
          /\ ex[k].a = <<t, k - 1>> /\ ex[k].b = <<u, k - 1>>
      BY <1>2 DEF Pair
    <2>2. k - 1 \in Z
      BY <1>1
    <2>3. QED
      BY <2>1, <2>2 DEF Pos
  <1>4. \A j, k \in 1..NumSlices : j - 1 = k - 1 => j = k
    BY <1>1
  <1>5. \A j, k \in 1..NumSlices : /\ ex[j].a # ex[k].b
                                   /\ ex[j].a = ex[k].a => j = k
                                   /\ ex[j].b = ex[k].b => j = k
    <2> TAKE j, k \in 1..NumSlices
    <2>1. /\ ex[j].a = <<t, j - 1>> /\ ex[j].b = <<u, j - 1>>
          /\ ex[k].a = <<t, k - 1>> /\ ex[k].b = <<u, k - 1>>
      BY <1>3
    <2>2. QED
      BY <1>4, <2>1
  <1>6. QED
    BY <1>1, <1>2, <1>3, <1>5 DEF Exchangeable

(* The members is of a chain, on the positions pl, and the slots cs.       *)
ChainPairs(ex, is, cs, pl) == ex = [k \in DOMAIN is |-> Pair(is[k], slot[cs[k]], pl[is[k]], cs[k])]

(* A chain and slots that are open. *)
LEMMA ChainExchangeable ==
  ASSUME NullAssumption, NEW pl, Agree(slot, pl), NEW n \in Nat, NEW is, DOMAIN is = 1..n,
         \A k \in 1..n : is[k] \in Inst /\ IsMacro(is[k]) /\ pl[is[k]] # NULL,
         \A j, k \in 1..n : is[j] = is[k] => j = k,
         NEW cs, \A k \in 1..n : cs[k] \in Pos /\ IsOpen(slot, cs[k]),
         \A j, k \in 1..n : cs[j] = cs[k] => j = k,
         NEW ex, ChainPairs(ex, is, cs, pl)
  PROVE  /\ Exchangeable(n, ex)
         /\ \A k \in 1..n : ex[k].from = is[k] /\ ex[k].to = slot[cs[k]]
  <1>1. /\ slot \in [Pos -> Inst \cup {NULL}]
        /\ pl \in [Inst -> Pos \cup {NULL}]
        /\ \A i \in Inst : pl[i] # NULL => slot[pl[i]] = i
    BY DEF Agree
  <1>2. ASSUME NEW k \in 1..n
        PROVE  /\ ex[k].from = is[k] /\ ex[k].to = slot[cs[k]]
               /\ ex[k].a = pl[is[k]] /\ ex[k].b = cs[k]
    BY DEF Pair, ChainPairs
  <1>3. ASSUME NEW k \in 1..n
        PROVE  pl[is[k]] \in Pos /\ slot[pl[is[k]]] = is[k] /\ is[k] # NULL
    BY <1>1, NullAssumption
  <1>4. ASSUME NEW j \in 1..n, NEW k \in 1..n
        PROVE  pl[is[j]] # cs[k]
    <2>1. ~IsOpen(slot, pl[is[j]])
      BY <1>3 DEF IsOpen
    <2>2. QED
      BY <2>1
  <1>5. \A j, k \in 1..n : pl[is[j]] = pl[is[k]] => j = k
    BY <1>3
  <1>6. DOMAIN ex = 1..n
    BY DEF ChainPairs
  <1>7. QED
    BY <1>2, <1>3, <1>4, <1>5, <1>6 DEF Exchangeable

-----------------------------------------------------------------------------
(* The members of the objects that are placed, those before nx, have a      *)
(* position, the others have none, and the pairs fill their tiles.         *)
PlacedAre(nx, pl) ==
    \A o \in 1..(nx - 1) : \A k \in DOMAIN InstsOf(o) : pl[InstsOf(o)[k]] # NULL

UnplacedAre(nx, pl) ==
    \A o \in nx..Len(nl.objects) : \A k \in DOMAIN InstsOf(o) : pl[InstsOf(o)[k]] = NULL

PairsWhole(nx, pl) ==
    \A o \in 1..(nx - 1) :
        TypeOf(o) = "LUT6" =>
            \E t \in Tile : pl[InstsOf(o)[1]] = <<t, 0>> /\ pl[InstsOf(o)[2]] = <<t, 1>>

(* The members of an object. *)
LEMMA MembersFit ==
  ASSUME ObjectsFit, NEW o \in DOMAIN nl.objects
  PROVE  /\ Len(InstsOf(o)) \in Nat \ {0} /\ DOMAIN InstsOf(o) = 1..Len(InstsOf(o))
         /\ 1 \in 1..Len(InstsOf(o))
         /\ \A k \in 1..Len(InstsOf(o)) : /\ InstsOf(o)[k] \in Inst
                                          /\ ~IsFixed(InstsOf(o)[k])
                                          /\ SwapType(InstsOf(o)[k]) = TypeOf(o)
         /\ \A j, k \in 1..Len(InstsOf(o)) : InstsOf(o)[j] = InstsOf(o)[k] => j = k
         /\ o \in 1..Len(nl.objects)
  <1> DEFINE is == InstsOf(o)
  <1>1. /\ is \in Seq(Inst) /\ is # <<>>
        /\ \A k \in DOMAIN is : ~IsFixed(is[k])
        /\ \A j, k \in DOMAIN is : is[j] = is[k] => j = k
        /\ \A u \in DOMAIN nl.objects : \A i \in ElemsOf(is) : i \in ElemsOf(InstsOf(u)) => u = o
    BY DEF ObjectsFit
  <1>2. Len(is) \in Nat \ {0} /\ DOMAIN is = 1..Len(is) /\ 1 \in 1..Len(is)
    BY <1>1
  <1>3. ASSUME NEW k \in 1..Len(is)
        PROVE  SwapType(is[k]) = TypeOf(o)
    <2>1. is[k] \in ElemsOf(is)
      BY <1>2 DEF ElemsOf
    <2>2. \A u \in DOMAIN nl.objects : is[k] \in ElemsOf(InstsOf(u)) => u = o
      BY <1>1, <2>1
    <2>3. (CHOOSE u \in DOMAIN nl.objects : is[k] \in ElemsOf(InstsOf(u))) = o
      BY <2>1, <2>2
    <2>4. QED
      BY <2>1, <2>3 DEF SwapType
  <1>4. o \in 1..Len(nl.objects)
    BY DEF ObjectsFit
  <1>5. QED
    BY <1>1, <1>2, <1>3, <1>4

(* An instance of a macro is a member of an object of that type.           *)
LEMMA MacroMember ==
  ASSUME ObjectsFit, NEW i, SwapType(i) # "SITE"
  PROVE  /\ SwapType(i) \in {"CARRY_CHAIN", "LUT6"} /\ IsMacro(i) /\ ~IsFixed(i)
         /\ \E o \in DOMAIN nl.objects : \E k \in 1..Len(InstsOf(o)) : InstsOf(o)[k] = i /\ TypeOf(o) = SwapType(i)
  <1>1. \E o \in DOMAIN nl.objects : i \in ElemsOf(InstsOf(o))
    BY DEF SwapType
  <1>2. PICK o \in DOMAIN nl.objects : i \in ElemsOf(InstsOf(o)) /\ SwapType(i) = TypeOf(o)
    BY <1>1 DEF SwapType
  <1>3. PICK k \in 1..Len(InstsOf(o)) : InstsOf(o)[k] = i
    BY <1>2, MembersFit DEF ElemsOf
  <1>4. ~IsFixed(i)
    BY <1>3, MembersFit
  <1>5. TypeOf(o) \in {"CARRY_CHAIN", "LUT6", "SITE"}
    BY DEF ObjectsFit
  <1>6. QED
    BY <1>2, <1>3, <1>4, <1>5 DEF IsMacro

(* The macro of a tile. *)
LEMMA MacroTypeFits ==
  ASSUME DeviceFits, ObjectsFit, NEW t
  PROVE  /\ MacroType(t) \in {"SITE", "CARRY_CHAIN", "LUT6"}
         /\ MacroType(t) = "SITE" => \A z \in Z : slot[<<t, z>>] # NULL => SwapType(slot[<<t, z>>]) = "SITE"
         /\ MacroType(t) # "SITE" =>
              \E z \in Z : slot[<<t, z>>] # NULL /\ SwapType(slot[<<t, z>>]) = MacroType(t)
  <1> DEFINE S == {z \in Z : slot[<<t, z>>] # NULL /\ IsMacro(slot[<<t, z>>])}
  <1>1. MacroType(t) = IF S = {} THEN "SITE" ELSE SwapType(slot[<<t, Lowest(S)>>])
    BY DEF MacroType
  <1>2. S \subseteq Nat
    BY DEF Z, DeviceFits
  <1>3. CASE S = {}
    BY <1>1, <1>3 DEF IsMacro
  <1>4. CASE S # {}
    <2>1. Lowest(S) \in S
      <3> HIDE DEF S
      <3>1. QED
        BY <1>2, <1>4, LowestFits
    <2>2. /\ Lowest(S) \in Z /\ slot[<<t, Lowest(S)>>] # NULL
          /\ SwapType(slot[<<t, Lowest(S)>>]) # "SITE"
          /\ MacroType(t) = SwapType(slot[<<t, Lowest(S)>>])
      BY <1>1, <1>4, <2>1 DEF IsMacro
    <2> HIDE DEF S
    <2>3. MacroType(t) \in {"CARRY_CHAIN", "LUT6"}
      BY <2>2, MacroMember
    <2>4. QED
      BY <2>2, <2>3
  <1>5. QED
    BY <1>3, <1>4

(* A tile with a member of a pair holds the pair and nothing else.         *)
LEMMA PairFills ==
  ASSUME DeviceFits, ObjectsFit, NEW pl, Agree(slot, pl), PairsWhole(Len(nl.objects) + 1, pl),
         NEW t \in Tile, NEW z \in Z, slot[<<t, z>>] # NULL, SwapType(slot[<<t, z>>]) = "LUT6"
  PROVE  NumSlices = 2 /\ \A y \in Z : slot[<<t, y>>] # NULL /\ SwapType(slot[<<t, y>>]) = "LUT6"
  <1> DEFINE i == slot[<<t, z>>]
  <1>1. PICK o \in DOMAIN nl.objects : \E k \in 1..Len(InstsOf(o)) : InstsOf(o)[k] = i /\ TypeOf(o) = "LUT6"
    BY MacroMember
  <1>2. PICK k \in 1..Len(InstsOf(o)) : InstsOf(o)[k] = i
    BY <1>1
  <1>3. Len(InstsOf(o)) = 2 /\ NumSlices = 2 /\ TypeOf(o) = "LUT6"
    BY <1>1 DEF ObjectsFit
  <1>4. o \in 1..((Len(nl.objects) + 1) - 1)
    BY DEF ObjectsFit
  <1>5. PICK u \in Tile : pl[InstsOf(o)[1]] = <<u, 0>> /\ pl[InstsOf(o)[2]] = <<u, 1>>
    BY <1>3, <1>4 DEF PairsWhole
  <1>6. /\ \A p \in Pos : slot[p] # NULL => pl[slot[p]] = p
        /\ \A j \in Inst : pl[j] # NULL => slot[pl[j]] = j
    BY DEF Agree
  <1>7. <<t, z>> \in Pos /\ pl[i] = <<t, z>>
    BY <1>6 DEF Pos
  <1>8. k = 1 \/ k = 2
    BY <1>3
  <1>9. u = t
    BY <1>2, <1>5, <1>7, <1>8
  <1>10. Z = {0, 1}
    BY <1>3 DEF Z
  <1>11. <<t, 0>> \in Pos /\ <<t, 1>> \in Pos /\ NULL \notin Pos
    BY <1>10 DEF Pos, DeviceFits
  <1>12. \A j \in 1..2 : InstsOf(o)[j] \in Inst /\ SwapType(InstsOf(o)[j]) = "LUT6"
    BY <1>3, MembersFit
  <1>13. slot[<<t, 0>>] = InstsOf(o)[1] /\ slot[<<t, 1>>] = InstsOf(o)[2]
    BY <1>5, <1>6, <1>9, <1>11, <1>12
  <1>14. \A j \in 1..2 : InstsOf(o)[j] # NULL
    BY <1>12, NullAssumption
  <1>15. QED
    BY <1>3, <1>10, <1>12, <1>13, <1>14

(* An exchange without members of pairs leaves the pairs where they are.   *)
LEMMA PairsStay ==
  ASSUME ObjectsFit, NullAssumption, NEW pl, PairsWhole(Len(nl.objects) + 1, pl),
         NEW n, NEW ex, NEW po, MovedBy(n, ex, pl, po),
         \A k \in 1..n : /\ ex[k].from # NULL => SwapType(ex[k].from) # "LUT6"
                         /\ ex[k].to # NULL => SwapType(ex[k].to) # "LUT6"
  PROVE  PairsWhole(Len(nl.objects) + 1, po)
  <1> SUFFICES ASSUME NEW o \in 1..((Len(nl.objects) + 1) - 1), TypeOf(o) = "LUT6"
               PROVE  \E t \in Tile : po[InstsOf(o)[1]] = <<t, 0>> /\ po[InstsOf(o)[2]] = <<t, 1>>
    BY DEF PairsWhole
  <1>1. o \in DOMAIN nl.objects
    BY DEF ObjectsFit
  <1>2. Len(InstsOf(o)) = 2
    BY <1>1 DEF ObjectsFit
  <1>3. \A j \in 1..2 : /\ InstsOf(o)[j] \in Inst /\ InstsOf(o)[j] # NULL
                        /\ SwapType(InstsOf(o)[j]) = "LUT6"
    BY <1>1, <1>2, MembersFit, NullAssumption
  <1>4. \A j \in 1..2 : \A k \in 1..n : ex[k].from # InstsOf(o)[j] /\ ex[k].to # InstsOf(o)[j]
    BY <1>3
  <1>5. \A j \in 1..2 : po[InstsOf(o)[j]] = pl[InstsOf(o)[j]]
    BY <1>3, <1>4 DEF MovedBy
  <1>6. po[InstsOf(o)[1]] = pl[InstsOf(o)[1]] /\ po[InstsOf(o)[2]] = pl[InstsOf(o)[2]]
    BY <1>5
  <1>7. QED
    BY <1>6 DEF PairsWhole

(* One of whole tiles leaves them together. *)
LEMMA PairsMove ==
  ASSUME DeviceFits, ObjectsFit, NullAssumption, NEW pl, Agree(slot, pl), PairsWhole(Len(nl.objects) + 1, pl),
         NEW t \in Tile, NEW u \in Tile, NumSlices = 2, NEW ex, NEW po, MovedBy(2, ex, pl, po),
         \A k \in 1..2 : ex[k] = Pair(slot[<<t, k - 1>>], slot[<<u, k - 1>>], <<t, k - 1>>, <<u, k - 1>>)
  PROVE  PairsWhole(Len(nl.objects) + 1, po)
  <1> SUFFICES ASSUME NEW o \in 1..((Len(nl.objects) + 1) - 1), TypeOf(o) = "LUT6"
               PROVE  \E w \in Tile : po[InstsOf(o)[1]] = <<w, 0>> /\ po[InstsOf(o)[2]] = <<w, 1>>
    BY DEF PairsWhole
  <1>1. o \in DOMAIN nl.objects
    BY DEF ObjectsFit
  <1>2. Len(InstsOf(o)) = 2
    BY <1>1 DEF ObjectsFit
  <1>3. \A j \in 1..2 : InstsOf(o)[j] \in Inst /\ InstsOf(o)[j] # NULL
    BY <1>1, <1>2, MembersFit, NullAssumption
  <1> DEFINE i(j) == InstsOf(o)[j]
  <1>4. PICK v \in Tile : pl[i(1)] = <<v, 0>> /\ pl[i(2)] = <<v, 1>>
    BY DEF PairsWhole
  <1>5. \A j \in 1..2 : pl[i(j)] = <<v, j - 1>>
    BY <1>4
  <1>6. \A w \in Tile : \A k \in 1..2 : <<w, k - 1>> \in Pos
    BY DEF Pos, Z
  <1>7. \A j \in 1..2 : slot[<<v, j - 1>>] = i(j)
    <2> TAKE j \in 1..2
    <2>1. i(j) \in Inst /\ pl[i(j)] = <<v, j - 1>> /\ <<v, j - 1>> \in Pos
      BY <1>3, <1>5, <1>6
    <2>2. NULL \notin Pos
      BY DEF DeviceFits
    <2>3. \A w \in Inst : pl[w] # NULL => slot[pl[w]] = w
      BY DEF Agree
    <2> HIDE DEF i
    <2>4. QED
      BY <2>1, <2>2, <2>3
  <1>8. \A k \in 1..2 : /\ ex[k].from = slot[<<t, k - 1>>] /\ ex[k].to = slot[<<u, k - 1>>]
                        /\ ex[k].a = <<t, k - 1>> /\ ex[k].b = <<u, k - 1>>
    BY DEF Pair
  <1>9. \A k \in 1..2 : /\ ex[k].from # NULL => po[ex[k].from] = ex[k].b /\ pl[ex[k].from] = ex[k].a
                        /\ ex[k].to # NULL => po[ex[k].to] = ex[k].a /\ pl[ex[k].to] = ex[k].b
    BY DEF MovedBy
  <1> HIDE DEF i
  <1>10. \A j \in 1..2 : i(j) # NULL /\ i(j) \in Inst
    BY <1>3 DEF i
  <1>11. CASE v = t
    <2>1. \A j \in 1..2 : po[i(j)] = <<u, j - 1>>
      BY <1>7, <1>8, <1>9, <1>10, <1>11
    <2>2. po[i(1)] = <<u, 0>> /\ po[i(2)] = <<u, 1>>
      BY <2>1
    <2>3. QED
      BY <2>2 DEF i
  <1>12. CASE v = u
    <2>1. \A j \in 1..2 : po[i(j)] = <<t, j - 1>>
      BY <1>7, <1>8, <1>9, <1>10, <1>12
    <2>2. po[i(1)] = <<t, 0>> /\ po[i(2)] = <<t, 1>>
      BY <2>1
    <2>3. QED
      BY <2>2 DEF i
  <1>13. CASE v # t /\ v # u
    <2>1. \A j \in 1..2 : \A k \in 1..2 : ex[k].from # i(j) /\ ex[k].to # i(j)
      <3> TAKE j \in 1..2
      <3> TAKE k \in 1..2
      <3>1. pl[i(j)] # <<t, k - 1>> /\ pl[i(j)] # <<u, k - 1>>
        BY <1>5, <1>13 DEF i
      <3>2. QED
        BY <1>8, <1>9, <1>10, <3>1
    <2>2. \A j \in 1..2 : po[i(j)] = pl[i(j)]
      BY <1>10, <2>1 DEF MovedBy
    <2>3. po[i(1)] = <<v, 0>> /\ po[i(2)] = <<v, 1>>
      BY <1>4, <2>2 DEF i
    <2>4. QED
      BY <2>3 DEF i
  <1>14. QED
    BY <1>11, <1>12, <1>13

-----------------------------------------------------------------------------
(* The table q of qualified positions is what the slots sl make it.        *)
TableFits(q, sl) ==
    \A o \in ChainObjects : \A c \in Column : \A x \in CarryIndex :
        \A f : IsRoom(f, sl, c, x) => q[o][c][x] = HasRoom(f, Len(InstsOf(o)), c)

(* A table that fits holds the rows from which the chain fits. *)
LEMMA TableMeans ==
  ASSUME DeviceFits, ObjectsFit, NEW q, NEW sl, TableFits(q, sl),
         NEW o \in ChainObjects, NEW c \in Column, NEW x \in CarryIndex
  PROVE  q[o][c][x] = {r \in 0..(Rows - 1) : FitsOn(sl, Len(InstsOf(o)), r, c, x)}
  <1>1. PICK f : IsRoom(f, sl, c, x)
    BY RoomExists
  <1>2. Len(InstsOf(o)) \in Nat \ {0}
    BY MembersFit DEF ChainObjects
  <1>3. q[o][c][x] = HasRoom(f, Len(InstsOf(o)), c)
    BY <1>1 DEF TableFits
  <1>4. \A r \in 0..(Rows - 1) : FitsOn(sl, Len(InstsOf(o)), r, c, x) <=> r \in HasRoom(f, Len(InstsOf(o)), c)
    BY <1>1, <1>2, FitsRoom
  <1>5. HasRoom(f, Len(InstsOf(o)), c) \subseteq 0..(Rows - 1)
    BY DEF HasRoom
  <1>6. QED
    BY <1>3, <1>4, <1>5

(* What an exchange with tile u moves: pairs that fit, and no pair of      *)
(* slices apart.                                                           *)
GoodExchange(ex) ==
    \E n : Exchangeable(n, ex) /\ \E po : po = ExchangedPlaces(ex, pos) /\ PairsWhole(Len(nl.objects) + 1, po)

(* The state in which an exchange is looked for. *)
Searching ==
    /\ DeviceFits /\ ObjectsFit /\ NullAssumption
    /\ Agree(slot, pos)
    /\ PlacedAre(Len(nl.objects) + 1, pos)
    /\ PairsWhole(Len(nl.objects) + 1, pos)

(* The first member of the object is on its tile. *)
LEMMA BaseFits ==
  ASSUME Searching, NEW o \in DOMAIN nl.objects
  PROVE  /\ \A k \in 1..Len(InstsOf(o)) : /\ pos[InstsOf(o)[k]] \in Pos
                                          /\ slot[pos[InstsOf(o)[k]]] = InstsOf(o)[k]
                                          /\ InstsOf(o)[k] # NULL
         /\ BaseTile(o) \in Tile /\ pos[InstsOf(o)[1]][1] = BaseTile(o)
  <1>1. ASSUME NEW k \in 1..Len(InstsOf(o))
        PROVE  /\ pos[InstsOf(o)[k]] \in Pos
               /\ slot[pos[InstsOf(o)[k]]] = InstsOf(o)[k]
               /\ InstsOf(o)[k] # NULL
    <2>1. InstsOf(o)[k] \in Inst /\ o \in 1..((Len(nl.objects) + 1) - 1) /\ k \in DOMAIN InstsOf(o)
      BY MembersFit DEF Searching, ObjectsFit
    <2>2. pos[InstsOf(o)[k]] # NULL
      BY <2>1 DEF Searching, PlacedAre
    <2>3. QED
      BY <2>1, <2>2 DEF Searching, Agree, NullAssumption
  <1>2. 1 \in 1..Len(InstsOf(o))
    BY MembersFit DEF Searching
  <1>3. pos[InstsOf(o)[1]] \in Pos
    BY <1>1, <1>2
  <1>4. BaseTile(o) \in Tile
    BY <1>3 DEF BaseTile, Pos
  <1>5. QED
    BY <1>1, <1>4 DEF BaseTile

(* One instance that is no member of a pair, to a free slot or to one like it. *)
LEMMA OneGood ==
  ASSUME Searching, NEW f, NEW t, NEW a \in Pos, NEW b \in Pos, a # b, slot[a] = f, slot[b] = t,
         f # NULL, SwapType(f) # "LUT6", t # NULL => SwapType(t) # "LUT6",
         NEW ex, ex = <<Pair(f, t, a, b)>>
  PROVE  GoodExchange(ex)
  <1>1. Exchangeable(1, ex)
    BY OneExchangeable
  <1>2. PICK po : po = ExchangedPlaces(ex, pos)
    OBVIOUS
  <1>3. MovedBy(1, ex, pos, po)
    BY <1>1, <1>2, ExchangeMoves DEF Searching
  <1>4. \A k \in 1..1 : ex[k].from = f /\ ex[k].to = t
    BY DEF Pair
  <1>5. PairsWhole(Len(nl.objects) + 1, po)
    BY <1>3, <1>4, PairsStay DEF Searching
  <1>6. QED
    BY <1>1, <1>2, <1>5 DEF GoodExchange

(* Two whole tiles. *)
LEMMA TilesGood ==
  ASSUME Searching, NEW t \in Tile, NEW u \in Tile, t # u, NumSlices = 2,
         \/ \A z \in Z : slot[<<t, z>>] # NULL
         \/ \A z \in Z : slot[<<u, z>>] # NULL,
         NEW ex, ex = TileExchange(t, u)
  PROVE  GoodExchange(ex)
  <1>1. /\ Exchangeable(2, ex)
        /\ \A k \in 1..2 : ex[k] = Pair(slot[<<t, k - 1>>], slot[<<u, k - 1>>], <<t, k - 1>>, <<u, k - 1>>)
    BY TilesExchangeable DEF Searching
  <1>2. PICK po : po = ExchangedPlaces(ex, pos)
    OBVIOUS
  <1>3. MovedBy(2, ex, pos, po)
    BY <1>1, <1>2, ExchangeMoves DEF Searching
  <1>4. PairsWhole(Len(nl.objects) + 1, po)
    BY <1>1, <1>3, PairsMove DEF Searching
  <1>5. QED
    BY <1>1, <1>2, <1>4 DEF GoodExchange

(* A single slice and what is on tile u.                                   *)
LEMMA SiteGood ==
  ASSUME Searching, NEW o \in DOMAIN nl.objects, TypeOf(o) = "SITE", NEW u \in Tile,
         \A t \in Tile : occ[t] = Cardinality(Occupants(t)),
         SiteVerdict(o, u) = "take", NEW ex \in SiteExchanges(o, u)
  PROVE  GoodExchange(ex)
  <1> DEFINE i == InstsOf(o)[1]
             t == BaseTile(o)
  <1>1. /\ DeviceFits /\ ObjectsFit /\ NullAssumption /\ Agree(slot, pos)
        /\ PairsWhole(Len(nl.objects) + 1, pos)
    BY DEF Searching
  <1>2. /\ pos[i] \in Pos /\ slot[pos[i]] = i /\ i # NULL
        /\ t \in Tile /\ pos[i][1] = t /\ SwapType(i) = "SITE"
    BY <1>1, BaseFits, MembersFit
  <1>3. t # u
    BY DEF SiteVerdict, InReach
  <1>4. \A z \in Z : <<u, z>> \in Pos /\ <<u, z>> # pos[i]
    BY <1>2, <1>3 DEF Pos
  <1>5. CASE MacroType(u) = "SITE"
    <2>1. \/ occ[u] < NumSlices /\ ex = <<Pair(i, NULL, pos[i], <<u, UnoccZ(u)>>)>>
          \/ \E j \in Occupants(u) : ex = <<Pair(i, j, pos[i], pos[j])>>
      BY <1>5 DEF SiteExchanges
    <2>2. CASE occ[u] < NumSlices /\ ex = <<Pair(i, NULL, pos[i], <<u, UnoccZ(u)>>)>>
      <3>1. UnoccZ(u) \in Z /\ slot[<<u, UnoccZ(u)>>] = NULL
        <4>1. Cardinality(Occupants(u)) < NumSlices
          BY <2>2
        <4>2. QED
          BY <1>1, <4>1, FreeSlot
      <3>2. QED
        BY <1>2, <1>4, <2>2, <3>1, OneGood
    <2>3. CASE \E j \in Occupants(u) : ex = <<Pair(i, j, pos[i], pos[j])>>
      <3>1. PICK j \in Occupants(u) : ex = <<Pair(i, j, pos[i], pos[j])>>
        BY <2>3
      <3>2. PICK z \in Z : j = slot[<<u, z>>] /\ j # NULL
        BY DEF Occupants
      <3>3. pos[j] = <<u, z>>
        BY <1>1, <1>4, <3>2 DEF Agree
      <3>4. SwapType(j) = "SITE"
        BY <1>1, <1>5, <3>2, MacroTypeFits
      <3>5. QED
        BY <1>2, <1>4, <3>1, <3>2, <3>3, <3>4, OneGood
    <2>4. QED
      BY <2>1, <2>2, <2>3
  <1>6. CASE MacroType(u) = "LUT6"
    <2>1. ex = TileExchange(t, u)
      BY <1>6 DEF SiteExchanges
    <2>2. PICK z \in Z : slot[<<u, z>>] # NULL /\ SwapType(slot[<<u, z>>]) = "LUT6"
      BY <1>1, <1>6, MacroTypeFits
    <2>3. NumSlices = 2 /\ \A y \in Z : slot[<<u, y>>] # NULL
      BY <1>1, <2>2, PairFills
    <2>4. QED
      BY <1>2, <1>3, <2>1, <2>3, TilesGood
  <1>7. CASE MacroType(u) = "CARRY_CHAIN"
    <2> DEFINE S == {y \in Z : slot[<<u, y>>] = NULL \/ SwapType(slot[<<u, y>>]) # "CARRY_CHAIN"}
               z == Lowest(S)
    <2>1. ex = <<Pair(i, slot[<<u, z>>], pos[i], <<u, z>>)>>
      BY <1>7 DEF SiteExchanges
    <2>2. S # {}
      <3> SUFFICES ASSUME \A y \in Z : slot[<<u, y>>] # NULL /\ SwapType(slot[<<u, y>>]) = "CARRY_CHAIN"
                   PROVE  FALSE
        OBVIOUS
      <3> DEFINE Chained == {j \in Occupants(u) : ~IsFixed(j) /\ SwapType(j) = "CARRY_CHAIN"}
                 Held == {j \in Occupants(u) : IsFixed(j)}
      <3>1. Cardinality(Held) + Cardinality(Chained) < NumSlices
        BY <1>7 DEF SiteVerdict
      <3>2. \A j \in Occupants(u) : ~IsFixed(j) /\ SwapType(j) = "CARRY_CHAIN"
        <4>1. \A j \in Occupants(u) : SwapType(j) = "CARRY_CHAIN"
          BY DEF Occupants
        <4>2. QED
          BY <1>1, <4>1, MacroMember
      <3>3. Chained = Occupants(u) /\ Held = {}
        BY <3>2
      <3>4. Taken(slot, u) = Z
        BY DEF Taken
      <3>5. Cardinality(Occupants(u)) = NumSlices
        <4>1. Cardinality(Occupants(u)) = Cardinality(Taken(slot, u))
          BY <1>1, OccupantsCounted
        <4>2. Cardinality(Z) = NumSlices
          BY <1>1, TakenFinite
        <4>3. QED
          BY <3>4, <4>1, <4>2
      <3>6. Cardinality({}) + NumSlices < NumSlices
        BY <3>1, <3>3, <3>5
      <3>7. QED
        BY <1>1, <3>6, FS_EmptySet DEF DeviceFits
    <2>3. z \in S
      <3>1. S \subseteq Nat
        BY <1>1 DEF Z, DeviceFits
      <3> HIDE DEF S
      <3>2. QED
        BY <2>2, <3>1, LowestFits
    <2>4. z \in Z /\ (slot[<<u, z>>] = NULL \/ SwapType(slot[<<u, z>>]) # "CARRY_CHAIN")
      BY <2>3
    <2> HIDE DEF z, S
    <2>5. ASSUME slot[<<u, z>>] # NULL, SwapType(slot[<<u, z>>]) = "LUT6"
          PROVE  FALSE
      <3>1. \A y \in Z : slot[<<u, y>>] # NULL => SwapType(slot[<<u, y>>]) = "LUT6"
        BY <1>1, <2>4, <2>5, PairFills
      <3>2. PICK y \in Z : slot[<<u, y>>] # NULL /\ SwapType(slot[<<u, y>>]) = "CARRY_CHAIN"
        BY <1>1, <1>7, MacroTypeFits
      <3>3. QED
        BY <3>1, <3>2
    <2>6. QED
      <3>1. <<u, z>> \in Pos /\ <<u, z>> # pos[i]
        BY <1>4, <2>4
      <3>2. QED
        BY <1>2, <2>1, <2>5, <3>1, OneGood
  <1>8. QED
    BY <1>1, <1>5, <1>6, <1>7, MacroTypeFits

(* A pair and what is on tile u. *)
LEMMA Lut6Good ==
  ASSUME Searching, NEW o \in DOMAIN nl.objects, TypeOf(o) = "LUT6", NEW u \in Tile,
         Lut6Verdict(o, u) = "take", NEW ex, ex = TileExchange(BaseTile(o), u)
  PROVE  GoodExchange(ex)
  <1> DEFINE i == InstsOf(o)[1]
             t == BaseTile(o)
  <1>1. /\ DeviceFits /\ ObjectsFit /\ Agree(slot, pos)
        /\ PairsWhole(Len(nl.objects) + 1, pos)
    BY DEF Searching
  <1>2. /\ pos[i] \in Pos /\ slot[pos[i]] = i /\ i # NULL
        /\ t \in Tile /\ pos[i][1] = t /\ SwapType(i) = "LUT6"
    BY <1>1, BaseFits, MembersFit
  <1>3. t # u
    BY DEF Lut6Verdict, InReach
  <1>4. PICK z \in Z : pos[i] = <<t, z>>
    BY <1>2 DEF Pos
  <1>5. NumSlices = 2 /\ \A y \in Z : slot[<<t, y>>] # NULL
    BY <1>1, <1>2, <1>4, PairFills
  <1>6. QED
    BY <1>2, <1>3, <1>5, TilesGood

(* The slots from a qualified position up are there and open.              *)
LEMMA QualifiedCells ==
  ASSUME DeviceFits, ObjectsFit, TableFits(qual, slot), NEW o \in ChainObjects,
         NEW r \in 0..(Rows - 1), NEW c \in Column, NEW x \in CarryIndex, r \in qual[o][c][x],
         NEW cs, AreCells(cs, Len(InstsOf(o)), r, c, x)
  PROVE  /\ \A k \in 1..Len(InstsOf(o)) : cs[k] \in Pos /\ IsOpen(slot, cs[k])
         /\ \A j, k \in 1..Len(InstsOf(o)) : cs[j] = cs[k] => j = k
  <1>1. FitsOn(slot, Len(InstsOf(o)), r, c, x)
    BY TableMeans
  <1>2. Len(InstsOf(o)) \in Nat \ {0}
    BY MembersFit DEF ChainObjects
  <1>3. PICK len \in Nat \ {0} : len = Len(InstsOf(o))
    BY <1>2
  <1>4. FitsOn(slot, len, r, c, x) /\ AreCells(cs, len, r, c, x)
    BY <1>1, <1>3
  <1>5. \A k \in 1..len : cs[k] \in Pos /\ IsOpen(slot, cs[k])
    BY <1>4, FittingCells
  <1>6. \A j, k \in 1..len : cs[j] = cs[k] => j = k
    BY <1>4, FittingCells
  <1>7. QED
    BY <1>3, <1>5, <1>6, Zenon

(* A chain moved to open slots.                                            *)
LEMMA ChainMoves ==
  ASSUME Searching, NEW o \in DOMAIN nl.objects, TypeOf(o) = "CARRY_CHAIN",
         NEW is, is = InstsOf(o), NEW n \in Nat, DOMAIN is = 1..n,
         NEW cs, \A k \in 1..n : cs[k] \in Pos /\ IsOpen(slot, cs[k]),
         \A j, k \in 1..n : cs[j] = cs[k] => j = k,
         NEW ex, ChainPairs(ex, is, cs, pos)
  PROVE  GoodExchange(ex)
  <1>1. /\ DeviceFits /\ ObjectsFit /\ Agree(slot, pos) /\ NullAssumption
        /\ PairsWhole(Len(nl.objects) + 1, pos)
    BY DEF Searching
  <1>2. n = Len(is)
    BY <1>1, MembersFit
  <1>3. \A k \in 1..n : is[k] \in Inst /\ SwapType(is[k]) = "CARRY_CHAIN"
    BY <1>1, <1>2, MembersFit
  <1>4. \A j, k \in 1..n : is[j] = is[k] => j = k
    BY <1>1, <1>2, MembersFit
  <1>5. \A k \in 1..n : is[k] \in Inst /\ IsMacro(is[k]) /\ pos[is[k]] # NULL
    <2>1. NULL \notin Pos
      BY <1>1 DEF DeviceFits
    <2>2. \A k \in 1..n : pos[is[k]] \in Pos
      BY <1>2, BaseFits
    <2>3. QED
      BY <1>3, <2>1, <2>2 DEF IsMacro
  <1>6. /\ Exchangeable(n, ex)
        /\ \A k \in 1..n : ex[k].from = is[k] /\ ex[k].to = slot[cs[k]]
    BY <1>1, <1>4, <1>5, ChainExchangeable
  <1>7. PICK po : po = ExchangedPlaces(ex, pos)
    OBVIOUS
  <1>8. MovedBy(n, ex, pos, po)
    BY <1>1, <1>6, <1>7, ExchangeMoves
  <1>9. \A k \in 1..n : /\ ex[k].from # NULL => SwapType(ex[k].from) # "LUT6"
                        /\ ex[k].to # NULL => SwapType(ex[k].to) # "LUT6"
    BY <1>3, <1>6 DEF IsOpen, IsMacro
  <1>10. PairsWhole(Len(nl.objects) + 1, po)
    BY <1>1, <1>8, <1>9, PairsStay
  <1>11. QED
    BY <1>6, <1>7, <1>10 DEF GoodExchange

(* A chain and the tiles from u up.                                        *)
LEMMA ChainGood ==
  ASSUME Searching, NEW o \in DOMAIN nl.objects, TypeOf(o) = "CARRY_CHAIN", NEW u \in Tile,
         TableFits(qual, slot), ChainVerdict(o, u) = "take", NEW ex, ex = ChainExchange(o, u)
  PROVE  GoodExchange(ex)
  <1>1. /\ DeviceFits /\ ObjectsFit
    BY DEF Searching
  <1>2. o \in ChainObjects
    BY DEF ChainObjects
  <1>3. PICK r \in 0..(Rows - 1), c \in Column : r = u[1] /\ c = u[2]
    BY <1>1 DEF DeviceFits, Column
  <1>4. PICK x \in CarryIndex : x = Lowest(QualifiedAt(o, u)) /\ u[1] \in qual[o][u[2]][x]
    <2>1. QualifiedAt(o, u) # {}
      BY DEF ChainVerdict
    <2>2. QualifiedAt(o, u) \subseteq CarryIndex /\ CarryIndex \subseteq Nat
      BY <1>1 DEF QualifiedAt, DeviceFits
    <2>3. Lowest(QualifiedAt(o, u)) \in QualifiedAt(o, u)
      BY <2>1, <2>2, LowestFits
    <2>4. QED
      BY <2>2, <2>3 DEF QualifiedAt
  <1>5. PICK is : is = InstsOf(o)
    OBVIOUS
  <1>6. PICK cs : cs = ChainCells(Len(InstsOf(o)), u[1], u[2], (x - 1) * CarrySize)
    OBVIOUS
  <1>7. AreCells(cs, Len(InstsOf(o)), r, c, x) /\ r \in qual[o][c][x]
    BY <1>3, <1>4, <1>6 DEF AreCells
  <1>8. /\ \A k \in 1..Len(InstsOf(o)) : cs[k] \in Pos /\ IsOpen(slot, cs[k])
        /\ \A j, k \in 1..Len(InstsOf(o)) : cs[j] = cs[k] => j = k
    BY <1>1, <1>2, <1>7, QualifiedCells
  <1>9. PICK n \in Nat : n = Len(InstsOf(o)) /\ DOMAIN is = 1..n
    BY <1>1, <1>5, MembersFit
  <1>10. ChainPairs(ex, is, cs, pos)
    BY <1>4, <1>5, <1>6 DEF ChainExchange, ChainPairs
  <1>11. /\ \A k \in 1..n : cs[k] \in Pos /\ IsOpen(slot, cs[k])
         /\ \A j, k \in 1..n : cs[j] = cs[k] => j = k
    BY <1>8, <1>9
  <1>12. QED
    BY <1>5, <1>9, <1>10, <1>11, ChainMoves
-----------------------------------------------------------------------------
(* A function with two of its values replaced.                             *)
LEMMA TwoPut ==
  ASSUME NEW D, NEW V, NEW s \in [D -> V], NEW a \in D, NEW b \in D, a # b, NEW x \in V, NEW y \in V,
         NEW s2, s2 = [s EXCEPT ![a] = x, ![b] = y]
  PROVE  /\ s2 \in [D -> V] /\ s2[a] = x /\ s2[b] = y
         /\ \A d \in D : d # a /\ d # b => s2[d] = s[d]
  <1> DEFINE m == [s EXCEPT ![a] = x]
  <1>1. s2 = [m EXCEPT ![b] = y]
    BY Zenon
  <1>2. m \in [D -> V] /\ m[a] = x /\ \A d \in D : d # a => m[d] = s[d]
    OBVIOUS
  <1> HIDE DEF m
  <1>3. QED
    BY <1>1, <1>2

(* The slots s2 are sl with the first n pairs written.                     *)
WrittenAre(n, sw, pa, po, sl, s2) ==
    /\ s2 \in [Pos -> Inst \cup {NULL}]
    /\ \A k \in 1..n : s2[FromPos(sw, pa, po, k)] = sw[k].to /\ s2[ToPos(sw, pa, po, k)] = sw[k].from
    /\ \A p \in Pos : (\A k \in 1..n : p # FromPos(sw, pa, po, k) /\ p # ToPos(sw, pa, po, k)) => s2[p] = sl[p]

(* What maintain writes for one pair. *)
LEMMA WrittenLonger ==
  ASSUME NEW n, NEW sw, NEW sl, NEW pa, NEW po, Flying(n, sw, sl, pa, po), NEW k \in 1..n,
         NEW s, WrittenAre(k - 1, sw, pa, po, sl, s),
         NEW s2, s2 = [s EXCEPT ![FromPos(sw, pa, po, k)] = sw[k].to, ![ToPos(sw, pa, po, k)] = sw[k].from]
  PROVE  WrittenAre(k, sw, pa, po, sl, s2)
  <1> DEFINE F(j) == FromPos(sw, pa, po, j)
             T(j) == ToPos(sw, pa, po, j)
             V    == Inst \cup {NULL}
  <1>1. /\ n \in Nat
        /\ \A j \in 1..n : F(j) \in Pos /\ T(j) \in Pos
        /\ \A j \in 1..n : sw[j].from \in V /\ sw[j].to \in V
        /\ \A i, j \in 1..n : /\ F(i) # T(j)
                              /\ F(i) = F(j) => i = j
                              /\ T(i) = T(j) => i = j
    BY DEF Flying
  <1>2. /\ s \in [Pos -> V]
        /\ \A j \in 1..(k - 1) : s[F(j)] = sw[j].to /\ s[T(j)] = sw[j].from
        /\ \A p \in Pos : (\A j \in 1..(k - 1) : p # F(j) /\ p # T(j)) => s[p] = sl[p]
    BY DEF WrittenAre
  <1>3. s2 = [s EXCEPT ![F(k)] = sw[k].to, ![T(k)] = sw[k].from]
    BY Zenon
  <1> HIDE DEF F, T, V
  <1>4. /\ s2 \in [Pos -> V] /\ s2[F(k)] = sw[k].to /\ s2[T(k)] = sw[k].from
        /\ \A p \in Pos : p # F(k) /\ p # T(k) => s2[p] = s[p]
    <2>1. F(k) \in Pos /\ T(k) \in Pos /\ F(k) # T(k) /\ sw[k].to \in V /\ sw[k].from \in V /\ s \in [Pos -> V]
      BY <1>1, <1>2
    <2>2. PICK x \in V, y \in V, a \in Pos, b \in Pos : x = sw[k].to /\ y = sw[k].from /\ a = F(k) /\ b = T(k)
      BY <2>1
    <2>3. s2 = [s EXCEPT ![a] = x, ![b] = y]
      BY <1>3, <2>2, Zenon
    <2>4. a # b /\ s \in [Pos -> V]
      BY <2>1, <2>2
    <2>5. s2[a] = x /\ s2[b] = y
      BY <2>3, <2>4, TwoPut
    <2>6. s2 \in [Pos -> V]
      <3>1. [s EXCEPT ![a] = x] \in [Pos -> V]
        BY <2>4
      <3>2. QED
        BY <2>3, <3>1, Zenon
    <2>7. ASSUME NEW p \in Pos, p # a, p # b
          PROVE  s2[p] = s[p]
      BY <2>3, <2>4, <2>7, Zenon
    <2>8. QED
      BY <2>2, <2>5, <2>6, <2>7
  <1>5. \A j \in 1..k : s2[F(j)] = sw[j].to /\ s2[T(j)] = sw[j].from
    <2> TAKE j \in 1..k
    <2>1. CASE j = k
      BY <1>4, <2>1
    <2>2. CASE j # k
      <3>1. j \in 1..(k - 1) /\ j \in 1..n
        BY <1>1, <2>2
      <3>2. F(j) # F(k) /\ F(j) # T(k) /\ T(j) # F(k) /\ T(j) # T(k) /\ F(j) \in Pos /\ T(j) \in Pos
        BY <1>1, <2>2, <3>1
      <3>3. QED
        BY <1>2, <1>4, <3>1, <3>2
    <2>3. QED
      BY <2>1, <2>2
  <1>6. ASSUME NEW p \in Pos, \A j \in 1..k : p # F(j) /\ p # T(j)
        PROVE  s2[p] = sl[p]
    <2>1. k \in 1..k /\ \A j \in 1..(k - 1) : j \in 1..k
      BY <1>1
    <2>2. s2[p] = s[p]
      BY <1>4, <1>6, <2>1
    <2>3. QED
      BY <1>2, <1>6, <2>1, <2>2
  <1>7. QED
    BY <1>4, <1>5, <1>6 DEF WrittenAre, F, T, V

(* The slots that maintain leaves. *)
LEMMA SettledFits ==
  ASSUME NEW n, Flying(n, swaps, slot, past, pos), slot \in [Pos -> Inst \cup {NULL}]
  PROVE  WrittenAre(n, swaps, past, pos, slot, Settled)
  <1> DEFINE Raw(s, k) == [s EXCEPT ![PosFrom(k)] = swaps[k].to, ![PosTo(k)] = swaps[k].from]
             N == Len(swaps)
             Def(h) == h = [k \in 0..N |-> IF k = 0 THEN slot ELSE Raw(h[k - 1], k)]
             h == CHOOSE g : Def(g)
             V == [Pos -> Inst \cup {NULL}]
             Up(s, k) == IF k \in 1..n THEN Raw(s, k) ELSE s
             G == [k \in Nat |-> [s \in V |-> Up(s, k)]]
             W(k, s) == WrittenAre(k, swaps, past, pos, slot, s)
  <1>1. Settled = h[N]
    BY DEF Settled
  <1>2. n \in Nat /\ N = n
    BY DEF Flying
  <1>3. \A k : PosFrom(k) = FromPos(swaps, past, pos, k) /\ PosTo(k) = ToPos(swaps, past, pos, k)
    BY DEF PosFrom, PosTo, FromPos, ToPos
  <1>4. \A s, k : Raw(s, k) = [s EXCEPT ![FromPos(swaps, past, pos, k)] = swaps[k].to,
                                       ![ToPos(swaps, past, pos, k)] = swaps[k].from]
    BY <1>3, Zenon
  <1> HIDE DEF Raw
  <1>5. ASSUME NEW k \in 1..n, NEW s \in V
        PROVE  /\ Raw(s, k) \in V
               /\ W(k - 1, s) => W(k, Raw(s, k))
    <2>1. PICK s2 : s2 = Raw(s, k)
      OBVIOUS
    <2>2. s2 = [s EXCEPT ![FromPos(swaps, past, pos, k)] = swaps[k].to,
                         ![ToPos(swaps, past, pos, k)] = swaps[k].from]
      BY <1>4, <2>1, Zenon
    <2>3. s2 \in V
      <3>1. s2 = [[s EXCEPT ![FromPos(swaps, past, pos, k)] = swaps[k].to] EXCEPT ![ToPos(swaps, past, pos, k)] = swaps[k].from]
        BY <2>2, Zenon
      <3>2. swaps[k].to \in Inst \cup {NULL} /\ swaps[k].from \in Inst \cup {NULL}
        BY DEF Flying
      <3>3. [s EXCEPT ![FromPos(swaps, past, pos, k)] = swaps[k].to] \in V
        BY <3>2
      <3>4. QED
        BY <3>1, <3>2, <3>3
    <2>4. W(k - 1, s) => W(k, s2)
      BY <2>2, WrittenLonger
    <2>5. QED
      BY <2>1, <2>3, <2>4
  <1>6. W(0, slot)
    BY DEF WrittenAre
  <1> HIDE DEF W
  <1>7. \A s \in V : \A k \in Nat : Up(s, k) \in V
    BY <1>5
  <1>8. slot \in V
    OBVIOUS
  <1> HIDE DEF Up, V
  <1>9. G \in [Nat -> [V -> V]]
    BY <1>7
  <1>10. PICK f : Iterates(f, V, slot, G, N)
    <2> HIDE DEF G, N
    <2> QED
      BY <1>2, <1>8, <1>9, IterateExists
  <1>11. f \in [0..N -> V] /\ f[0] = slot /\ \A k \in 1..N : f[k] = Up(f[k - 1], k)
    <2>1. \A k \in 1..N : k \in Nat /\ k - 1 \in 0..N
      BY <1>2
    <2>2. QED
      BY <1>10, <2>1 DEF Iterates
  <1>12. Def(f)
    <2>1. f = [k \in 0..N |-> f[k]]
      BY <1>11
    <2>2. \A k \in 0..N : f[k] = (IF k = 0 THEN slot ELSE Raw(f[k - 1], k))
      BY <1>2, <1>11 DEF Up
    <2>3. QED
      BY <2>1, <2>2
  <1>13. h = [k \in 0..N |-> IF k = 0 THEN slot ELSE Raw(h[k - 1], k)]
    <2> HIDE DEF N
    <2>1. Def(h)
      BY <1>12
    <2> HIDE DEF h
    <2>2. QED
      BY <2>1
  <1> HIDE DEF h, N
  <1> DEFINE S == {k \in 0..n : h[k] \in V /\ W(k, h[k])}
  <1>14. 0 \in S
    BY <1>2, <1>6, <1>8, <1>13
  <1>15. \A k \in 1..n : k - 1 \in S => k \in S
    <2> TAKE k \in 1..n
    <2> HAVE k - 1 \in S
    <2>1. k \in 0..N /\ k # 0 /\ h[k] = Raw(h[k - 1], k)
      BY <1>2, <1>13
    <2>2. h[k - 1] \in V /\ W(k - 1, h[k - 1])
      OBVIOUS
    <2>3. QED
      BY <1>2, <1>5, <2>1, <2>2
  <1>16. 0..n \subseteq S
    <2> HIDE DEF S
    <2> QED
      BY <1>2, <1>14, <1>15, BoundedInduction
  <1>17. W(n, h[n])
    BY <1>2, <1>16
  <1>18. QED
    BY <1>1, <1>2, <1>17 DEF W
-----------------------------------------------------------------------------
(* An exchange that is kept: the slots follow the positions.               *)
LEMMA KeepAgrees ==
  ASSUME DeviceFits, NullAssumption, NEW n, NEW sw, NEW sl, NEW pa, NEW po, NEW s2,
         Agree(sl, pa), Flying(n, sw, sl, pa, po), WrittenAre(n, sw, pa, po, sl, s2)
  PROVE  Agree(s2, po)
  <1> DEFINE F(j) == FromPos(sw, pa, po, j)
             T(j) == ToPos(sw, pa, po, j)
             V    == Inst \cup {NULL}
  <1>1. NULL \notin Pos /\ NULL \notin Inst
    BY NullAssumption DEF DeviceFits
  <1>2. /\ n \in Nat /\ DOMAIN sw = 1..n
        /\ po \in [Inst -> Pos \cup {NULL}]
        /\ \A j \in 1..n : F(j) \in Pos /\ T(j) \in Pos
        /\ \A j \in 1..n : sw[j].from \in V /\ sw[j].to \in V
        /\ \A j \in 1..n : sl[F(j)] = sw[j].from /\ sl[T(j)] = sw[j].to
        /\ \A j \in 1..n : sw[j].from # NULL => po[sw[j].from] = T(j)
        /\ \A j \in 1..n : sw[j].to # NULL => po[sw[j].to] = F(j)
        /\ \A i \in Inst : ~Moves(sw, i) => po[i] = pa[i]
    BY DEF Flying
  <1>3. /\ s2 \in [Pos -> V]
        /\ \A j \in 1..n : s2[F(j)] = sw[j].to /\ s2[T(j)] = sw[j].from
        /\ \A p \in Pos : (\A j \in 1..n : p # F(j) /\ p # T(j)) => s2[p] = sl[p]
    BY DEF WrittenAre
  <1>4. /\ pa \in [Inst -> Pos \cup {NULL}]
        /\ \A p \in Pos : sl[p] # NULL => pa[sl[p]] = p
        /\ \A i \in Inst : pa[i] # NULL => sl[pa[i]] = i
    BY DEF Agree
  <1> HIDE DEF F, T
  <1>5. \A i \in Inst : Moves(sw, i) => \E j \in 1..n : sw[j].from = i \/ sw[j].to = i
    BY <1>2 DEF Moves
  <1>6. \A i \in Inst : ~Moves(sw, i) => \A j \in 1..n : sw[j].from # i /\ sw[j].to # i
    BY <1>2 DEF Moves
  <1>7. ASSUME NEW p \in Pos, s2[p] # NULL
        PROVE  po[s2[p]] = p
    <2>1. CASE \E j \in 1..n : p = F(j)
      BY <1>2, <1>3, <1>7, <2>1
    <2>2. CASE \E j \in 1..n : p = T(j)
      BY <1>2, <1>3, <1>7, <2>2
    <2>3. CASE \A j \in 1..n : p # F(j) /\ p # T(j)
      <3>1. s2[p] = sl[p] /\ sl[p] \in Inst /\ pa[sl[p]] = p
        BY <1>3, <1>4, <1>7, <2>3
      <3>2. ~Moves(sw, sl[p])
        <4> SUFFICES ASSUME Moves(sw, sl[p])
                     PROVE  FALSE
          OBVIOUS
        <4>1. PICK j \in 1..n : sw[j].from = sl[p] \/ sw[j].to = sl[p]
          BY <1>5, <3>1
        <4>2. pa[sl[p]] = F(j) \/ pa[sl[p]] = T(j)
          BY <1>1, <1>2, <1>4, <3>1, <4>1
        <4>3. QED
          BY <2>3, <3>1, <4>2
      <3>3. QED
        BY <1>2, <3>1, <3>2
    <2>4. QED
      BY <2>1, <2>2, <2>3
  <1>8. ASSUME NEW i \in Inst, po[i] # NULL
        PROVE  s2[po[i]] = i
    <2>1. i # NULL
      BY <1>1
    <2>2. CASE Moves(sw, i)
      BY <1>2, <1>3, <1>5, <2>1, <2>2
    <2>3. CASE ~Moves(sw, i)
      <3>1. po[i] = pa[i] /\ pa[i] \in Pos /\ sl[pa[i]] = i
        BY <1>2, <1>4, <1>8, <2>3
      <3>2. \A j \in 1..n : pa[i] # F(j) /\ pa[i] # T(j)
        BY <1>2, <1>6, <2>3, <3>1
      <3>3. QED
        BY <1>3, <3>1, <3>2
    <2>4. QED
      BY <2>2, <2>3
  <1>9. QED
    BY <1>2, <1>3, <1>7, <1>8 DEF Agree

(* The pairs by which tile t gains an instance and loses one.              *)
GainsIn(sw, pa, po, t) ==
    {k \in DOMAIN sw : \/ sw[k].to = NULL /\ ToPos(sw, pa, po, k)[1] = t
                       \/ sw[k].from = NULL /\ FromPos(sw, pa, po, k)[1] = t}

LossesIn(sw, pa, po, t) ==
    {k \in DOMAIN sw : \/ sw[k].to = NULL /\ FromPos(sw, pa, po, k)[1] = t
                       \/ sw[k].from = NULL /\ ToPos(sw, pa, po, k)[1] = t}

(* The slots that the pairs fill.                                          *)
LEMMA GainsCount ==
  ASSUME NEW n, NEW sw, NEW sl, NEW pa, NEW po, NEW s2,
         Flying(n, sw, sl, pa, po), WrittenAre(n, sw, pa, po, sl, s2), NEW t \in Tile,
         NEW f, f = [k \in GainsIn(sw, pa, po, t) |->
                       IF sw[k].to = NULL THEN ToPos(sw, pa, po, k)[2] ELSE FromPos(sw, pa, po, k)[2]]
  PROVE  /\ f \in [GainsIn(sw, pa, po, t) -> Taken(s2, t) \ Taken(sl, t)]
         /\ \A u, v \in GainsIn(sw, pa, po, t) : f[u] = f[v] => u = v
         /\ \A w \in Taken(s2, t) \ Taken(sl, t) : \E u \in GainsIn(sw, pa, po, t) : f[u] = w
  <1> DEFINE F(j) == FromPos(sw, pa, po, j)
             T(j) == ToPos(sw, pa, po, j)
             G    == GainsIn(sw, pa, po, t)
             B    == Taken(s2, t) \ Taken(sl, t)
             q(k) == IF sw[k].to = NULL THEN T(k) ELSE F(k)
  <1>1. /\ n \in Nat /\ DOMAIN sw = 1..n
        /\ \A j \in 1..n : F(j) \in Pos /\ T(j) \in Pos
        /\ \A j \in 1..n : sl[F(j)] = sw[j].from /\ sl[T(j)] = sw[j].to
        /\ \A j \in 1..n : sw[j].from # NULL \/ sw[j].to # NULL
        /\ \A i, j \in 1..n : /\ F(i) # T(j)
                              /\ F(i) = F(j) => i = j
                              /\ T(i) = T(j) => i = j
    BY DEF Flying
  <1>2. /\ \A j \in 1..n : s2[F(j)] = sw[j].to /\ s2[T(j)] = sw[j].from
        /\ \A p \in Pos : (\A j \in 1..n : p # F(j) /\ p # T(j)) => s2[p] = sl[p]
    BY DEF WrittenAre
  <1>3. \A k : k \in G <=> k \in 1..n /\ \/ sw[k].to = NULL /\ T(k)[1] = t
                                         \/ sw[k].from = NULL /\ F(k)[1] = t
    BY <1>1 DEF GainsIn
  <1>4. \A w : w \in B <=> w \in Z /\ s2[<<t, w>>] # NULL /\ sl[<<t, w>>] = NULL
    BY DEF Taken
  <1>5. \A p \in Pos : p = <<p[1], p[2]>> /\ p[1] \in Tile /\ p[2] \in Z
    BY DEF Pos
  <1>6. \A w \in Z : <<t, w>> \in Pos
    BY DEF Pos
  <1>7. f = [k \in G |-> q(k)[2]]
    OBVIOUS
  <1> HIDE DEF F, T, G, B
  <1>8. ASSUME NEW k \in G
        PROVE  q(k) \in Pos /\ q(k) = <<t, q(k)[2]>> /\ s2[q(k)] # NULL /\ sl[q(k)] = NULL
    <2>1. k \in 1..n
      BY <1>3
    <2>2. CASE sw[k].to = NULL
      BY <1>1, <1>2, <1>3, <1>5, <2>1, <2>2
    <2>3. CASE sw[k].to # NULL
      BY <1>1, <1>2, <1>3, <1>5, <2>1, <2>3
    <2>4. QED
      BY <2>2, <2>3
  <1>9. \A k \in G : q(k)[2] \in B
    BY <1>4, <1>5, <1>8
  <1>10. \A u, v \in G : q(u)[2] = q(v)[2] => u = v
    <2> TAKE u \in G, v \in G
    <2> HAVE q(u)[2] = q(v)[2]
    <2>1. q(u) = q(v)
      BY <1>8
    <2>2. u \in 1..n /\ v \in 1..n
      BY <1>3
    <2>3. QED
      BY <1>1, <2>1, <2>2
  <1>11. ASSUME NEW w \in B
         PROVE  \E u \in G : q(u)[2] = w
    <2>1. w \in Z /\ s2[<<t, w>>] # NULL /\ sl[<<t, w>>] = NULL /\ <<t, w>> \in Pos
      BY <1>4, <1>6
    <2>2. PICK j \in 1..n : <<t, w>> = F(j) \/ <<t, w>> = T(j)
      BY <1>2, <2>1
    <2>3. CASE <<t, w>> = F(j)
      <3>1. sw[j].from = NULL /\ sw[j].to # NULL /\ F(j)[1] = t /\ F(j)[2] = w
        BY <1>1, <1>2, <2>1, <2>3
      <3>2. j \in G /\ q(j) = F(j)
        BY <1>3, <3>1
      <3>3. QED
        BY <3>1, <3>2
    <2>4. CASE <<t, w>> = T(j)
      <3>1. sw[j].to = NULL /\ T(j)[1] = t /\ T(j)[2] = w
        BY <1>1, <1>2, <2>1, <2>4
      <3>2. j \in G /\ q(j) = T(j)
        BY <1>3, <3>1
      <3>3. QED
        BY <3>1, <3>2
    <2>5. QED
      BY <2>2, <2>3, <2>4
  <1> HIDE DEF q
  <1>12. f \in [G -> B] /\ \A k \in G : f[k] = q(k)[2]
    BY <1>7, <1>9
  <1>13. /\ \A u, v \in G : f[u] = f[v] => u = v
         /\ \A w \in B : \E u \in G : f[u] = w
    BY <1>10, <1>11, <1>12
  <1>14. QED
    BY <1>12, <1>13 DEF G, B

(* The slots that the pairs empty.                                         *)
LEMMA LossesCount ==
  ASSUME NEW n, NEW sw, NEW sl, NEW pa, NEW po, NEW s2,
         Flying(n, sw, sl, pa, po), WrittenAre(n, sw, pa, po, sl, s2), NEW t \in Tile,
         NEW f, f = [k \in LossesIn(sw, pa, po, t) |->
                       IF sw[k].to = NULL THEN FromPos(sw, pa, po, k)[2] ELSE ToPos(sw, pa, po, k)[2]]
  PROVE  /\ f \in [LossesIn(sw, pa, po, t) -> Taken(sl, t) \ Taken(s2, t)]
         /\ \A u, v \in LossesIn(sw, pa, po, t) : f[u] = f[v] => u = v
         /\ \A w \in Taken(sl, t) \ Taken(s2, t) : \E u \in LossesIn(sw, pa, po, t) : f[u] = w
  <1> DEFINE F(j) == FromPos(sw, pa, po, j)
             T(j) == ToPos(sw, pa, po, j)
             G    == LossesIn(sw, pa, po, t)
             B    == Taken(sl, t) \ Taken(s2, t)
             q(k) == IF sw[k].to = NULL THEN F(k) ELSE T(k)
  <1>1. /\ n \in Nat /\ DOMAIN sw = 1..n
        /\ \A j \in 1..n : F(j) \in Pos /\ T(j) \in Pos
        /\ \A j \in 1..n : sl[F(j)] = sw[j].from /\ sl[T(j)] = sw[j].to
        /\ \A j \in 1..n : sw[j].from # NULL \/ sw[j].to # NULL
        /\ \A i, j \in 1..n : /\ F(i) # T(j)
                              /\ F(i) = F(j) => i = j
                              /\ T(i) = T(j) => i = j
    BY DEF Flying
  <1>2. /\ \A j \in 1..n : s2[F(j)] = sw[j].to /\ s2[T(j)] = sw[j].from
        /\ \A p \in Pos : (\A j \in 1..n : p # F(j) /\ p # T(j)) => s2[p] = sl[p]
    BY DEF WrittenAre
  <1>3. \A k : k \in G <=> k \in 1..n /\ \/ sw[k].to = NULL /\ F(k)[1] = t
                                         \/ sw[k].from = NULL /\ T(k)[1] = t
    BY <1>1 DEF LossesIn
  <1>4. \A w : w \in B <=> w \in Z /\ sl[<<t, w>>] # NULL /\ s2[<<t, w>>] = NULL
    BY DEF Taken
  <1>5. \A p \in Pos : p = <<p[1], p[2]>> /\ p[1] \in Tile /\ p[2] \in Z
    BY DEF Pos
  <1>6. \A w \in Z : <<t, w>> \in Pos
    BY DEF Pos
  <1>7. f = [k \in G |-> q(k)[2]]
    OBVIOUS
  <1> HIDE DEF F, T, G, B
  <1>8. ASSUME NEW k \in G
        PROVE  q(k) \in Pos /\ q(k) = <<t, q(k)[2]>> /\ sl[q(k)] # NULL /\ s2[q(k)] = NULL
    <2>1. k \in 1..n
      BY <1>3
    <2>2. CASE sw[k].to = NULL
      BY <1>1, <1>2, <1>3, <1>5, <2>1, <2>2
    <2>3. CASE sw[k].to # NULL
      BY <1>1, <1>2, <1>3, <1>5, <2>1, <2>3
    <2>4. QED
      BY <2>2, <2>3
  <1>9. \A k \in G : q(k)[2] \in B
    BY <1>4, <1>5, <1>8
  <1>10. \A u, v \in G : q(u)[2] = q(v)[2] => u = v
    <2> TAKE u \in G, v \in G
    <2> HAVE q(u)[2] = q(v)[2]
    <2>1. q(u) = q(v)
      BY <1>8
    <2>2. u \in 1..n /\ v \in 1..n
      BY <1>3
    <2>3. QED
      BY <1>1, <2>1, <2>2
  <1>11. ASSUME NEW w \in B
         PROVE  \E u \in G : q(u)[2] = w
    <2>1. w \in Z /\ sl[<<t, w>>] # NULL /\ s2[<<t, w>>] = NULL /\ <<t, w>> \in Pos
      BY <1>4, <1>6
    <2>2. PICK j \in 1..n : <<t, w>> = F(j) \/ <<t, w>> = T(j)
      BY <1>2, <2>1
    <2>3. CASE <<t, w>> = F(j)
      <3>1. sw[j].to = NULL /\ F(j)[1] = t /\ F(j)[2] = w
        BY <1>1, <1>2, <2>1, <2>3
      <3>2. j \in G /\ q(j) = F(j)
        BY <1>3, <3>1
      <3>3. QED
        BY <3>1, <3>2
    <2>4. CASE <<t, w>> = T(j)
      <3>1. sw[j].from = NULL /\ sw[j].to # NULL /\ T(j)[1] = t /\ T(j)[2] = w
        BY <1>1, <1>2, <2>1, <2>4
      <3>2. j \in G /\ q(j) = T(j)
        BY <1>3, <3>1
      <3>3. QED
        BY <3>1, <3>2
    <2>5. QED
      BY <2>2, <2>3, <2>4
  <1> HIDE DEF q
  <1>12. f \in [G -> B] /\ \A k \in G : f[k] = q(k)[2]
    BY <1>7, <1>9
  <1>13. /\ \A u, v \in G : f[u] = f[v] => u = v
         /\ \A w \in B : \E u \in G : f[u] = w
    BY <1>10, <1>11, <1>12
  <1>14. QED
    BY <1>12, <1>13 DEF G, B

(* An exchange that is kept: the occupancy of a tile.                      *)
LEMMA KeepCounts ==
  ASSUME DeviceFits, NEW n, NEW sw, NEW sl, NEW pa, NEW po, NEW s2,
         Flying(n, sw, sl, pa, po), WrittenAre(n, sw, pa, po, sl, s2), NEW t \in Tile
  PROVE  Cardinality(Taken(s2, t)) =
           Cardinality(Taken(sl, t)) + Cardinality(GainsIn(sw, pa, po, t)) - Cardinality(LossesIn(sw, pa, po, t))
  <1> DEFINE A == Taken(sl, t)
             B == Taken(s2, t)
             G == GainsIn(sw, pa, po, t)
             L == LossesIn(sw, pa, po, t)
  <1>1. IsFiniteSet(A) /\ IsFiniteSet(B)
    BY TakenFinite
  <1>2. IsFiniteSet(G) /\ IsFiniteSet(L)
    <2>1. n \in Nat /\ DOMAIN sw = 1..n
      BY DEF Flying
    <2>2. G \in SUBSET (1..n) /\ L \in SUBSET (1..n)
      BY <2>1 DEF GainsIn, LossesIn
    <2>3. IsFiniteSet(1..n)
      BY <2>1, FS_Interval
    <2>4. QED
      BY <2>2, <2>3, FS_Subset
  <1>3. PICK f : f = [k \in G |-> IF sw[k].to = NULL THEN ToPos(sw, pa, po, k)[2] ELSE FromPos(sw, pa, po, k)[2]]
    OBVIOUS
  <1>4. PICK g : g = [k \in L |-> IF sw[k].to = NULL THEN FromPos(sw, pa, po, k)[2] ELSE ToPos(sw, pa, po, k)[2]]
    OBVIOUS
  <1>5. /\ f \in [G -> B \ A]
        /\ \A u, v \in G : f[u] = f[v] => u = v
        /\ \A w \in B \ A : \E u \in G : f[u] = w
    BY <1>3, GainsCount
  <1>6. /\ g \in [L -> A \ B]
        /\ \A u, v \in L : g[u] = g[v] => u = v
        /\ \A w \in A \ B : \E u \in L : g[u] = w
    BY <1>4, LossesCount
  <1> HIDE DEF A, B, G, L
  <1>7. (\A u, v \in G : f[u] = f[v] => u = v) /\ (\A w \in B \ A : \E u \in G : f[u] = w)
    BY <1>5
  <1>8. (\A u, v \in L : g[u] = g[v] => u = v) /\ (\A w \in A \ B : \E u \in L : g[u] = w)
    BY <1>6
  <1>9. f \in [G -> B \ A] /\ g \in [L -> A \ B]
    BY <1>5, <1>6
  <1>10. Cardinality(B) = Cardinality(A) + Cardinality(G) - Cardinality(L)
    BY <1>1, <1>2, <1>7, <1>8, <1>9, Recounted
  <1>11. QED
    BY <1>10 DEF A, B, G, L
-----------------------------------------------------------------------------
(* Slots that agree on chain x of column c give it the same room.          *)
LEMMA SameRoom ==
  ASSUME DeviceFits, NEW sl, NEW s2, NEW c \in Column, NEW x \in CarryIndex, NEW f,
         \A r \in 0..(Rows - 1) : \A k \in 1..CarrySize :
             <<r, c>> \in Tile => s2[<<<<r, c>>, CarryChain[x][k]>>] = sl[<<<<r, c>>, CarryChain[x][k]>>],
         IsRoom(f, s2, c, x)
  PROVE  IsRoom(f, sl, c, x)
  <1>1. ASSUME NEW r \in 0..(Rows - 1), <<r, c>> \in Tile
        PROVE  OpenIn(s2, r, c, x) = OpenIn(sl, r, c, x)
    <2> DEFINE p(m) == <<<<r, c>>, CarryChain[x][m + 1]>>
               C == CarrySize
               S(t) == {m \in 0..C : m = C \/ ~IsOpen(t, p(m))}
    <2>1. C \in Nat
      BY DEF DeviceFits
    <2>2. \A m \in 0..C : m = C \/ s2[p(m)] = sl[p(m)]
      <3> TAKE m \in 0..C
      <3>1. m = C \/ m + 1 \in 1..C
        BY <2>1
      <3>2. QED
        BY <1>1, <3>1
    <2> HIDE DEF p, C
    <2>3. \A m \in 0..C : m = C \/ (IsOpen(s2, p(m)) <=> IsOpen(sl, p(m)))
      BY <2>2 DEF IsOpen
    <2>4. S(s2) = S(sl)
      BY <2>3
    <2>5. OpenIn(s2, r, c, x) = Lowest(S(s2)) /\ OpenIn(sl, r, c, x) = Lowest(S(sl))
      BY DEF OpenIn, p, C
    <2>6. QED
      BY <2>4, <2>5
  <1>2. Rows \in Nat
    BY DEF DeviceFits
  <1>3. \A k \in 1..Rows : k - 1 \in 0..(Rows - 1)
    BY <1>2
  <1>4. QED
    BY <1>1, <1>3 DEF IsRoom

(* The whole table recomputed.                                             *)
LEMMA StartTable ==
  ASSUME DeviceFits, ObjectsFit, NEW sl, NEW q2, q2 = Requalified(sl, Column \X CarryIndex)
  PROVE  TableFits(q2, sl)
  <1> SUFFICES ASSUME NEW o \in ChainObjects, NEW c \in Column, NEW x \in CarryIndex, NEW f, IsRoom(f, sl, c, x)
               PROVE  q2[o][c][x] = HasRoom(f, Len(InstsOf(o)), c)
    BY DEF TableFits
  <1>1. q2[o][c][x] = Scan(sl, Len(InstsOf(o)), c, x)
    BY DEF Requalified
  <1>2. Len(InstsOf(o)) \in Nat \ {0}
    BY MembersFit DEF ChainObjects
  <1>3. QED
    BY <1>1, <1>2, ScanFinds

(* What an exchange moves lies in the pairs it affects.                    *)
LEMMA AffectedMoves ==
  ASSUME NEW n, Flying(n, swaps, slot, past, pos), NEW j \in 1..n,
         NEW p, p = FromPos(swaps, past, pos, j) \/ p = ToPos(swaps, past, pos, j)
  PROVE  \A c : \A x : p[1][2] = c /\ p[2] \div CarrySize + 1 = x => <<c, x>> \in Affected
  <1>1. /\ DOMAIN swaps = 1..n
        /\ swaps[j].from \in Inst \cup {NULL} /\ swaps[j].to \in Inst \cup {NULL}
        /\ swaps[j].from # NULL \/ swaps[j].to # NULL
        /\ swaps[j].from # NULL => pos[swaps[j].from] = ToPos(swaps, past, pos, j)
        /\ swaps[j].to # NULL => pos[swaps[j].to] = FromPos(swaps, past, pos, j)
    BY DEF Flying
  <1>2. \E i \in Inst : InFlight(i) /\ (p = past[i] \/ p = pos[i])
    BY <1>1 DEF FromPos, ToPos, InFlight
  <1>3. PICK i \in Inst : InFlight(i) /\ (p = past[i] \/ p = pos[i])
    BY <1>2
  <1>4. \A u : u \in {<<past[i][1][2], past[i][2] \div CarrySize + 1>>,
                      <<pos[i][1][2], pos[i][2] \div CarrySize + 1>>} => u \in Affected
    BY <1>3 DEF Affected
  <1>5. <<past[i][1][2], past[i][2] \div CarrySize + 1>> \in Affected
    BY <1>4
  <1>6. <<pos[i][1][2], pos[i][2] \div CarrySize + 1>> \in Affected
    BY <1>4
  <1>7. QED
    BY <1>3, <1>5, <1>6

(* The table once an exchange is kept: the pairs that are not recomputed    *)
(* are as they were.                                                       *)
LEMMA KeepTable ==
  ASSUME DeviceFits, ObjectsFit, TableFits(qual, slot), NEW n, Flying(n, swaps, slot, past, pos),
         NEW s2, WrittenAre(n, swaps, past, pos, slot, s2), NEW q2, q2 = Requalified(s2, Affected)
  PROVE  TableFits(q2, s2)
  <1> SUFFICES ASSUME NEW o \in ChainObjects, NEW c \in Column, NEW x \in CarryIndex, NEW f, IsRoom(f, s2, c, x)
               PROVE  q2[o][c][x] = HasRoom(f, Len(InstsOf(o)), c)
    BY DEF TableFits
  <1>1. q2[o][c][x] = IF <<c, x>> \in Affected THEN Scan(s2, Len(InstsOf(o)), c, x) ELSE qual[o][c][x]
    BY DEF Requalified
  <1>2. CASE <<c, x>> \in Affected
    <2>1. Len(InstsOf(o)) \in Nat \ {0}
      BY MembersFit DEF ChainObjects
    <2>2. QED
      BY <1>1, <1>2, <2>1, ScanFinds
  <1>3. CASE <<c, x>> \notin Affected
    <2>1. \A r \in 0..(Rows - 1) : \A k \in 1..CarrySize :
             <<r, c>> \in Tile => s2[<<<<r, c>>, CarryChain[x][k]>>] = slot[<<<<r, c>>, CarryChain[x][k]>>]
      <3> SUFFICES ASSUME NEW r \in 0..(Rows - 1), NEW k \in 1..CarrySize, <<r, c>> \in Tile
                   PROVE  s2[<<<<r, c>>, CarryChain[x][k]>>] = slot[<<<<r, c>>, CarryChain[x][k]>>]
        OBVIOUS
      <3>1. PICK p : p = <<<<r, c>>, CarryChain[x][k]>>
        OBVIOUS
      <3>2. CarryChain[x][k] \in Z /\ CarryChain[x][k] \div CarrySize + 1 = x
        BY ChainSlots
      <3>3. p \in Pos /\ p[1][2] = c /\ p[2] \div CarrySize + 1 = x
        BY <3>1, <3>2 DEF Pos
      <3>4. \A j \in 1..n : p # FromPos(swaps, past, pos, j) /\ p # ToPos(swaps, past, pos, j)
        BY <1>3, <3>3, AffectedMoves
      <3>5. s2[p] = slot[p]
        BY <3>3, <3>4 DEF WrittenAre
      <3>6. QED
        BY <3>1, <3>5
    <2>2. IsRoom(f, slot, c, x)
      BY <2>1, SameRoom
    <2>3. QED
      BY <1>1, <1>3, <2>2 DEF TableFits
  <1>4. QED
    BY <1>2, <1>3
-----------------------------------------------------------------------------
(* What the placer may take is an exchange that moves no pair apart.       *)
LEMMA ExchangeGood ==
  ASSUME Searching, TableFits(qual, slot), \A t \in Tile : occ[t] = Cardinality(Occupants(t)),
         NEW o \in DOMAIN nl.objects, NEW u \in Tile, Verdict(o, u) = "take", NEW ex \in Exchanges(o, u)
  PROVE  GoodExchange(ex)
  <1>1. TypeOf(o) \in {"CARRY_CHAIN", "LUT6", "SITE"}
    BY DEF Searching, ObjectsFit
  <1>2. CASE TypeOf(o) = "SITE"
    <2>1. SiteVerdict(o, u) = "take" /\ ex \in SiteExchanges(o, u)
      BY <1>2 DEF Verdict, Exchanges
    <2>2. QED
      BY <1>2, <2>1, SiteGood
  <1>3. CASE TypeOf(o) = "LUT6"
    <2>1. Lut6Verdict(o, u) = "take" /\ ex = TileExchange(BaseTile(o), u)
      BY <1>3 DEF Verdict, Exchanges
    <2>2. QED
      BY <1>3, <2>1, Lut6Good
  <1>4. CASE TypeOf(o) = "CARRY_CHAIN"
    <2>1. ChainVerdict(o, u) = "take" /\ ex = ChainExchange(o, u)
      BY <1>4 DEF Verdict, Exchanges
    <2>2. QED
      BY <1>4, <2>1, ChainGood
  <1>5. QED
    BY <1>1, <1>2, <1>3, <1>4

(* The state once it is taken. *)
LEMMA ExchangeTaken ==
  ASSUME Searching, NEW ex, GoodExchange(ex), NEW po, po = ExchangedPlaces(ex, pos),
         NEW sw, sw = [k \in DOMAIN ex |-> [from |-> ex[k].from, to |-> ex[k].to]]
  PROVE  Flying(Len(sw), sw, slot, pos, po) /\ PairsWhole(Len(nl.objects) + 1, po)
  <1>1. PICK n : Exchangeable(n, ex) /\ PairsWhole(Len(nl.objects) + 1, po)
    BY DEF GoodExchange
  <1>2. NullAssumption /\ Agree(slot, pos)
    BY DEF Searching
  <1>3. MovedBy(n, ex, pos, po)
    BY <1>1, <1>2, ExchangeMoves
  <1>4. n \in Nat /\ DOMAIN ex = 1..n
    BY <1>1 DEF Exchangeable
  <1>5. SwapsOf(n, sw, ex)
    BY <1>4, SwapsFit
  <1>6. Flying(n, sw, slot, pos, po)
    BY <1>1, <1>3, <1>5, ExchangeFlies
  <1>7. Len(sw) = n
    BY <1>5 DEF SwapsOf
  <1>8. QED
    BY <1>1, <1>6, <1>7

(* Nobody loses its position. *)
LEMMA FlyingPlaced ==
  ASSUME DeviceFits, ObjectsFit, NEW n, NEW sw, NEW pa, NEW po, Flying(n, sw, slot, pa, po),
         NEW nx, PlacedAre(nx, pa), nx \in 1..(Len(nl.objects) + 1)
  PROVE  PlacedAre(nx, po)
  <1> SUFFICES ASSUME NEW o \in 1..(nx - 1), NEW k \in DOMAIN InstsOf(o)
               PROVE  po[InstsOf(o)[k]] # NULL
    BY DEF PlacedAre
  <1>1. PICK i : i = InstsOf(o)[k]
    OBVIOUS
  <1>2. NULL \notin Pos
    BY DEF DeviceFits
  <1>3. i \in Inst
    <2>1. o \in DOMAIN nl.objects
      BY DEF ObjectsFit
    <2>2. QED
      BY <1>1, <2>1, MembersFit
  <1>4. pa[i] # NULL
    BY <1>1 DEF PlacedAre
  <1>5. CASE Moves(sw, i)
    <2>1. PICK j \in 1..n : sw[j].from = i \/ sw[j].to = i
      BY <1>5 DEF Moves, Flying
    <2>2. po[i] \in Pos \/ i = NULL
      BY <2>1 DEF Flying
    <2>3. i # NULL
      BY <1>3, NullAssumption
    <2>4. QED
      BY <1>1, <1>2, <2>2, <2>3
  <1>6. CASE ~Moves(sw, i)
    <2>1. po[i] = pa[i]
      BY <1>3, <1>6 DEF Flying
    <2>2. QED
      BY <1>1, <1>4, <2>1
  <1>7. QED
    BY <1>5, <1>6

(* An object is put on free slots, a pair on a tile. *)
LEMMA ObjectPut ==
  ASSUME DeviceFits, ObjectsFit, NullAssumption, Agree(slot, pos),
         NEW nx \in DOMAIN nl.objects, PlacedAre(nx, pos), UnplacedAre(nx, pos), PairsWhole(nx, pos),
         NEW is, is = InstsOf(nx), NEW n, NEW ps, Puttable(n, is, ps),
         \A k \in 1..n : slot[ps[k]] = NULL,
         TypeOf(nx) = "LUT6" => \E t \in Tile : ps = <<<<t, 0>>, <<t, 1>>>>,
         NEW s2, s2 = PutSlots(slot, is, ps), NEW p2, p2 = PutPlaces(pos, is, ps)
  PROVE  Agree(s2, p2) /\ PlacedAre(nx + 1, p2) /\ UnplacedAre(nx + 1, p2) /\ PairsWhole(nx + 1, p2)
  <1>1. nx \in 1..Len(nl.objects) /\ Len(nl.objects) \in Nat /\ DOMAIN nl.objects = 1..Len(nl.objects)
    BY DEF ObjectsFit
  <1>2. /\ n \in Nat /\ DOMAIN is = 1..n /\ \A k \in 1..n : is[k] \in Inst /\ ps[k] \in Pos
    BY DEF Puttable
  <1>3. \A k \in 1..n : pos[is[k]] = NULL
    BY <1>1, <1>2 DEF UnplacedAre
  <1>4. Agree(s2, p2)
    BY <1>3, PutAgrees
  <1>5. /\ \A k \in 1..n : p2[is[k]] = ps[k]
        /\ \A i \in Inst : (\A k \in 1..n : is[k] # i) => p2[i] = pos[i]
    BY PutFits
  <1>6. ASSUME NEW o \in 1..Len(nl.objects), o # nx, NEW k \in DOMAIN InstsOf(o)
        PROVE  p2[InstsOf(o)[k]] = pos[InstsOf(o)[k]]
    <2>1. InstsOf(o)[k] \in Inst
      BY <1>1, MembersFit
    <2>2. \A j \in 1..n : is[j] # InstsOf(o)[k]
      <3> SUFFICES ASSUME NEW j \in 1..n, is[j] = InstsOf(o)[k]
                   PROVE  FALSE
        OBVIOUS
      <3>1. is[j] \in ElemsOf(InstsOf(nx)) /\ is[j] \in ElemsOf(InstsOf(o))
        BY <1>2 DEF ElemsOf
      <3>2. QED
        BY <1>1, <1>6, <3>1 DEF ObjectsFit
    <2>3. QED
      BY <1>5, <2>1, <2>2
  <1>7. NULL \notin Pos
    BY DEF DeviceFits
  <1>8. PlacedAre(nx + 1, p2)
    <2> SUFFICES ASSUME NEW o \in 1..nx, NEW k \in DOMAIN InstsOf(o)
                 PROVE  p2[InstsOf(o)[k]] # NULL
      BY <1>1 DEF PlacedAre
    <2>1. CASE o = nx
      BY <1>2, <1>5, <1>7, <2>1
    <2>2. CASE o # nx
      <3>1. o \in 1..Len(nl.objects) /\ o \in 1..(nx - 1)
        BY <1>1, <2>2
      <3>2. QED
        BY <1>6, <2>2, <3>1 DEF PlacedAre
    <2>3. QED
      BY <2>1, <2>2
  <1>9. UnplacedAre(nx + 1, p2)
    <2> SUFFICES ASSUME NEW o \in (nx + 1)..Len(nl.objects), NEW k \in DOMAIN InstsOf(o)
                 PROVE  p2[InstsOf(o)[k]] = NULL
      BY DEF UnplacedAre
    <2>1. o \in 1..Len(nl.objects) /\ o # nx /\ o \in nx..Len(nl.objects)
      BY <1>1
    <2>2. QED
      BY <1>6, <2>1 DEF UnplacedAre
  <1>10. PairsWhole(nx + 1, p2)
    <2> SUFFICES ASSUME NEW o \in 1..nx, TypeOf(o) = "LUT6"
                 PROVE  \E t \in Tile : p2[InstsOf(o)[1]] = <<t, 0>> /\ p2[InstsOf(o)[2]] = <<t, 1>>
      BY <1>1 DEF PairsWhole
    <2>1. o \in DOMAIN nl.objects
      BY <1>1
    <2>2. Len(InstsOf(o)) = 2 /\ DOMAIN InstsOf(o) = 1..2
      <3>1. Len(InstsOf(o)) = 2
        BY <2>1 DEF ObjectsFit
      <3>2. QED
        BY <2>1, <3>1, MembersFit
    <2>3. CASE o = nx
      <3>1. PICK t \in Tile : ps = <<<<t, 0>>, <<t, 1>>>>
        BY <2>3
      <3>2. p2[is[1]] = <<t, 0>> /\ p2[is[2]] = <<t, 1>>
        <4>1. n = 2 /\ 1 \in 1..n /\ 2 \in 1..n
          BY <1>2, <2>2, <2>3
        <4>2. p2[is[1]] = ps[1] /\ p2[is[2]] = ps[2]
          BY <1>5, <4>1
        <4>3. ps[1] = <<t, 0>> /\ ps[2] = <<t, 1>>
          BY <3>1
        <4>4. QED
          BY <4>2, <4>3
      <3>3. QED
        BY <2>3, <3>2
    <2>4. CASE o # nx
      <3>1. o \in 1..Len(nl.objects) /\ o \in 1..(nx - 1)
        BY <1>1, <2>4
      <3>2. PICK t \in Tile : pos[InstsOf(o)[1]] = <<t, 0>> /\ pos[InstsOf(o)[2]] = <<t, 1>>
        BY <3>1 DEF PairsWhole
      <3>3. p2[InstsOf(o)[1]] = pos[InstsOf(o)[1]] /\ p2[InstsOf(o)[2]] = pos[InstsOf(o)[2]]
        BY <1>6, <2>2, <2>4, <3>1
      <3>4. QED
        BY <3>2, <3>3
    <2>5. QED
      BY <2>3, <2>4
  <1>11. QED
    BY <1>4, <1>8, <1>9, <1>10
-----------------------------------------------------------------------------
(* The counters count the slots that are taken.                            *)
Counted(oc, sl) == oc \in [Tile -> Nat] /\ \A t \in Tile : oc[t] = Cardinality(Taken(sl, t))

(* The slots, the counters and the positions in force.                     *)
Bookkept(sl, oc, pa) == Agree(sl, pa) /\ Counted(oc, sl)

(* The objects before nx are placed, and may be exchanged.                 *)
Ready(av, nx, ob, pa) ==
    /\ ObjectsFit
    /\ av \in [Tile -> SUBSET Tile]
    /\ nx \in 1..(Len(nl.objects) + 1)
    /\ ob \subseteq 1..(nx - 1)
    /\ PlacedAre(nx, pa) /\ UnplacedAre(nx, pa) /\ PairsWhole(nx, pa)

(* All objects are placed, and the table is what the slots make it.        *)
Annealed(nx, q, sl) == nx = Len(nl.objects) + 1 /\ TableFits(q, sl)

(* An exchange is in flight. *)
InAir(nx, sw, sl, pa, po) == Flying(Len(sw), sw, sl, pa, po) /\ PairsWhole(nx, po)

(* What holds of the whole state. *)
Holds(sl, oc, av, po, pa, ob, q, ph, nx, fr, sw) ==
    /\ Bookkept(sl, oc, pa)
    /\ ph \in {"place", "error", "idle", "pick", "find", "decide", "done", "trap"}
    /\ ph # "decide" => po = pa
    /\ ph # "error" => Ready(av, nx, ob, pa)
    /\ ph \notin {"place", "error"} => Annealed(nx, q, sl)
    /\ ph \in {"find", "decide"} => fr \in ob
    /\ ph = "decide" => InAir(nx, sw, sl, pa, po)

(* The inductive invariant. *)
FInv == DeviceFits /\ Holds(slot, occ, avail, pos, past, objs, qual, phase, next, from, swaps)

(* The design does not change, and with it the device and what the         *)
(* predicates mean.                                                        *)
LEMMA DeviceStays ==
  ASSUME nl' = nl, DeviceFits
  PROVE  DeviceFits'
  BY DEF DeviceFits, Pos, Tile, Z, NumSlices, Rows, Cols, BotRow, CarryChain, CarryIndex, CarrySize, Column

(* What is said of the next state by its values is said of that state. *)
LEMMA BookkeptStays ==
  ASSUME nl' = nl, NEW sl, sl = slot', NEW oc, oc = occ', NEW pa, pa = past', Bookkept(sl, oc, pa)
  PROVE  Bookkept(slot, occ, past)'
  BY DEF Bookkept, Agree, Counted, Taken, Pos, Tile, Z, NumSlices

(* The same for the objects that are placed. *)
LEMMA ReadyStays ==
  ASSUME nl' = nl, NEW av, av = avail', NEW nx, nx = next', NEW ob, ob = objs', NEW pa, pa = past',
         Ready(av, nx, ob, pa)
  PROVE  Ready(avail, next, objs, past)'
  <1>1. /\ ObjectsFit /\ av \in [Tile -> SUBSET Tile] /\ nx \in 1..(Len(nl.objects) + 1) /\ ob \subseteq 1..(nx - 1)
        /\ PlacedAre(nx, pa) /\ UnplacedAre(nx, pa) /\ PairsWhole(nx, pa)
    BY DEF Ready
  <1>2. ObjectsFit'
    BY <1>1 DEF ObjectsFit, TypeOf, InstsOf, IsFixed, NumSlices
  <1>3. PlacedAre(next, past)'
    BY <1>1 DEF PlacedAre, InstsOf
  <1>4. UnplacedAre(next, past)'
    BY <1>1 DEF UnplacedAre, InstsOf
  <1>5. PairsWhole(next, past)'
    BY <1>1 DEF PairsWhole, TypeOf, InstsOf, Tile
  <1>6. (avail \in [Tile -> SUBSET Tile])'
    BY <1>1 DEF Tile
  <1>7. (next \in 1..(Len(nl.objects) + 1))' /\ (objs \subseteq 1..(next - 1))'
    BY <1>1
  <1>8. QED
    BY <1>2, <1>3, <1>4, <1>5, <1>6, <1>7 DEF Ready

(* The room in a column of the next state. *)
LEMMA RoomStays ==
  ASSUME nl' = nl, NEW sl, sl = slot', NEW c, NEW x, NEW f, IsRoom(f, slot, c, x)'
  PROVE  IsRoom(f, sl, c, x)
  <1>1. Rows' = Rows /\ Tile' = Tile /\ CarrySize' = CarrySize /\ CarryChain' = CarryChain
    BY DEF Rows, Tile, CarryChain, CarrySize
  <1>2. ASSUME NEW p
        PROVE  IsOpen(slot, p)' <=> IsOpen(sl, p)
    BY DEF IsOpen, IsMacro, SwapType, TypeOf, InstsOf, IsFixed
  <1>3. ASSUME NEW r
        PROVE  OpenIn(slot, r, c, x)' = OpenIn(sl, r, c, x)
    <2> DEFINE q(m) == <<<<r, c>>, CarryChain[x][m + 1]>>
               S == {m \in 0..CarrySize : m = CarrySize \/ ~IsOpen(sl, q(m))}
               T == {m \in 0..CarrySize : m = CarrySize \/ ~IsOpen(slot, q(m))'}
    <2>1. \A m : IsOpen(slot, q(m))' <=> IsOpen(sl, q(m))
      BY <1>1, <1>2
    <2>2. S = T
      BY <2>1
    <2>3. OpenIn(slot, r, c, x)' = Lowest(T)
      BY <1>1 DEF OpenIn
    <2>4. OpenIn(sl, r, c, x) = Lowest(S)
      BY DEF OpenIn
    <2>5. QED
      BY <2>2, <2>3, <2>4
  <1>4. /\ f \in [0..Rows -> Nat] /\ f[0] = 0
        /\ \A k \in 1..Rows :
             f[k] = IF <<k - 1, c>> \notin Tile THEN f[k - 1]
                    ELSE IF OpenIn(slot, k - 1, c, x)' = CarrySize THEN CarrySize + f[k - 1]
                    ELSE OpenIn(slot, k - 1, c, x)'
    BY <1>1 DEF IsRoom
  <1>5. QED
    BY <1>3, <1>4 DEF IsRoom

(* The same for the table. *)
LEMMA AnnealedStays ==
  ASSUME nl' = nl, NEW nx, nx = next', NEW q, q = qual', NEW sl, sl = slot', Annealed(nx, q, sl)
  PROVE  Annealed(next, qual, slot)'
  BY RoomStays DEF Annealed, TableFits, HasRoom, ChainObjects, Column, CarryIndex, Rows, Cols, Tile, CarryChain, TypeOf, InstsOf

(* The same for an exchange in flight. *)
LEMMA InAirStays ==
  ASSUME nl' = nl, NEW nx, nx = next', NEW sw, sw = swaps', NEW sl, sl = slot', NEW pa, pa = past',
         NEW po, po = pos', InAir(nx, sw, sl, pa, po)
  PROVE  InAir(next, swaps, slot, past, pos)'
  BY DEF InAir, Flying, FromPos, ToPos, Moves, PairsWhole, TypeOf, InstsOf, Pos, Tile, Z, NumSlices

(* To keep the invariant a step has to keep what Holds says of the values. *)
LEMMA StepFits ==
  ASSUME nl' = nl, DeviceFits, Holds(slot', occ', avail', pos', past', objs', qual', phase', next', from', swaps')
  PROVE  FInv'
  <1>1. PICK sl, oc, av, po, pa, ob, q, nx, sw :
          /\ sl = slot' /\ oc = occ' /\ av = avail' /\ po = pos' /\ pa = past'
          /\ ob = objs' /\ q = qual' /\ nx = next' /\ sw = swaps'
    OBVIOUS
  <1>2. /\ Bookkept(sl, oc, pa)
        /\ phase' # "error" => Ready(av, nx, ob, pa)
        /\ phase' \notin {"place", "error"} => Annealed(nx, q, sl)
        /\ phase' = "decide" => InAir(nx, sw, sl, pa, po)
    BY <1>1 DEF Holds
  <1>3. /\ phase' \in {"place", "error", "idle", "pick", "find", "decide", "done", "trap"}
        /\ phase' # "decide" => pos' = past'
        /\ phase' \in {"find", "decide"} => from' \in objs'
    BY DEF Holds
  <1>4. Bookkept(slot, occ, past)'
    BY <1>1, <1>2, BookkeptStays
  <1>5. phase' # "error" => Ready(avail, next, objs, past)'
    BY <1>1, <1>2, ReadyStays
  <1>6. phase' \notin {"place", "error"} => Annealed(next, qual, slot)'
    BY <1>1, <1>2, AnnealedStays
  <1>7. phase' = "decide" => InAir(next, swaps, slot, past, pos)'
    BY <1>1, <1>2, InAirStays
  <1>8. QED
    BY <1>3, <1>4, <1>5, <1>6, <1>7, DeviceStays DEF FInv, Holds
-----------------------------------------------------------------------------
(* The function that Only defines. *)
IsKept(f, s, S) ==
    /\ f[0] = <<>>
    /\ \A n \in 1..Len(s) : f[n] = IF s[n] \in S THEN Append(f[n - 1], s[n]) ELSE f[n - 1]

(* There is one.                                                           *)
LEMMA KeptExists ==
  ASSUME NEW X, NEW s \in Seq(X), NEW S
  PROVE  \E f : IsKept(f, s, S) /\ Only(s, S) = f[Len(s)]
  <1> DEFINE V       == Seq(X)
             N       == Len(s)
             Up(c, n) == IF n \in 1..N /\ s[n] \in S THEN Append(c, s[n]) ELSE c
             G       == [n \in Nat |-> [c \in V |-> Up(c, n)]]
             Def(h)  == h = [n \in 0..N |->
                               IF n = 0 THEN <<>>
                               ELSE IF s[n] \in S THEN Append(h[n - 1], s[n]) ELSE h[n - 1]]
             h       == CHOOSE g : Def(g)
  <1>1. N \in Nat /\ \A n \in 1..N : s[n] \in X
    OBVIOUS
  <1>2. Only(s, S) = h[N]
    BY DEF Only
  <1>3. \A n \in Nat : \A c \in V : Up(c, n) \in V
    <2> TAKE n \in Nat
    <2> TAKE c \in V
    <2>1. CASE n \in 1..N /\ s[n] \in S
      <3>1. s[n] \in X
        BY <1>1, <2>1
      <3>2. Append(c, s[n]) \in V
        BY <3>1
      <3>3. QED
        BY <2>1, <3>2
    <2>2. CASE ~(n \in 1..N /\ s[n] \in S)
      BY <2>2
    <2>3. QED
      BY <2>1, <2>2
  <1>4. <<>> \in V
    OBVIOUS
  <1>5. \A n \in 1..N : n \in Nat /\ n - 1 \in 0..N
    BY <1>1
  <1>6. \A c : \A n \in 1..N : Up(c, n) = IF s[n] \in S THEN Append(c, s[n]) ELSE c
    OBVIOUS
  <1> HIDE DEF Up, V, N
  <1>7. G \in [Nat -> [V -> V]] /\ \A n \in Nat : \A c \in V : G[n][c] = Up(c, n)
    BY <1>3
  <1> HIDE DEF G
  <1>8. PICK f : Iterates(f, V, <<>>, G, N)
    BY <1>1, <1>4, <1>7, IterateExists
  <1>9. f \in [0..N -> V] /\ f[0] = <<>> /\ \A n \in 1..N : f[n] = Up(f[n - 1], n)
    BY <1>5, <1>7, <1>8 DEF Iterates
  <1>10. Def(f)
    <2>1. f = [n \in 0..N |-> f[n]]
      BY <1>9
    <2>2. \A n \in 0..N : f[n] = (IF n = 0 THEN <<>>
                                  ELSE IF s[n] \in S THEN Append(f[n - 1], s[n]) ELSE f[n - 1])
      BY <1>1, <1>6, <1>9
    <2>3. QED
      BY <2>1, <2>2
  <1>11. Def(h)
    <2> HIDE DEF Def
    <2> QED
      BY <1>10
  <1> HIDE DEF h
  <1>12. h[0] = <<>> /\ \A n \in 1..N : h[n] = IF s[n] \in S THEN Append(h[n - 1], s[n]) ELSE h[n - 1]
    <2>1. 0 \in 0..N /\ \A n \in 1..N : n \in 0..N /\ n # 0
      BY <1>1
    <2>2. \A n \in 0..N : h[n] = (IF n = 0 THEN <<>>
                                  ELSE IF s[n] \in S THEN Append(h[n - 1], s[n]) ELSE h[n - 1])
      BY <1>11
    <2>3. h[0] = <<>>
      BY <2>1, <2>2
    <2>4. QED
      BY <2>1, <2>2, <2>3
  <1>13. IsKept(h, s, S)
    BY <1>12 DEF IsKept, N
  <1>14. QED
    BY <1>2, <1>13 DEF N

(* What c keeps of the first n elements of s.                              *)
Keeps(c, s, n, S) ==
    /\ \A j \in DOMAIN c : \E a \in 1..n : c[j] = s[a] /\ s[a] \in S
    /\ \A a \in 1..n : s[a] \in S => \E j \in DOMAIN c : c[j] = s[a]
    /\ \A j, k \in DOMAIN c : j # k => \E a, b \in 1..n : a # b /\ c[j] = s[a] /\ c[k] = s[b]

(* One element more that is kept. *)
LEMMA KeepsOneMore ==
  ASSUME NEW X, NEW s \in Seq(X), NEW S, NEW n \in 1..Len(s), NEW c \in Seq(X),
         Keeps(c, s, n - 1, S), s[n] \in S
  PROVE  Keeps(Append(c, s[n]), s, n, S)
  <1> DEFINE e == s[n]
             q == Append(c, e)
  <1>1. e \in X /\ n \in Nat /\ n - 1 \in Nat /\ n \in 1..n /\ \A a \in 1..(n - 1) : a \in 1..n /\ a # n
    OBVIOUS
  <1>2. \A a \in 1..n : a = n \/ a \in 1..(n - 1)
    BY <1>1
  <1> HIDE DEF e
  <1>3. /\ Len(c) \in Nat /\ DOMAIN c = 1..Len(c)
        /\ DOMAIN q = 1..(Len(c) + 1) /\ q[Len(c) + 1] = e /\ \A j \in DOMAIN c : q[j] = c[j]
    BY <1>1
  <1>4. \A j \in DOMAIN q : j = Len(c) + 1 \/ j \in DOMAIN c
    BY <1>3
  <1>5. Len(c) + 1 \in DOMAIN q /\ \A j \in DOMAIN c : j \in DOMAIN q
    BY <1>3
  <1> HIDE DEF q
  <1>6. ASSUME NEW j \in DOMAIN q
        PROVE  \E a \in 1..n : q[j] = s[a] /\ s[a] \in S
    <2>1. CASE j = Len(c) + 1
      <3>1. q[j] = s[n] /\ s[n] \in S
        BY <1>3, <2>1 DEF e
      <3>2. QED
        BY <1>1, <3>1
    <2>2. CASE j \in DOMAIN c
      <3>1. PICK a \in 1..(n - 1) : c[j] = s[a] /\ s[a] \in S
        BY <2>2 DEF Keeps
      <3>2. QED
        BY <1>1, <1>3, <2>2, <3>1
    <2>3. QED
      BY <1>4, <2>1, <2>2
  <1>7. ASSUME NEW a \in 1..n, s[a] \in S
        PROVE  \E j \in DOMAIN q : q[j] = s[a]
    <2>1. CASE a = n
      BY <1>3, <1>5, <2>1 DEF e
    <2>2. CASE a \in 1..(n - 1)
      BY <1>3, <1>5, <1>7, <2>2 DEF Keeps
    <2>3. QED
      BY <1>2, <2>1, <2>2
  <1>8. ASSUME NEW j \in DOMAIN q, NEW k \in DOMAIN q, j # k
        PROVE  \E a, b \in 1..n : a # b /\ q[j] = s[a] /\ q[k] = s[b]
    <2>1. CASE j \in DOMAIN c /\ k \in DOMAIN c
      <3>1. PICK a \in 1..(n - 1), b \in 1..(n - 1) : a # b /\ c[j] = s[a] /\ c[k] = s[b]
        BY <1>8, <2>1 DEF Keeps
      <3>2. QED
        BY <1>1, <1>3, <2>1, <3>1
    <2>2. CASE j = Len(c) + 1 /\ k \in DOMAIN c
      <3>1. PICK b \in 1..(n - 1) : c[k] = s[b]
        BY <2>2 DEF Keeps
      <3>2. n # b /\ q[j] = s[n] /\ q[k] = s[b]
        BY <1>1, <1>3, <2>2, <3>1 DEF e
      <3>3. QED
        BY <1>1, <3>2
    <2>3. CASE k = Len(c) + 1 /\ j \in DOMAIN c
      <3>1. PICK b \in 1..(n - 1) : c[j] = s[b]
        BY <2>3 DEF Keeps
      <3>2. n # b /\ q[k] = s[n] /\ q[j] = s[b]
        BY <1>1, <1>3, <2>3, <3>1 DEF e
      <3>3. QED
        BY <1>1, <3>2
    <2>4. QED
      BY <1>4, <1>8, <2>1, <2>2, <2>3
  <1>9. Keeps(q, s, n, S)
    BY <1>6, <1>7, <1>8 DEF Keeps
  <1>10. QED
    BY <1>9 DEF q, e

(* One that is not. *)
LEMMA KeepsNoMore ==
  ASSUME NEW s, NEW S, NEW n \in Nat \ {0}, NEW c, Keeps(c, s, n - 1, S), s[n] \notin S
  PROVE  Keeps(c, s, n, S)
  <1>1. \A a \in 1..(n - 1) : a \in 1..n
    OBVIOUS
  <1>2. \A a \in 1..n : a = n \/ a \in 1..(n - 1)
    OBVIOUS
  <1>3. \A j \in DOMAIN c : \E a \in 1..n : c[j] = s[a] /\ s[a] \in S
    BY <1>1 DEF Keeps
  <1>4. \A a \in 1..n : s[a] \in S => \E j \in DOMAIN c : c[j] = s[a]
    BY <1>2 DEF Keeps
  <1>5. ASSUME NEW j \in DOMAIN c, NEW k \in DOMAIN c, j # k
        PROVE  \E a, b \in 1..n : a # b /\ c[j] = s[a] /\ c[k] = s[b]
    BY <1>1, <1>5 DEF Keeps
  <1>6. QED
    BY <1>3, <1>4, <1>5 DEF Keeps

(* Only keeps just the elements of s in S, each as often as it is there.   *)
LEMMA OnlyKeeps ==
  ASSUME NEW X, NEW s \in Seq(X), NEW S
  PROVE  Only(s, S) \in Seq(X) /\ Keeps(Only(s, S), s, Len(s), S)
  <1>1. PICK f : IsKept(f, s, S) /\ Only(s, S) = f[Len(s)]
    BY KeptExists
  <1> DEFINE N == Len(s)
             T == {n \in 0..N : f[n] \in Seq(X) /\ Keeps(f[n], s, n, S)}
  <1>2. N \in Nat
    OBVIOUS
  <1>3. 0 \in T
    <2>1. f[0] = <<>>
      BY <1>1 DEF IsKept
    <2>2. <<>> \in Seq(X) /\ DOMAIN <<>> = {} /\ 1..0 = {}
      OBVIOUS
    <2>3. Keeps(<<>>, s, 0, S)
      BY <2>2 DEF Keeps
    <2>4. f[0] \in Seq(X) /\ Keeps(f[0], s, 0, S)
      BY <2>1, <2>2, <2>3
    <2>5. 0 \in 0..N
      BY <1>2
    <2>6. QED
      BY <2>4, <2>5
  <1>4. ASSUME NEW n \in 1..N, n - 1 \in T
        PROVE  n \in T
    <2>1. f[n - 1] \in Seq(X) /\ Keeps(f[n - 1], s, n - 1, S)
      BY <1>4
    <2>2. n \in 0..N /\ n \in Nat \ {0} /\ s[n] \in X /\ n \in 1..Len(s)
      BY <1>2
    <2>3. PICK c \in Seq(X) : c = f[n - 1]
      BY <2>1
    <2>4. f[n] = IF s[n] \in S THEN Append(c, s[n]) ELSE c
      BY <1>1, <2>3 DEF IsKept
    <2>5. Keeps(c, s, n - 1, S)
      BY <2>1, <2>3
    <2>6. CASE s[n] \in S
      <3>1. Keeps(Append(c, s[n]), s, n, S)
        BY <2>2, <2>5, <2>6, KeepsOneMore
      <3>2. Append(c, s[n]) \in Seq(X)
        BY <2>2
      <3>3. f[n] = Append(c, s[n])
        BY <2>4, <2>6
      <3>4. QED
        BY <2>2, <3>1, <3>2, <3>3
    <2>7. CASE s[n] \notin S
      <3>1. Keeps(c, s, n, S)
        BY <2>2, <2>5, <2>7, KeepsNoMore
      <3>2. f[n] = c
        BY <2>4, <2>7
      <3>3. QED
        BY <2>2, <3>1, <3>2
    <2>8. QED
      BY <2>6, <2>7
  <1>5. N \in T
    <2> HIDE DEF T, N
    <2>1. 0..N \subseteq T
      BY <1>2, <1>3, <1>4, BoundedInduction
    <2>2. QED
      BY <1>2, <2>1
  <1>6. QED
    BY <1>1, <1>5

(* The instance with a pin of that name on a net.                          *)
LEMMA OwnerFits ==
  ASSUME NEW d, TidyNets(d), NEW k \in DOMAIN d.nets, NEW name, Named(d.nets[k], name) # {}
  PROVE  /\ Owner(d.nets[k], name) \in ElemsOf(d.insts)
         /\ \E j \in Named(d.nets[k], name) : Owner(d.nets[k], name) = d.nets[k].pins[j].inst
  <1> DEFINE Pins == [inst : ElemsOf(d.insts), name : STRING, source : BOOLEAN]
             R == [pins : Seq(Pins), type : STRING, port : BOOLEAN]
  <1>1. d.nets \in Seq(R)
    BY DEF TidyNets
  <1>2. PICK n : n = d.nets[k]
    OBVIOUS
  <1>3. n \in R
    <2> HIDE DEF R
    <2> QED
      BY <1>1, <1>2
  <1>4. n.pins \in Seq(Pins)
    <2> HIDE DEF Pins
    <2> QED
      BY <1>3
  <1> HIDE DEF R
  <1>5. DOMAIN n.pins \subseteq Nat /\ \A j \in DOMAIN n.pins : n.pins[j] \in Pins
    <2> HIDE DEF Pins
    <2> QED
      BY <1>4
  <1>6. Named(n, name) \subseteq DOMAIN n.pins /\ Named(n, name) # {}
    BY <1>2 DEF Named
  <1>7. Lowest(Named(n, name)) \in Named(n, name)
    BY <1>5, <1>6, LowestFits
  <1>8. Owner(n, name) = n.pins[Lowest(Named(n, name))].inst
    BY DEF Owner
  <1>9. n.pins[Lowest(Named(n, name))] \in Pins
    BY <1>5, <1>6, <1>7
  <1>10. QED
    BY <1>2, <1>7, <1>8, <1>9

(* The nodes of the carry nets are instances that no constraint holds.     *)
LEMMA NodesFit ==
  ASSUME NEW d, TidyNets(d)
  PROVE  /\ \A k \in ChainNets(d) : CoutOf(d, k) \in Nodes(d) /\ CinOf(d, k) \in Nodes(d)
         /\ Nodes(d) \subseteq ElemsOf(d.insts) \ DOMAIN d.cst
  <1>1. ASSUME NEW k \in ChainNets(d)
        PROVE  CoutOf(d, k) \in Nodes(d) /\ CinOf(d, k) \in Nodes(d)
    BY DEF Nodes
  <1>2. ASSUME NEW k \in ChainNets(d)
        PROVE  {CoutOf(d, k), CinOf(d, k)} \subseteq ElemsOf(d.insts) \ DOMAIN d.cst
    <2>1. k \in DOMAIN d.nets /\ Named(d.nets[k], "COUT") # {} /\ Named(d.nets[k], "CIN") # {}
      BY DEF ChainNets, CarryNets, Joins
    <2>2. CoutOf(d, k) \in ElemsOf(d.insts)
      BY <2>1, OwnerFits DEF CoutOf
    <2>3. CinOf(d, k) \in ElemsOf(d.insts)
      BY <2>1, OwnerFits DEF CinOf
    <2>4. QED
      BY <2>2, <2>3 DEF ChainNets, IsCst
  <1>3. QED
    BY <1>1, <1>2 DEF Nodes

(* An edge leads from the carry output to the carry input of a net, and    *)
(* no two lead to the same node.                                           *)
LEMMA EdgesFit ==
  ASSUME NEW d, TidyNets(d)
  PROVE  /\ \A k \in ChainNets(d) : CoutOf(d, k) \in DOMAIN ToEdge(d) /\ ToEdge(d)[CoutOf(d, k)] = CinOf(d, k)
         /\ \A i \in DOMAIN ToEdge(d) : \E k \in ChainNets(d) : i = CoutOf(d, k) /\ ToEdge(d)[i] = CinOf(d, k)
         /\ \A i, j \in DOMAIN ToEdge(d) : ToEdge(d)[i] = ToEdge(d)[j] => i = j
  <1> DEFINE to == ToEdge(d)
  <1>1. \A j, k \in ChainNets(d) : CoutOf(d, j) = CoutOf(d, k) \/ CinOf(d, j) = CinOf(d, k) => j = k
    BY DEF TidyNets, ChainNets
  <1>2. ChainNets(d) \subseteq Nat
    <2> DEFINE R == [pins : Seq([inst : ElemsOf(d.insts), name : STRING, source : BOOLEAN]),
                     type : STRING, port : BOOLEAN]
    <2>1. d.nets \in Seq(R)
      BY DEF TidyNets
    <2> HIDE DEF R
    <2>2. DOMAIN d.nets \subseteq Nat
      BY <2>1
    <2>3. QED
      BY <2>2 DEF ChainNets, CarryNets
  <1>3. ASSUME NEW k \in ChainNets(d)
        PROVE  CoutOf(d, k) \in DOMAIN to /\ to[CoutOf(d, k)] = CinOf(d, k)
    <2> DEFINE i == CoutOf(d, k)
    <2>1. {j \in ChainNets(d) : CoutOf(d, j) = i} = {k}
      BY <1>1
    <2>2. Highest({k}) = k
      BY <1>2 DEF Highest
    <2>3. i \in {CoutOf(d, j) : j \in ChainNets(d)}
      OBVIOUS
    <2>4. to[i] = CinOf(d, Highest({j \in ChainNets(d) : CoutOf(d, j) = i})) /\ i \in DOMAIN to
      BY <2>3 DEF ToEdge
    <2>5. QED
      BY <2>1, <2>2, <2>4
  <1>4. ASSUME NEW i \in DOMAIN to
        PROVE  \E k \in ChainNets(d) : i = CoutOf(d, k) /\ to[i] = CinOf(d, k)
    <2>1. DOMAIN to = {CoutOf(d, k) : k \in ChainNets(d)}
      BY DEF ToEdge
    <2>2. PICK k \in ChainNets(d) : i = CoutOf(d, k)
      BY <2>1
    <2>3. QED
      BY <1>3, <2>2
  <1> HIDE DEF to
  <1>5. ASSUME NEW i \in DOMAIN to, NEW j \in DOMAIN to, to[i] = to[j]
        PROVE  i = j
    <2>1. PICK k \in ChainNets(d) : i = CoutOf(d, k) /\ to[i] = CinOf(d, k)
      BY <1>4
    <2>2. PICK l \in ChainNets(d) : j = CoutOf(d, l) /\ to[j] = CinOf(d, l)
      BY <1>4
    <2>3. k = l
      BY <1>1, <1>5, <2>1, <2>2
    <2>4. QED
      BY <2>1, <2>2, <2>3
  <1>6. QED
    BY <1>3, <1>4, <1>5 DEF to

(* A way along the edges from i. *)
Trail(d, c, i) ==
    /\ c \in Seq(Nodes(d)) /\ Len(c) > 0 /\ c[1] = i
    /\ \A k \in 1..(Len(c) - 1) : c[k] \in DOMAIN ToEdge(d) /\ c[k + 1] = ToEdge(d)[c[k]]

(* No edge leads to a start.                                               *)
LEMMA HeadsFit ==
  ASSUME NEW d, TidyNets(d), NEW i \in Starts(d)
  PROVE  i \in Nodes(d) /\ \A j \in DOMAIN ToEdge(d) : ToEdge(d)[j] # i
  <1>1. i \in Nodes(d) /\ \A k \in ChainNets(d) : CinOf(d, k) # i
    BY DEF Starts
  <1>2. QED
    BY <1>1, EdgesFit

(* Ways from starts that meet are the same, step by step.                  *)
LEMMA TrailsMeet ==
  ASSUME NEW d, TidyNets(d), NEW i \in Starts(d), NEW j \in Starts(d), NEW b, NEW c,
         Trail(d, b, i), Trail(d, c, j), NEW m \in 1..Len(b), NEW n \in 1..Len(c), b[m] = c[n]
  PROVE  i = j /\ m = n
  <1> DEFINE to == ToEdge(d)
             S  == {k \in Nat : k + 1 \in 1..Len(b) =>
                                  \A l \in 1..Len(c) : b[k + 1] = c[l] => i = j /\ l = k + 1}
  <1>1. /\ \A k \in DOMAIN to : to[k] # i /\ to[k] # j
        /\ \A k, l \in DOMAIN to : to[k] = to[l] => k = l
    <2>1. \A k \in DOMAIN to : to[k] # i
      BY HeadsFit
    <2>2. \A k \in DOMAIN to : to[k] # j
      BY HeadsFit
    <2>3. \A k, l \in DOMAIN to : to[k] = to[l] => k = l
      BY EdgesFit
    <2>4. QED
      BY <2>1, <2>2, <2>3
  <1>2. /\ b[1] = i /\ \A k \in 1..(Len(b) - 1) : b[k] \in DOMAIN to /\ b[k + 1] = to[b[k]]
        /\ c[1] = j /\ \A k \in 1..(Len(c) - 1) : c[k] \in DOMAIN to /\ c[k + 1] = to[c[k]]
    BY DEF Trail
  <1>3. PICK p \in Nat, q \in Nat : p = Len(b) /\ q = Len(c)
    BY DEF Trail
  <1> HIDE DEF to
  <1>4. \A l \in 1..q : l = 1 \/ (l - 1 \in 1..(q - 1) /\ (l - 1) + 1 = l /\ l - 1 \in 1..q)
    BY <1>3
  <1>5. 0 \in S
    <2> SUFFICES ASSUME NEW l \in 1..q, b[1] = c[l]
                 PROVE  i = j /\ l = 1
      BY <1>3
    <2>1. CASE l = 1
      BY <1>2, <2>1
    <2>2. CASE l - 1 \in 1..(q - 1) /\ (l - 1) + 1 = l
      <3>1. c[l] = to[c[l - 1]] /\ c[l - 1] \in DOMAIN to
        BY <1>2, <1>3, <2>2
      <3>2. QED
        BY <1>1, <1>2, <3>1
    <2>3. QED
      BY <1>4, <2>1, <2>2
  <1>6. ASSUME NEW k \in Nat, k \in S
        PROVE  k + 1 \in S
    <2> SUFFICES ASSUME (k + 1) + 1 \in 1..p, NEW l \in 1..q, b[(k + 1) + 1] = c[l]
                 PROVE  i = j /\ l = (k + 1) + 1
      BY <1>3
    <2>1. k + 1 \in 1..(p - 1) /\ k + 1 \in 1..p
      BY <1>3
    <2>2. b[(k + 1) + 1] = to[b[k + 1]] /\ b[k + 1] \in DOMAIN to
      BY <1>2, <1>3, <2>1
    <2>3. CASE l = 1
      BY <1>1, <1>2, <2>2, <2>3
    <2>4. CASE l - 1 \in 1..(q - 1) /\ (l - 1) + 1 = l /\ l - 1 \in 1..q
      <3>1. c[l] = to[c[l - 1]] /\ c[l - 1] \in DOMAIN to
        BY <1>2, <1>3, <2>4
      <3>2. c[l - 1] = b[k + 1]
        BY <1>1, <2>2, <3>1
      <3>3. i = j /\ l - 1 = k + 1
        BY <1>6, <1>3, <2>1, <2>4, <3>2
      <3>4. QED
        BY <3>3
    <2>5. QED
      BY <1>4, <2>3, <2>4
  <1>7. m - 1 \in Nat /\ (m - 1) + 1 = m
    BY <1>3
  <1>8. Nat \subseteq S
    <2> HIDE DEF S
    <2> QED
      BY <1>5, <1>6, SetInduction
  <1>9. m - 1 \in S
    <2> HIDE DEF S
    <2> QED
      BY <1>7, <1>8
  <1>10. QED
    BY <1>7, <1>9

(* The function that ChainFrom defines. *)
IsWay(f, d, i, N) ==
    /\ f[0] = <<i>>
    /\ \A n \in 1..N : f[n] = IF Len(f[n - 1]) = n /\ f[n - 1][n] \in DOMAIN ToEdge(d)
                                THEN Append(f[n - 1], ToEdge(d)[f[n - 1][n]]) ELSE f[n - 1]

(* There are finitely many nodes.                                          *)
LEMMA NodesFinite ==
  ASSUME NEW d, TidyNets(d)
  PROVE  IsFiniteSet(Nodes(d)) /\ Cardinality(Nodes(d)) \in Nat
  <1>1. d.insts \in Seq(Inst)
    BY DEF TidyNets
  <1>2. IsFiniteSet(DOMAIN d.insts)
    <2>1. DOMAIN d.insts = 1..Len(d.insts) /\ Len(d.insts) \in Nat
      BY <1>1
    <2>2. IsFiniteSet(1..Len(d.insts))
      BY <2>1, FS_Interval
    <2>3. QED
      BY <2>1, <2>2
  <1>3. IsFiniteSet({d.insts[k] : k \in DOMAIN d.insts})
    <2> DEFINE S == DOMAIN d.insts
               f == d.insts
               T == {f[k] : k \in S}
    <2>1. f \in [S -> T] /\ \A t \in T : \E i \in S : f[i] = t
      BY <1>1
    <2>2. IsFiniteSet(S)
      BY <1>2
    <2> HIDE DEF S, f, T
    <2>3. IsFiniteSet(T)
      BY <2>1, <2>2, ValuesFinite
    <2>4. QED
      BY <2>3 DEF S, f, T
  <1>4. IsFiniteSet(Nodes(d))
    BY <1>3, NodesFit, FS_Subset DEF ElemsOf
  <1>5. QED
    BY <1>4, FS_CardinalityType

(* There is one. *)
LEMMA WayExists ==
  ASSUME NEW d, TidyNets(d), NEW i \in Nodes(d)
  PROVE  \E f : /\ IsWay(f, d, i, Cardinality(Nodes(d)))
                /\ ChainFrom(d, i) = f[Cardinality(Nodes(d))]
  <1> DEFINE to == ToEdge(d)
             V  == Seq(Nodes(d))
             N  == Cardinality(Nodes(d))
             Onward(c, n) == IF Len(c) = n /\ c[n] \in DOMAIN to THEN Append(c, to[c[n]]) ELSE c
             Def(h) == h = [n \in 0..N |->
                              IF n = 0 THEN <<i>>
                              ELSE LET c == h[n - 1]
                                   IN  IF Len(c) = n /\ c[n] \in DOMAIN to THEN Append(c, to[c[n]]) ELSE c]
             h  == CHOOSE g : Def(g)
             G  == [n \in Nat |-> [c \in V |-> Onward(c, n)]]
  <1>1. N \in Nat
    BY NodesFinite
  <1>2. ChainFrom(d, i) = h[N]
    BY DEF ChainFrom
  <1>3. \A n \in Nat : \A c \in V : Onward(c, n) \in V
    <2> TAKE n \in Nat
    <2> TAKE c \in V
    <2>1. CASE Len(c) = n /\ c[n] \in DOMAIN to
      <3>1. to[c[n]] \in Nodes(d)
        BY <2>1, EdgesFit, NodesFit
      <3>2. Append(c, to[c[n]]) \in V
        BY <3>1
      <3>3. QED
        BY <2>1, <3>2
    <2>2. CASE ~(Len(c) = n /\ c[n] \in DOMAIN to)
      BY <2>2
    <2>3. QED
      BY <2>1, <2>2
  <1>4. <<i>> \in V
    OBVIOUS
  <1>5. \A n \in 1..N : n \in Nat /\ n - 1 \in 0..N /\ n \in 0..N /\ n # 0
    BY <1>1
  <1>6. \A c : \A n \in 1..N :
           Onward(c, n) = IF Len(c) = n /\ c[n] \in DOMAIN to THEN Append(c, to[c[n]]) ELSE c
    OBVIOUS
  <1>7. \A g : Def(g) <=> g = [n \in 0..N |-> IF n = 0 THEN <<i>> ELSE Onward(g[n - 1], n)]
    OBVIOUS
  <1> HIDE DEF Onward, V, N, to, Def
  <1>8. G \in [Nat -> [V -> V]] /\ \A n \in Nat : \A c \in V : G[n][c] = Onward(c, n)
    BY <1>3
  <1> HIDE DEF G
  <1>9. PICK f : Iterates(f, V, <<i>>, G, N)
    BY <1>1, <1>4, <1>8, IterateExists
  <1>10. f \in [0..N -> V] /\ f[0] = <<i>> /\ \A n \in 1..N : f[n] = Onward(f[n - 1], n)
    BY <1>5, <1>8, <1>9 DEF Iterates
  <1>11. Def(f)
    <2>1. f = [n \in 0..N |-> f[n]]
      BY <1>10
    <2>2. \A n \in 0..N : f[n] = (IF n = 0 THEN <<i>> ELSE Onward(f[n - 1], n))
      <3>1. \A n \in 0..N : n = 0 \/ n \in 1..N
        BY <1>1
      <3>2. QED
        BY <1>10, <3>1
    <2>3. QED
      BY <1>7, <2>1, <2>2
  <1>12. Def(h)
    BY <1>11
  <1> HIDE DEF h
  <1>13. h = [n \in 0..N |-> IF n = 0 THEN <<i>> ELSE Onward(h[n - 1], n)]
    BY <1>7, <1>12
  <1>14. h[0] = <<i>> /\ \A n \in 1..N : h[n] = Onward(h[n - 1], n)
    <2>1. 0 \in 0..N
      BY <1>1
    <2>2. h[0] = <<i>>
      BY <1>13, <2>1
    <2>3. ASSUME NEW n \in 1..N
          PROVE  h[n] = Onward(h[n - 1], n)
      BY <1>5, <1>13
    <2>4. QED
      BY <2>2, <2>3
  <1>15. \A n \in 1..N : h[n] = IF Len(h[n - 1]) = n /\ h[n - 1][n] \in DOMAIN to
                                  THEN Append(h[n - 1], to[h[n - 1][n]]) ELSE h[n - 1]
    BY <1>6, <1>14
  <1>16. IsWay(h, d, i, N)
    BY <1>14, <1>15 DEF IsWay, to
  <1>17. QED
    BY <1>2, <1>16 DEF N

(* The way after n edges, or as many as there are. *)
Gone(d, c, i, n) ==
    /\ Trail(d, c, i)
    /\ Len(c) <= n + 1
    /\ Len(c) <= n => c[Len(c)] \notin DOMAIN ToEdge(d)

(* An edge more. *)
LEMMA GoneFarther ==
  ASSUME NEW d, TidyNets(d), NEW i, NEW c, NEW n \in Nat \ {0}, Gone(d, c, i, n - 1),
         NEW b, b = IF Len(c) = n /\ c[n] \in DOMAIN ToEdge(d) THEN Append(c, ToEdge(d)[c[n]]) ELSE c
  PROVE  Gone(d, b, i, n)
  <1>1. /\ c \in Seq(Nodes(d)) /\ Len(c) > 0 /\ c[1] = i
        /\ \A k \in 1..(Len(c) - 1) : c[k] \in DOMAIN ToEdge(d) /\ c[k + 1] = ToEdge(d)[c[k]]
        /\ Len(c) <= n
        /\ Len(c) <= n - 1 => c[Len(c)] \notin DOMAIN ToEdge(d)
    BY DEF Gone, Trail
  <1>2. CASE Len(c) = n /\ c[n] \in DOMAIN ToEdge(d)
    <2> DEFINE e == ToEdge(d)[c[n]]
    <2>1. e \in Nodes(d)
      BY <1>2, EdgesFit, NodesFit
    <2>2. b = Append(c, e)
      BY <1>2
    <2> HIDE DEF e
    <2>3. /\ b \in Seq(Nodes(d)) /\ Len(b) = n + 1 /\ b[n + 1] = e
          /\ \A k \in 1..n : b[k] = c[k]
      BY <1>1, <1>2, <2>1, <2>2
    <2>4. ASSUME NEW k \in 1..(Len(b) - 1)
          PROVE  b[k] \in DOMAIN ToEdge(d) /\ b[k + 1] = ToEdge(d)[b[k]]
      <3>1. k \in 1..n
        BY <2>3
      <3>2. CASE k = n
        BY <1>2, <2>3, <3>1, <3>2 DEF e
      <3>3. CASE k # n
        <4>1. k \in 1..(Len(c) - 1) /\ k + 1 \in 1..n
          BY <1>2, <3>1, <3>3
        <4>2. QED
          BY <1>1, <2>3, <3>1, <4>1
      <3>4. QED
        BY <3>2, <3>3
    <2>5. 1 \in 1..n
      OBVIOUS
    <2>6. Trail(d, b, i)
      BY <1>1, <2>3, <2>4, <2>5 DEF Trail
    <2>7. QED
      BY <2>3, <2>6 DEF Gone
  <1>3. CASE ~(Len(c) = n /\ c[n] \in DOMAIN ToEdge(d))
    <2>1. b = c
      BY <1>3
    <2>2. c[Len(c)] \notin DOMAIN ToEdge(d)
      BY <1>1, <1>3
    <2>3. Len(c) <= n + 1
      BY <1>1
    <2>4. QED
      BY <2>1, <2>2, <2>3 DEF Gone
  <1>4. QED
    BY <1>2, <1>3

(* What ChainFrom gives is a way from i to a node without an edge: there   *)
(* are not enough nodes to go on.                                          *)
LEMMA ChainFromFits ==
  ASSUME NEW d, TidyNets(d), NEW i \in Starts(d)
  PROVE  /\ Trail(d, ChainFrom(d, i), i)
         /\ ChainFrom(d, i)[Len(ChainFrom(d, i))] \notin DOMAIN ToEdge(d)
  <1> DEFINE N == Cardinality(Nodes(d))
  <1>1. i \in Nodes(d) /\ N \in Nat /\ IsFiniteSet(Nodes(d))
    BY HeadsFit, NodesFinite
  <1>2. PICK f : IsWay(f, d, i, N) /\ ChainFrom(d, i) = f[N]
    BY <1>1, WayExists
  <1> DEFINE S == {n \in 0..N : Gone(d, f[n], i, n)}
  <1> HIDE DEF N
  <1>3. 0 \in S
    <2>1. f[0] = <<i>>
      BY <1>2 DEF IsWay
    <2>2. <<i>> \in Seq(Nodes(d)) /\ Len(<<i>>) = 1 /\ <<i>>[1] = i /\ 1..(1 - 1) = {}
      BY <1>1
    <2>3. Trail(d, <<i>>, i)
      BY <2>2 DEF Trail
    <2>4. Gone(d, f[0], i, 0)
      BY <2>1, <2>2, <2>3 DEF Gone
    <2>5. QED
      BY <1>1, <2>4
  <1>4. ASSUME NEW n \in 1..N, n - 1 \in S
        PROVE  n \in S
    <2>1. Gone(d, f[n - 1], i, n - 1) /\ n \in Nat \ {0} /\ n \in 0..N
      BY <1>1, <1>4
    <2>2. f[n] = IF Len(f[n - 1]) = n /\ f[n - 1][n] \in DOMAIN ToEdge(d)
                   THEN Append(f[n - 1], ToEdge(d)[f[n - 1][n]]) ELSE f[n - 1]
      BY <1>2 DEF IsWay
    <2>3. PICK c : c = f[n - 1]
      OBVIOUS
    <2>4. PICK b : b = f[n]
      OBVIOUS
    <2>5. b = IF Len(c) = n /\ c[n] \in DOMAIN ToEdge(d) THEN Append(c, ToEdge(d)[c[n]]) ELSE c
      BY <2>2, <2>3, <2>4
    <2>6. Gone(d, c, i, n - 1)
      BY <2>1, <2>3
    <2>7. Gone(d, b, i, n)
      BY <2>1, <2>5, <2>6, GoneFarther
    <2>8. QED
      BY <2>1, <2>4, <2>7
  <1>5. N \in S
    <2> HIDE DEF S
    <2>1. 0..N \subseteq S
      BY <1>1, <1>3, <1>4, BoundedInduction
    <2>2. QED
      BY <1>1, <2>1
  <1>6. PICK c : c = ChainFrom(d, i)
    OBVIOUS
  <1>7. Gone(d, c, i, N)
    BY <1>2, <1>5, <1>6
  <1>8. Trail(d, c, i) /\ c \in Seq(Nodes(d)) /\ Len(c) \in Nat
    BY <1>7 DEF Gone, Trail
  <1>9. Len(c) <= N
    <2> SUFFICES ASSUME N < Len(c)
                 PROVE  FALSE
      BY <1>1, <1>8
    <2> DEFINE D == 1..Len(c)
    <2>1. IsFiniteSet(D) /\ Cardinality(D) = Len(c)
      BY <1>8, FS_Interval
    <2>2. c \in [D -> Nodes(d)]
      BY <1>8
    <2>3. PICK j \in D, k \in D : j # k /\ c[j] = c[k]
      <3> HIDE DEF D
      <3> QED
        BY <1>1, <2>1, <2>2, FS_PigeonHole DEF N
    <2>4. j = k
      BY <1>8, <2>3, TrailsMeet
    <2>5. QED
      BY <2>3, <2>4
  <1>10. c[Len(c)] \notin DOMAIN ToEdge(d)
    BY <1>7, <1>9 DEF Gone
  <1>11. QED
    BY <1>6, <1>8, <1>10

(* No carry net closes a loop: among any instances there is one that none  *)
(* of the others feeds.                                                    *)
CarriesBegin(d) ==
    \A S \in SUBSET ElemsOf(d.insts) :
        (\A i \in S : \E k \in CarryNets(d) : CinOf(d, k) = i /\ CoutOf(d, k) \in S) => S = {}

(* Then every node is on the way from a start.                             *)
LEMMA ChainsCover ==
  ASSUME NEW d, TidyNets(d), CarriesBegin(d), NEW i \in Nodes(d)
  PROVE  \E s \in Starts(d) : \E j \in 1..Len(ChainFrom(d, s)) : ChainFrom(d, s)[j] = i
  <1> DEFINE Covered(v) == \E s \in Starts(d) : \E j \in 1..Len(ChainFrom(d, s)) : ChainFrom(d, s)[j] = v
             S == {v \in Nodes(d) : ~Covered(v)}
  <1>1. S \subseteq ElemsOf(d.insts)
    BY NodesFit
  <1>2. ASSUME NEW v \in S
        PROVE  \E k \in CarryNets(d) : CinOf(d, k) = v /\ CoutOf(d, k) \in S
    <2>1. v \notin Starts(d)
      <3> SUFFICES ASSUME v \in Starts(d)
                   PROVE  Covered(v)
        BY <1>2
      <3>1. Trail(d, ChainFrom(d, v), v)
        BY ChainFromFits
      <3>2. PICK c : c = ChainFrom(d, v)
        OBVIOUS
      <3>3. 1 \in 1..Len(c) /\ c[1] = v
        BY <3>1, <3>2 DEF Trail
      <3>4. QED
        BY <3>2, <3>3
    <2>2. PICK k \in ChainNets(d) : v = CinOf(d, k)
      BY <2>1 DEF Starts
    <2> DEFINE o == CoutOf(d, k)
    <2>3. o \in Nodes(d) /\ o \in DOMAIN ToEdge(d) /\ ToEdge(d)[o] = v
      BY <2>2, NodesFit, EdgesFit
    <2> HIDE DEF o
    <2>4. ~Covered(o)
      <3> SUFFICES ASSUME NEW s \in Starts(d), NEW j \in 1..Len(ChainFrom(d, s)), ChainFrom(d, s)[j] = o
                   PROVE  Covered(v)
        BY <1>2
      <3>1. PICK c : c = ChainFrom(d, s)
        OBVIOUS
      <3>2. Trail(d, c, s) /\ c[Len(c)] \notin DOMAIN ToEdge(d)
        BY <3>1, ChainFromFits
      <3>3. Len(c) \in Nat /\ \A l \in 1..(Len(c) - 1) : c[l + 1] = ToEdge(d)[c[l]]
        BY <3>2 DEF Trail
      <3>4. j \in 1..Len(c) /\ c[j] = o
        BY <3>1
      <3>5. j # Len(c)
        BY <2>3, <3>2, <3>4
      <3>6. j \in 1..(Len(c) - 1) /\ j + 1 \in 1..Len(c)
        BY <3>3, <3>4, <3>5
      <3>7. c[j + 1] = v
        BY <2>3, <3>3, <3>4, <3>6
      <3>8. QED
        BY <3>1, <3>6, <3>7
    <2>5. k \in CarryNets(d)
      BY DEF ChainNets
    <2>6. QED
      BY <2>2, <2>3, <2>4, <2>5 DEF o
  <1> HIDE DEF Covered
  <1>3. S = {}
    <2> HIDE DEF S
    <2> QED
      BY <1>1, <1>2 DEF CarriesBegin
  <1>4. Covered(i)
    BY <1>3
  <1>5. QED
    BY <1>4 DEF Covered

(* The chains are ways from the starts; no two meet, none comes back to    *)
(* one of its members.                                                     *)
LEMMA ChainsAre ==
  ASSUME NEW d, TidyNets(d)
  PROVE  /\ Chains(d) \in Seq(Seq(Inst))
         /\ \A k \in DOMAIN Chains(d) : \E s \in Starts(d) :
              Trail(d, Chains(d)[k], s) /\ Chains(d)[k] = ChainFrom(d, s)
         /\ \A j, k \in DOMAIN Chains(d) : \A m \in DOMAIN Chains(d)[j] : \A n \in DOMAIN Chains(d)[k] :
              Chains(d)[j][m] = Chains(d)[k][n] => j = k /\ m = n
         /\ \A s \in Starts(d) : \E k \in DOMAIN Chains(d) : Chains(d)[k] = ChainFrom(d, s)
  <1> DEFINE S == Starts(d)
             q == Only(d.insts, S)
             C == Chains(d)
  <1>1. d.insts \in Seq(Inst) /\ \A j, k \in DOMAIN d.insts : d.insts[j] = d.insts[k] => j = k
    BY DEF TidyNets
  <1>2. PICK N \in Nat : N = Len(d.insts) /\ DOMAIN d.insts = 1..N
    BY <1>1
  <1>3. q \in Seq(Inst) /\ Keeps(q, d.insts, N, S)
    BY <1>1, <1>2, OnlyKeeps
  <1>4. C = [k \in DOMAIN q |-> ChainFrom(d, q[k])]
    BY DEF Chains
  <1> HIDE DEF q, C
  <1>5. \A k \in DOMAIN q : q[k] \in S
    BY <1>3 DEF Keeps
  <1>6. Nodes(d) \subseteq Inst
    BY <1>1, NodesFit DEF ElemsOf
  <1>7. ASSUME NEW k \in DOMAIN C
        PROVE  k \in DOMAIN q /\ Trail(d, C[k], q[k]) /\ C[k] = ChainFrom(d, q[k]) /\ C[k] \in Seq(Inst)
    <2>1. k \in DOMAIN q /\ C[k] = ChainFrom(d, q[k])
      BY <1>4
    <2>2. Trail(d, ChainFrom(d, q[k]), q[k])
      BY <1>5, <2>1, ChainFromFits
    <2>3. C[k] \in Seq(Nodes(d))
      BY <2>1, <2>2 DEF Trail
    <2>4. C[k] \in Seq(Inst)
      BY <1>6, <2>3, SeqMonotonic
    <2>5. QED
      BY <2>1, <2>2, <2>4
  <1>8. C \in Seq(Seq(Inst))
    <2>1. DOMAIN q = 1..Len(q) /\ Len(q) \in Nat
      BY <1>3
    <2>2. DOMAIN C = 1..Len(q) /\ \A k \in 1..Len(q) : C[k] \in Seq(Inst)
      BY <1>4, <1>7, <2>1
    <2>3. C = [k \in 1..Len(q) |-> C[k]]
      BY <1>4, <2>1, <2>2
    <2> HIDE DEF C
    <2>4. QED
      BY <2>1, <2>2, <2>3, IsASeq
  <1>9. ASSUME NEW j \in DOMAIN C, NEW k \in DOMAIN C, NEW m \in DOMAIN C[j], NEW n \in DOMAIN C[k],
               C[j][m] = C[k][n]
        PROVE  j = k /\ m = n
    <2>1. j \in DOMAIN q /\ k \in DOMAIN q /\ q[j] \in S /\ q[k] \in S
      BY <1>5, <1>7
    <2>2. Trail(d, C[j], q[j]) /\ Trail(d, C[k], q[k]) /\ m \in 1..Len(C[j]) /\ n \in 1..Len(C[k])
      BY <1>7
    <2>3. q[j] = q[k] /\ m = n
      BY <1>9, <2>1, <2>2, TrailsMeet
    <2>4. j = k
      <3> SUFFICES ASSUME j # k PROVE FALSE
        OBVIOUS
      <3>1. PICK a \in 1..N, b \in 1..N : a # b /\ q[j] = d.insts[a] /\ q[k] = d.insts[b]
        BY <1>3, <2>1 DEF Keeps
      <3>2. QED
        BY <1>1, <1>2, <2>3, <3>1
    <2>5. QED
      BY <2>3, <2>4
  <1>10. ASSUME NEW s \in S
         PROVE  \E k \in DOMAIN C : C[k] = ChainFrom(d, s)
    <2>1. s \in ElemsOf(d.insts)
      BY NodesFit, HeadsFit
    <2>2. PICK a \in 1..N : d.insts[a] = s
      BY <1>2, <2>1 DEF ElemsOf
    <2>3. PICK k \in DOMAIN q : q[k] = s
      BY <1>3, <2>2 DEF Keeps
    <2>4. QED
      BY <1>4, <2>3
  <1>11. \A k \in DOMAIN C : \E s \in S : Trail(d, C[k], s) /\ C[k] = ChainFrom(d, s)
    BY <1>5, <1>7
  <1>12. QED
    BY <1>8, <1>9, <1>10, <1>11 DEF C

(* The nets of a pair. *)
PairNet(d) == {k \in DOMAIN d.nets : Joins(d.nets[k], "F5", "F5IN")}

Ends(d, k) == <<Owner(d.nets[k], "F5"), Owner(d.nets[k], "F5IN")>>

(* The pairs are the ends of these nets, in no two of which an instance is. *)
LEMMA PairsAre ==
  ASSUME NEW d, TidyNets(d)
  PROVE  /\ Pairs(d) \in Seq(Seq(Inst))
         /\ \A k \in DOMAIN Pairs(d) : \E a \in PairNet(d) : Pairs(d)[k] = Ends(d, a)
         /\ \A a \in PairNet(d) : \E k \in DOMAIN Pairs(d) : Pairs(d)[k] = Ends(d, a)
         /\ \A j, k \in DOMAIN Pairs(d) : \A m, n \in {1, 2} :
              Pairs(d)[j][m] = Pairs(d)[k][n] => j = k /\ m = n
  <1> DEFINE S == {n \in ElemsOf(d.nets) : Joins(n, "F5", "F5IN")}
             q == PairNets(d)
             M == Pairs(d)
             R == [pins : Seq([inst : ElemsOf(d.insts), name : STRING, source : BOOLEAN]),
                   type : STRING, port : BOOLEAN]
             pair(k) == {Owner(d.nets[k], "F5"), Owner(d.nets[k], "F5IN")}
             Good(k) == /\ Owner(d.nets[k], "F5") # Owner(d.nets[k], "F5IN")
                        /\ \A j \in PairNet(d) : pair(j) \cap pair(k) # {} => j = k
  <1>1. d.nets \in Seq(R) /\ d.insts \in Seq(Inst)
    BY DEF TidyNets
  <1>2. \A k \in PairNet(d) : Good(k)
    BY DEF TidyNets, PairNet
  <1> HIDE DEF R, S, Good
  <1>3. PICK N \in Nat : N = Len(d.nets) /\ DOMAIN d.nets = 1..N
    BY <1>1
  <1>4. q = Only(d.nets, S)
    BY DEF PairNets, S
  <1>5. q \in Seq(R) /\ Keeps(q, d.nets, N, S)
    <2> HIDE DEF q
    <2> QED
      BY <1>1, <1>3, <1>4, OnlyKeeps
  <1>6. M = [k \in DOMAIN q |-> <<Owner(q[k], "F5"), Owner(q[k], "F5IN")>>]
    BY DEF Pairs
  <1> HIDE DEF q, M
  <1>7. \A a \in 1..N : d.nets[a] \in S <=> a \in PairNet(d)
    BY <1>3 DEF S, ElemsOf, PairNet
  <1>8. ASSUME NEW k \in DOMAIN M
        PROVE  k \in DOMAIN q /\ \E a \in PairNet(d) : q[k] = d.nets[a] /\ M[k] = Ends(d, a)
    <2>1. k \in DOMAIN q /\ M[k] = <<Owner(q[k], "F5"), Owner(q[k], "F5IN")>>
      BY <1>6
    <2>2. PICK a \in 1..N : q[k] = d.nets[a] /\ d.nets[a] \in S
      BY <1>5, <2>1 DEF Keeps
    <2>3. QED
      BY <1>7, <2>1, <2>2 DEF Ends
  <1>9. ASSUME NEW a \in PairNet(d)
        PROVE  Ends(d, a)[1] \in Inst /\ Ends(d, a)[2] \in Inst
    <2>1. a \in DOMAIN d.nets /\ Named(d.nets[a], "F5") # {} /\ Named(d.nets[a], "F5IN") # {}
      BY DEF PairNet, Joins
    <2>2. Owner(d.nets[a], "F5") \in ElemsOf(d.insts)
      BY <2>1, OwnerFits
    <2>3. Owner(d.nets[a], "F5IN") \in ElemsOf(d.insts)
      BY <2>1, OwnerFits
    <2>4. ElemsOf(d.insts) \subseteq Inst
      BY <1>1 DEF ElemsOf
    <2>5. QED
      BY <2>2, <2>3, <2>4 DEF Ends
  <1>10. ASSUME NEW a \in PairNet(d)
         PROVE  \E k \in DOMAIN M : M[k] = Ends(d, a)
    <2>1. a \in 1..N /\ d.nets[a] \in S
      BY <1>3, <1>7 DEF PairNet
    <2>2. PICK k \in DOMAIN q : q[k] = d.nets[a]
      BY <1>5, <2>1 DEF Keeps
    <2>3. QED
      BY <1>6, <2>2 DEF Ends
  <1>11. M \in Seq(Seq(Inst))
    <2>1. DOMAIN q = 1..Len(q) /\ Len(q) \in Nat
      BY <1>5
    <2>2. ASSUME NEW k \in 1..Len(q)
          PROVE  M[k] \in Seq(Inst)
      <3>1. PICK a \in PairNet(d) : M[k] = Ends(d, a)
        BY <1>6, <1>8, <2>1
      <3>2. PICK u \in Inst, v \in Inst : Ends(d, a) = <<u, v>>
        BY <1>9 DEF Ends
      <3>3. QED
        BY <3>1, <3>2
    <2>3. M = [k \in 1..Len(q) |-> M[k]]
      BY <1>6, <2>1
    <2>4. QED
      BY <2>1, <2>2, <2>3, IsASeq
  <1>12. ASSUME NEW j \in DOMAIN M, NEW k \in DOMAIN M, NEW m \in {1, 2}, NEW n \in {1, 2}, M[j][m] = M[k][n]
         PROVE  j = k /\ m = n
    <2>1. j \in DOMAIN q /\ k \in DOMAIN q
      BY <1>8
    <2>2. j = k
      <3> SUFFICES ASSUME j # k PROVE FALSE
        OBVIOUS
      <3>1. PICK a \in 1..N, b \in 1..N : a # b /\ q[j] = d.nets[a] /\ q[k] = d.nets[b]
        BY <1>5, <2>1 DEF Keeps
      <3>2. a \in PairNet(d) /\ b \in PairNet(d)
        <4>1. q[j] \in S /\ q[k] \in S
          BY <1>5, <2>1 DEF Keeps
        <4>2. QED
          BY <1>7, <3>1, <4>1
      <3>3. M[j] = Ends(d, a) /\ M[k] = Ends(d, b)
        BY <1>6, <2>1, <3>1 DEF Ends
      <3>4. M[j][m] \in pair(a) /\ M[k][n] \in pair(b)
        BY <3>3 DEF Ends
      <3>5. pair(a) \cap pair(b) # {}
        BY <1>12, <3>4
      <3>6. QED
        BY <1>2, <3>1, <3>2, <3>5 DEF Good
    <2>3. PICK a \in PairNet(d) : M[k] = Ends(d, a)
      BY <1>8
    <2>4. M[k][1] # M[k][2]
      BY <1>2, <2>3 DEF Good, Ends
    <2>5. QED
      BY <1>12, <2>2, <2>4
  <1>13. \A k \in DOMAIN M : \E a \in PairNet(d) : M[k] = Ends(d, a)
    BY <1>8
  <1>14. QED
    BY <1>10, <1>11, <1>12, <1>13 DEF M

(* The members of the chains and pairs of a design.                        *)
Grouped(d) ==
    {i \in Inst : \/ \E k \in DOMAIN Chains(d) : i \in ElemsOf(Chains(d)[k])
                  \/ \E k \in DOMAIN Pairs(d) : i \in ElemsOf(Pairs(d)[k])}

(* The members of a sequence of sequences, and those of two together.      *)
LEMMA MembersOfBoth ==
  ASSUME NEW X, NEW a \in Seq(Seq(X)), NEW b \in Seq(Seq(X)), NEW i
  PROVE  i \in UNION {ElemsOf(m) : m \in ElemsOf(a \o b)} <=>
           \/ \E k \in DOMAIN a : i \in ElemsOf(a[k])
           \/ \E k \in DOMAIN b : i \in ElemsOf(b[k])
  <1> DEFINE V == Seq(X)
             c == a \o b
  <1>1. /\ Len(a) \in Nat /\ DOMAIN a = 1..Len(a) /\ Len(b) \in Nat /\ DOMAIN b = 1..Len(b)
        /\ DOMAIN c = 1..(Len(a) + Len(b))
        /\ \A k \in DOMAIN a : c[k] = a[k]
        /\ \A k \in DOMAIN b : c[Len(a) + k] = b[k]
    <2> HIDE DEF V
    <2>1. a \in Seq(V) /\ b \in Seq(V)
      BY DEF V
    <2>2. /\ Len(a) \in Nat /\ DOMAIN a = 1..Len(a)
          /\ Len(b) \in Nat /\ DOMAIN b = 1..Len(b)
      BY <2>1
    <2>3. DOMAIN c = 1..(Len(a) + Len(b))
      BY <2>1
    <2>4. \A k \in DOMAIN a : c[k] = a[k]
      BY <2>1
    <2>5. \A k \in DOMAIN b : c[Len(a) + k] = b[k]
      BY <2>1
    <2>6. QED
      BY <2>2, <2>3, <2>4, <2>5
  <1> HIDE DEF c
  <1>2. \A k \in DOMAIN c : k \in DOMAIN a \/ (k - Len(a) \in DOMAIN b /\ Len(a) + (k - Len(a)) = k)
    BY <1>1
  <1>3. (\A k \in DOMAIN a : k \in DOMAIN c) /\ (\A k \in DOMAIN b : Len(a) + k \in DOMAIN c)
    BY <1>1
  <1>4. i \in UNION {ElemsOf(m) : m \in ElemsOf(c)} <=> \E k \in DOMAIN c : i \in ElemsOf(c[k])
    <2>1. \A m : m \in ElemsOf(c) <=> \E k \in DOMAIN c : m = c[k]
      BY DEF ElemsOf
    <2>2. i \in UNION {ElemsOf(m) : m \in ElemsOf(c)} <=> \E m \in ElemsOf(c) : i \in ElemsOf(m)
      OBVIOUS
    <2>3. QED
      BY <2>1, <2>2
  <1>5. (\E k \in DOMAIN c : i \in ElemsOf(c[k])) <=>
          \/ \E k \in DOMAIN a : i \in ElemsOf(a[k])
          \/ \E k \in DOMAIN b : i \in ElemsOf(b[k])
    <2>1. ASSUME NEW k \in DOMAIN c, i \in ElemsOf(c[k])
          PROVE  \/ \E n \in DOMAIN a : i \in ElemsOf(a[n])
                 \/ \E n \in DOMAIN b : i \in ElemsOf(b[n])
      <3>1. CASE k \in DOMAIN a
        BY <1>1, <2>1, <3>1
      <3>2. CASE k - Len(a) \in DOMAIN b /\ Len(a) + (k - Len(a)) = k
        <4>1. c[k] = b[k - Len(a)]
          BY <1>1, <3>2
        <4>2. QED
          BY <2>1, <3>2, <4>1
      <3>3. QED
        BY <1>2, <3>1, <3>2
    <2>2. ASSUME NEW k \in DOMAIN a, i \in ElemsOf(a[k])
          PROVE  \E n \in DOMAIN c : i \in ElemsOf(c[n])
      BY <1>1, <1>3, <2>2
    <2>3. ASSUME NEW k \in DOMAIN b, i \in ElemsOf(b[k])
          PROVE  \E n \in DOMAIN c : i \in ElemsOf(c[n])
      BY <1>1, <1>3, <2>3
    <2>4. QED
      BY <2>1, <2>2, <2>3
  <1>6. QED
    BY <1>4, <1>5 DEF c

(* The single slices are the free ones that no chain and no pair has.      *)
LEMMA SinglesAre ==
  ASSUME NEW d, TidyNets(d)
  PROVE  /\ Singles(d) \in Seq(Inst)
         /\ \A j, k \in DOMAIN Singles(d) : Singles(d)[j] = Singles(d)[k] => j = k
         /\ \A i : (\E k \in DOMAIN Singles(d) : Singles(d)[k] = i) <=>
                      i \in ElemsOf(d.insts) \ (DOMAIN d.cst \cup Grouped(d))
  <1> DEFINE inMacro == UNION {ElemsOf(m) : m \in ElemsOf(Chains(d) \o Pairs(d))}
             S == ElemsOf(d.insts) \ (DOMAIN d.cst \cup inMacro)
             q == Singles(d)
  <1>1. d.insts \in Seq(Inst) /\ \A j, k \in DOMAIN d.insts : d.insts[j] = d.insts[k] => j = k
    BY DEF TidyNets
  <1>2. PICK N \in Nat : N = Len(d.insts) /\ DOMAIN d.insts = 1..N
    BY <1>1
  <1>3. q = Only(d.insts, S)
    BY DEF Singles
  <1>4. \A i \in Inst : i \in inMacro <=> i \in Grouped(d)
    <2> TAKE i \in Inst
    <2>1. Chains(d) \in Seq(Seq(Inst)) /\ Pairs(d) \in Seq(Seq(Inst))
      BY ChainsAre, PairsAre
    <2> HIDE DEF inMacro
    <2>2. i \in inMacro <=> \/ \E k \in DOMAIN Chains(d) : i \in ElemsOf(Chains(d)[k])
                            \/ \E k \in DOMAIN Pairs(d) : i \in ElemsOf(Pairs(d)[k])
      BY <2>1, MembersOfBoth DEF inMacro
    <2>3. QED
      BY <2>2 DEF Grouped
  <1>5. ElemsOf(d.insts) \subseteq Inst
    BY <1>1 DEF ElemsOf
  <1> HIDE DEF q, inMacro
  <1>6. S = ElemsOf(d.insts) \ (DOMAIN d.cst \cup Grouped(d))
    BY <1>4, <1>5
  <1> HIDE DEF S
  <1>7. q \in Seq(Inst) /\ Keeps(q, d.insts, N, S)
    BY <1>1, <1>2, <1>3, OnlyKeeps
  <1>8. ASSUME NEW j \in DOMAIN q, NEW k \in DOMAIN q, q[j] = q[k]
        PROVE  j = k
    <2> SUFFICES ASSUME j # k PROVE FALSE
      OBVIOUS
    <2>1. PICK a \in 1..N, b \in 1..N : a # b /\ q[j] = d.insts[a] /\ q[k] = d.insts[b]
      BY <1>7 DEF Keeps
    <2>2. QED
      BY <1>1, <1>2, <1>8, <2>1
  <1>9. ASSUME NEW k \in DOMAIN q
        PROVE  q[k] \in S
    BY <1>7 DEF Keeps
  <1>10. ASSUME NEW i \in S
         PROVE  \E k \in DOMAIN q : q[k] = i
    <2>1. PICK a \in 1..N : d.insts[a] = i
      BY <1>2, <1>6 DEF ElemsOf
    <2>2. QED
      BY <1>7, <2>1 DEF Keeps
  <1>11. QED
    BY <1>6, <1>7, <1>8, <1>9, <1>10 DEF q

(* The groups of a kind, and how many objects come before them.            *)
GroupsOf(d, type) ==
    IF type = "CARRY_CHAIN" THEN Chains(d)
    ELSE IF type = "LUT6" THEN Pairs(d) ELSE [k \in DOMAIN Singles(d) |-> <<Singles(d)[k]>>]

Before(d, type) ==
    IF type = "CARRY_CHAIN" THEN 0
    ELSE IF type = "LUT6" THEN Len(Chains(d)) ELSE Len(Chains(d)) + Len(Pairs(d))

Kinds == {"CARRY_CHAIN", "LUT6", "SITE"}

(* The groups of a kind are sequences of instances.                        *)
LEMMA GroupsFit ==
  ASSUME NEW d, TidyNets(d), NEW type \in Kinds
  PROVE  GroupsOf(d, type) \in Seq(Seq(Inst))
  <1>1. CASE type = "CARRY_CHAIN"
    BY <1>1, ChainsAre DEF GroupsOf
  <1>2. CASE type = "LUT6"
    BY <1>2, PairsAre DEF GroupsOf
  <1>3. CASE type = "SITE"
    <2> DEFINE q == Singles(d)
               g == [k \in DOMAIN q |-> <<q[k]>>]
    <2>1. GroupsOf(d, type) = g
      BY <1>3 DEF GroupsOf
    <2>2. q \in Seq(Inst)
      BY SinglesAre
    <2> HIDE DEF q
    <2>3. DOMAIN q = 1..Len(q) /\ Len(q) \in Nat /\ \A k \in 1..Len(q) : <<q[k]>> \in Seq(Inst)
      BY <2>2
    <2>4. g \in Seq(Seq(Inst))
      BY <2>3, IsASeq
    <2>5. QED
      BY <2>1, <2>4
  <1>4. QED
    BY <1>1, <1>2, <1>3 DEF Kinds

(* s is a and then b. *)
Spliced(s, a, b) ==
    /\ Len(s) = Len(a) + Len(b)
    /\ \A k \in 1..Len(a) : s[k] = a[k]
    /\ \A k \in 1..Len(b) : s[Len(a) + k] = b[k]

(* So is the concatenation. *)
LEMMA TwoTogether ==
  ASSUME NEW X, NEW a \in Seq(X), NEW b \in Seq(X)
  PROVE  a \o b \in Seq(X) /\ Spliced(a \o b, a, b)
  <1>1. a \o b \in Seq(X)
    BY ConcatProperties
  <1>2. Len(a \o b) = Len(a) + Len(b)
    OBVIOUS
  <1>3. \A k \in 1..Len(a) : (a \o b)[k] = a[k]
    OBVIOUS
  <1>4. \A k \in 1..Len(b) : (a \o b)[Len(a) + k] = b[k]
    OBVIOUS
  <1>5. QED
    BY <1>1, <1>2, <1>3, <1>4 DEF Spliced

(* Where the elements of three sequences are in s. *)
SplicedOfThree(s, a, b, c) ==
    /\ \A k \in DOMAIN a : k \in DOMAIN s /\ s[k] = a[k]
    /\ \A k \in DOMAIN b : Len(a) + k \in DOMAIN s /\ s[Len(a) + k] = b[k]
    /\ \A k \in DOMAIN c : Len(a) + Len(b) + k \in DOMAIN s /\ s[Len(a) + Len(b) + k] = c[k]
    /\ \A o \in DOMAIN s : \/ o \in DOMAIN a
                           \/ \E k \in DOMAIN b : o = Len(a) + k
                           \/ \E k \in DOMAIN c : o = Len(a) + Len(b) + k

(* They are there in their concatenation. *)
LEMMA SplicedTwice ==
  ASSUME NEW X, NEW a \in Seq(X), NEW b \in Seq(X), NEW c \in Seq(X), NEW t \in Seq(X), NEW s \in Seq(X),
         Spliced(t, a, b), Spliced(s, t, c)
  PROVE  SplicedOfThree(s, a, b, c)
  <1>1. PICK l \in Nat, m \in Nat, n \in Nat : l = Len(a) /\ m = Len(b) /\ n = Len(c)
    OBVIOUS
  <1>2. DOMAIN a = 1..l /\ DOMAIN b = 1..m /\ DOMAIN c = 1..n
    BY <1>1
  <1>3. Len(t) = l + m /\ (\A k \in 1..l : t[k] = a[k]) /\ (\A k \in 1..m : t[l + k] = b[k])
    BY <1>1 DEF Spliced
  <1>4. Len(s) = (l + m) + n /\ (\A k \in 1..(l + m) : s[k] = t[k])
        /\ (\A k \in 1..n : s[(l + m) + k] = c[k])
    BY <1>1, <1>3 DEF Spliced
  <1>5. DOMAIN s = 1..(l + m + n)
    BY <1>4
  <1>6. ASSUME NEW k \in 1..l
        PROVE  k \in DOMAIN s /\ s[k] = a[k]
    <2>1. k \in 1..(l + m) /\ k \in 1..(l + m + n)
      OBVIOUS
    <2>2. QED
      BY <1>3, <1>4, <1>5, <2>1
  <1>7. ASSUME NEW k \in 1..m
        PROVE  l + k \in DOMAIN s /\ s[l + k] = b[k]
    <2>1. l + k \in 1..(l + m) /\ l + k \in 1..(l + m + n)
      OBVIOUS
    <2>2. QED
      BY <1>3, <1>4, <1>5, <2>1
  <1>8. ASSUME NEW k \in 1..n
        PROVE  l + m + k \in DOMAIN s /\ s[l + m + k] = c[k]
    <2>1. l + m + k \in 1..(l + m + n) /\ l + m + k = (l + m) + k
      OBVIOUS
    <2>2. QED
      BY <1>4, <1>5, <2>1
  <1>9. ASSUME NEW o \in 1..(l + m + n)
        PROVE  \/ o \in 1..l
               \/ \E k \in 1..m : o = l + k
               \/ \E k \in 1..n : o = l + m + k
    <2>1. o \in 1..l \/ (o - l \in 1..m /\ o = l + (o - l)) \/ (o - l - m \in 1..n /\ o = l + m + (o - l - m))
      OBVIOUS
    <2>2. QED
      BY <2>1
  <1>10. QED
    <2>1. l = Len(a) /\ m = Len(b) /\ 1..l = DOMAIN a /\ 1..m = DOMAIN b /\ 1..n = DOMAIN c
      BY <1>1, <1>2
    <2>2. \A o \in DOMAIN s : \/ o \in 1..l
                              \/ \E k \in 1..m : o = l + k
                              \/ \E k \in 1..n : o = l + m + k
      BY <1>5, <1>9
    <2>3. QED
      BY <1>6, <1>7, <1>8, <2>1, <2>2 DEF SplicedOfThree

(* The concatenation of three sequences. *)
LEMMA ThreeTogether ==
  ASSUME NEW X, NEW a \in Seq(X), NEW b \in Seq(X), NEW c \in Seq(X)
  PROVE  a \o b \o c \in Seq(X) /\ SplicedOfThree(a \o b \o c, a, b, c)
  <1>1. PICK t : t = a \o b
    OBVIOUS
  <1>2. t \in Seq(X) /\ Spliced(t, a, b)
    BY <1>1, TwoTogether
  <1>3. t \o c \in Seq(X) /\ Spliced(t \o c, t, c)
    BY <1>2, TwoTogether
  <1>4. SplicedOfThree(t \o c, a, b, c)
    BY <1>2, <1>3, SplicedTwice
  <1>5. QED
    BY <1>1, <1>3, <1>4

(* The objects made of a sequence of groups. *)
LEMMA ObjectsOfFit ==
  ASSUME NEW type \in Kinds, NEW g \in Seq(Seq(Inst))
  PROVE  /\ ObjectsOf(type, g) \in Seq([type : Kinds, insts : Seq(Inst)])
         /\ DOMAIN ObjectsOf(type, g) = DOMAIN g /\ Len(ObjectsOf(type, g)) = Len(g)
         /\ \A k \in DOMAIN g : ObjectsOf(type, g)[k] = [type |-> type, insts |-> g[k]]
  <1> DEFINE V == Seq(Inst)
             R == [type : Kinds, insts : V]
             s == ObjectsOf(type, g)
  <1>1. g \in Seq(V) /\ \A i \in V : [type |-> type, insts |-> i] \in R
    OBVIOUS
  <1>2. s = [k \in DOMAIN g |-> [type |-> type, insts |-> g[k]]]
    BY DEF ObjectsOf
  <1> HIDE DEF V, R, s
  <1>3. Len(g) \in Nat /\ DOMAIN g = 1..Len(g) /\ \A k \in 1..Len(g) : g[k] \in V
    BY <1>1
  <1>4. DOMAIN s = 1..Len(g) /\ \A k \in 1..Len(g) : s[k] = [type |-> type, insts |-> g[k]]
    BY <1>2, <1>3
  <1>5. s \in Seq(R)
    <2>1. s = [k \in 1..Len(g) |-> s[k]] /\ \A k \in 1..Len(g) : s[k] \in R
      BY <1>1, <1>2, <1>3, <1>4
    <2>2. QED
      BY <1>3, <2>1, IsASeq
  <1>6. Len(s) = Len(g)
    BY <1>3, <1>4, <1>5
  <1>7. QED
    BY <1>3, <1>4, <1>5, <1>6 DEF s, R, V

(* The objects are the groups, kind by kind.                               *)
LEMMA ObjectsAre ==
  ASSUME NEW d, TidyNets(d)
  PROVE  /\ Objects(d) \in Seq([type : Kinds, insts : Seq(Inst)])
         /\ \A type \in Kinds : \A k \in DOMAIN GroupsOf(d, type) :
              /\ Before(d, type) + k \in DOMAIN Objects(d)
              /\ Objects(d)[Before(d, type) + k] = [type |-> type, insts |-> GroupsOf(d, type)[k]]
         /\ \A o \in DOMAIN Objects(d) : \E type \in Kinds : \E k \in DOMAIN GroupsOf(d, type) :
              /\ o = Before(d, type) + k
              /\ Objects(d)[o] = [type |-> type, insts |-> GroupsOf(d, type)[k]]
  <1> DEFINE a == ObjectsOf("CARRY_CHAIN", Chains(d))
             b == ObjectsOf("LUT6", Pairs(d))
             c == ObjectsOf("SITE", [k \in DOMAIN Singles(d) |-> <<Singles(d)[k]>>])
             R == [type : Kinds, insts : Seq(Inst)]
             G(type) == GroupsOf(d, type)
             s == Objects(d)
  <1>1. s = a \o b \o c
    BY DEF Objects
  <1>2. /\ G("CARRY_CHAIN") = Chains(d) /\ G("LUT6") = Pairs(d)
        /\ G("SITE") = [k \in DOMAIN Singles(d) |-> <<Singles(d)[k]>>]
        /\ Before(d, "CARRY_CHAIN") = 0 /\ Before(d, "LUT6") = Len(Chains(d))
        /\ Before(d, "SITE") = Len(Chains(d)) + Len(Pairs(d))
    BY DEF GroupsOf, Before
  <1>3. \A type \in Kinds : G(type) \in Seq(Seq(Inst))
    BY GroupsFit
  <1>4. "CARRY_CHAIN" \in Kinds /\ "LUT6" \in Kinds /\ "SITE" \in Kinds
        /\ \A type \in Kinds : type = "CARRY_CHAIN" \/ type = "LUT6" \/ type = "SITE"
    BY DEF Kinds
  <1>5. a = ObjectsOf("CARRY_CHAIN", G("CARRY_CHAIN")) /\ b = ObjectsOf("LUT6", G("LUT6"))
        /\ c = ObjectsOf("SITE", G("SITE"))
    BY <1>2
  <1> HIDE DEF a, b, c, G, s, R
  <1>6. /\ a \in Seq(R) /\ DOMAIN a = DOMAIN G("CARRY_CHAIN") /\ Len(a) = Len(Chains(d))
        /\ \A k \in DOMAIN G("CARRY_CHAIN") : a[k] = [type |-> "CARRY_CHAIN", insts |-> G("CARRY_CHAIN")[k]]
    BY <1>2, <1>3, <1>4, <1>5, ObjectsOfFit DEF R
  <1>7. /\ b \in Seq(R) /\ DOMAIN b = DOMAIN G("LUT6") /\ Len(b) = Len(Pairs(d))
        /\ \A k \in DOMAIN G("LUT6") : b[k] = [type |-> "LUT6", insts |-> G("LUT6")[k]]
    BY <1>2, <1>3, <1>4, <1>5, ObjectsOfFit DEF R
  <1>8. /\ c \in Seq(R) /\ DOMAIN c = DOMAIN G("SITE")
        /\ \A k \in DOMAIN G("SITE") : c[k] = [type |-> "SITE", insts |-> G("SITE")[k]]
    BY <1>3, <1>4, <1>5, ObjectsOfFit DEF R
  <1>9. /\ s \in Seq(R)
        /\ \A k \in DOMAIN a : k \in DOMAIN s /\ s[k] = a[k]
        /\ \A k \in DOMAIN b : Len(a) + k \in DOMAIN s /\ s[Len(a) + k] = b[k]
        /\ \A k \in DOMAIN c : Len(a) + Len(b) + k \in DOMAIN s /\ s[Len(a) + Len(b) + k] = c[k]
        /\ \A o \in DOMAIN s : \/ o \in DOMAIN a
                               \/ \E k \in DOMAIN b : o = Len(a) + k
                               \/ \E k \in DOMAIN c : o = Len(a) + Len(b) + k
    <2>1. a \in Seq(R) /\ b \in Seq(R) /\ c \in Seq(R)
      BY <1>6, <1>7, <1>8
    <2>2. s \in Seq(R)
      BY <1>1, <2>1, ThreeTogether
    <2>3. SplicedOfThree(s, a, b, c)
      BY <1>1, <2>1, ThreeTogether
    <2>4. QED
      BY <2>2, <2>3 DEF SplicedOfThree
  <1>10. \A k \in DOMAIN a : 0 + k = k
    <2>1. DOMAIN a \subseteq Nat
      BY <1>6
    <2>2. QED
      BY <2>1
  <1>11. \A type \in Kinds : \A k \in DOMAIN G(type) :
              /\ Before(d, type) + k \in DOMAIN s
              /\ s[Before(d, type) + k] = [type |-> type, insts |-> G(type)[k]]
    <2> TAKE type \in Kinds
    <2> TAKE k \in DOMAIN G(type)
    <2>1. CASE type = "CARRY_CHAIN"
      <3>1. Before(d, type) + k = k /\ k \in DOMAIN a
        BY <1>2, <1>6, <1>10, <2>1
      <3>2. QED
        BY <1>6, <1>9, <2>1, <3>1
    <2>2. CASE type = "LUT6"
      <3>1. Before(d, type) + k = Len(a) + k /\ k \in DOMAIN b
        BY <1>2, <1>6, <1>7, <2>2
      <3>2. QED
        BY <1>7, <1>9, <2>2, <3>1
    <2>3. CASE type = "SITE"
      <3>1. Before(d, type) + k = Len(a) + Len(b) + k /\ k \in DOMAIN c
        BY <1>2, <1>6, <1>7, <1>8, <2>3
      <3>2. QED
        BY <1>8, <1>9, <2>3, <3>1
    <2>4. QED
      BY <1>4, <2>1, <2>2, <2>3
  <1>12. ASSUME NEW o \in DOMAIN s
         PROVE  \E type \in Kinds : \E k \in DOMAIN G(type) : o = Before(d, type) + k
    <2>1. CASE o \in DOMAIN a
      <3>1. o = Before(d, "CARRY_CHAIN") + o /\ o \in DOMAIN G("CARRY_CHAIN")
        BY <1>2, <1>6, <1>10, <2>1
      <3>2. QED
        BY <1>4, <3>1
    <2>2. CASE \E k \in DOMAIN b : o = Len(a) + k
      BY <1>2, <1>4, <1>6, <1>7, <2>2
    <2>3. CASE \E k \in DOMAIN c : o = Len(a) + Len(b) + k
      BY <1>2, <1>4, <1>6, <1>7, <1>8, <2>3
    <2>4. QED
      BY <1>9, <2>1, <2>2, <2>3
  <1>13. \A o \in DOMAIN s : \E type \in Kinds : \E k \in DOMAIN G(type) :
              o = Before(d, type) + k /\ s[o] = [type |-> type, insts |-> G(type)[k]]
    BY <1>11, <1>12
  <1>14. QED
    BY <1>9, <1>11, <1>13 DEF s, G, R

(* The swap objects of a design: an instance is in one of them at most,    *)
(* once, and not if it is constrained; a pair fills a tile.                *)
ProperObjects(n) ==
    /\ n.objects \in Seq([type : {"CARRY_CHAIN", "LUT6", "SITE"}, insts : Seq(Inst)])
    /\ \A o \in DOMAIN n.objects :
         LET is == n.objects[o].insts
         IN  /\ is # <<>>
             /\ \A j, k \in DOMAIN is : is[j] = is[k] => j = k
             /\ \A k \in DOMAIN is : is[k] \notin DOMAIN n.cst
             /\ \A u \in DOMAIN n.objects : ElemsOf(is) \cap ElemsOf(n.objects[u].insts) # {} => u = o
             /\ n.objects[o].type = "LUT6" => Len(is) = 2 /\ n.device.slices = 2
             /\ n.objects[o].type = "SITE" => Len(is) = 1

(* A group: it has members, each once and none constrained, as many as its *)
(* kind wants.                                                             *)
ProperGroup(d, type, g) ==
    /\ g # <<>>
    /\ \A j, k \in DOMAIN g : g[j] = g[k] => j = k
    /\ ElemsOf(g) \subseteq ElemsOf(d.insts) \ DOMAIN d.cst
    /\ type = "LUT6" => Len(g) = 2 /\ d.device.slices = 2
    /\ type = "SITE" => Len(g) = 1

(* What a group may hold, by its kind. *)
Holding(d, type) ==
    IF type = "CARRY_CHAIN" THEN Grouped(d) \cap Nodes(d)
    ELSE IF type = "LUT6" THEN Grouped(d) \ Nodes(d) ELSE Inst \ Grouped(d)

(* The ends of a pair net.                                                 *)
LEMMA EndsFit ==
  ASSUME NEW d, TidyNets(d), NEW a \in PairNet(d)
  PROVE  /\ Ends(d, a)[1] \in ElemsOf(d.insts) /\ Ends(d, a)[2] \in ElemsOf(d.insts)
         /\ Ends(d, a)[1] # Ends(d, a)[2]
         /\ \A m \in {1, 2} : Ends(d, a)[m] \notin Nodes(d) /\ Ends(d, a)[m] \notin DOMAIN d.cst
         /\ d.device.slices = 2
  <1>1. a \in DOMAIN d.nets /\ Named(d.nets[a], "F5") # {} /\ Named(d.nets[a], "F5IN") # {}
    BY DEF PairNet, Joins
  <1>2. PICK u, v : u = Owner(d.nets[a], "F5") /\ v = Owner(d.nets[a], "F5IN")
    OBVIOUS
  <1>3. u \in ElemsOf(d.insts)
    BY <1>1, <1>2, OwnerFits
  <1>4. v \in ElemsOf(d.insts)
    BY <1>1, <1>2, OwnerFits
  <1>5. u # v /\ {u, v} \cap (Nodes(d) \cup DOMAIN d.cst) = {} /\ d.device.slices = 2
    BY <1>2 DEF TidyNets, PairNet
  <1>6. Ends(d, a) = <<u, v>>
    BY <1>2 DEF Ends
  <1>7. QED
    BY <1>3, <1>4, <1>5, <1>6

(* Every group is one. *)
LEMMA GroupsProper ==
  ASSUME NEW d, TidyNets(d), NEW type \in Kinds, NEW k \in DOMAIN GroupsOf(d, type)
  PROVE  /\ ProperGroup(d, type, GroupsOf(d, type)[k])
         /\ ElemsOf(GroupsOf(d, type)[k]) \subseteq Holding(d, type)
  <1>1. ElemsOf(d.insts) \subseteq Inst
    BY DEF TidyNets, ElemsOf
  <1>2. CASE type = "CARRY_CHAIN"
    <2>1. GroupsOf(d, type) = Chains(d) /\ Holding(d, type) = Grouped(d) \cap Nodes(d)
      BY <1>2 DEF GroupsOf, Holding
    <2>2. PICK g : g = Chains(d)[k]
      OBVIOUS
    <2>3. PICK s \in Starts(d) : Trail(d, g, s)
      BY <2>1, <2>2, ChainsAre
    <2>4. g \in Seq(Nodes(d)) /\ Len(g) > 0
      BY <2>3 DEF Trail
    <2>5. g # <<>> /\ ElemsOf(g) \subseteq Nodes(d)
      BY <2>4 DEF ElemsOf
    <2>6. \A m, n \in DOMAIN g : g[m] = g[n] => m = n
      BY <2>1, <2>2, ChainsAre
    <2>7. ElemsOf(g) \subseteq ElemsOf(d.insts) \ DOMAIN d.cst
      BY <2>5, NodesFit
    <2>8. ProperGroup(d, type, g)
      BY <1>2, <2>5, <2>6, <2>7 DEF ProperGroup
    <2>9. ElemsOf(g) \subseteq Grouped(d)
      <3>1. ElemsOf(g) \subseteq Inst
        BY <1>1, <2>7
      <3>2. k \in DOMAIN Chains(d)
        BY <2>1
      <3>3. QED
        BY <2>2, <3>1, <3>2 DEF Grouped
    <2>10. QED
      BY <2>1, <2>2, <2>5, <2>8, <2>9
  <1>3. CASE type = "LUT6"
    <2>1. GroupsOf(d, type) = Pairs(d) /\ Holding(d, type) = Grouped(d) \ Nodes(d)
      BY <1>3 DEF GroupsOf, Holding
    <2>2. PICK g : g = Pairs(d)[k]
      OBVIOUS
    <2>3. PICK a \in PairNet(d) : g = Ends(d, a)
      BY <2>1, <2>2, PairsAre
    <2>4. PICK u \in ElemsOf(d.insts), v \in ElemsOf(d.insts) : g = <<u, v>>
      <3>1. Ends(d, a) = <<Ends(d, a)[1], Ends(d, a)[2]>>
        BY DEF Ends
      <3>2. QED
        BY <2>3, <3>1, EndsFit
    <2>5. u # v /\ {u, v} \cap (Nodes(d) \cup DOMAIN d.cst) = {} /\ d.device.slices = 2
      <3>1. Ends(d, a)[1] = u /\ Ends(d, a)[2] = v
        BY <2>3, <2>4
      <3>2. QED
        BY <3>1, EndsFit
    <2>6. ElemsOf(g) = {u, v} /\ g # <<>> /\ Len(g) = 2 /\ \A m, n \in DOMAIN g : g[m] = g[n] => m = n
      BY <2>4, <2>5 DEF ElemsOf
    <2>7. ElemsOf(g) \subseteq Grouped(d)
      <3>1. ElemsOf(g) \subseteq Inst
        BY <1>1, <2>6
      <3>2. k \in DOMAIN Pairs(d)
        BY <2>1
      <3>3. QED
        BY <2>2, <3>1, <3>2 DEF Grouped
    <2>8. ProperGroup(d, type, g)
      BY <1>3, <2>5, <2>6 DEF ProperGroup
    <2>9. ElemsOf(g) \subseteq Holding(d, type)
      BY <2>1, <2>5, <2>6, <2>7
    <2>10. QED
      BY <2>1, <2>2, <2>8, <2>9
  <1>4. CASE type = "SITE"
    <2>1. /\ GroupsOf(d, type) = [n \in DOMAIN Singles(d) |-> <<Singles(d)[n]>>]
          /\ Holding(d, type) = Inst \ Grouped(d)
      BY <1>4 DEF GroupsOf, Holding
    <2>2. PICK i : i = Singles(d)[k]
      OBVIOUS
    <2>3. k \in DOMAIN Singles(d) /\ GroupsOf(d, type)[k] = <<i>>
      BY <2>1, <2>2
    <2>4. i \in ElemsOf(d.insts) \ (DOMAIN d.cst \cup Grouped(d))
      BY <2>2, <2>3, SinglesAre
    <2>5. PICK g : g = <<i>>
      OBVIOUS
    <2>6. ElemsOf(g) = {i} /\ g # <<>> /\ Len(g) = 1 /\ \A m, n \in DOMAIN g : g[m] = g[n] => m = n
      BY <2>5 DEF ElemsOf
    <2>7. ProperGroup(d, type, g)
      BY <1>4, <2>4, <2>6 DEF ProperGroup
    <2>8. ElemsOf(g) \subseteq Holding(d, type)
      BY <1>1, <2>1, <2>4, <2>6
    <2>9. QED
      BY <2>3, <2>5, <2>7, <2>8
  <1>5. QED
    BY <1>2, <1>3, <1>4 DEF Kinds

(* Two groups that share a member are the same.                            *)
LEMMA GroupsApart ==
  ASSUME NEW d, TidyNets(d), NEW type \in Kinds, NEW other \in Kinds,
         NEW k \in DOMAIN GroupsOf(d, type), NEW j \in DOMAIN GroupsOf(d, other),
         NEW i, i \in ElemsOf(GroupsOf(d, type)[k]), i \in ElemsOf(GroupsOf(d, other)[j])
  PROVE  type = other /\ k = j
  <1>1. i \in Holding(d, type) /\ i \in Holding(d, other)
    BY GroupsProper
  <1>2. type = other
    BY <1>1 DEF Holding, Kinds
  <1>3. PICK g : g = GroupsOf(d, type)
    OBVIOUS
  <1>4. PICK m \in DOMAIN g[k], n \in DOMAIN g[j] : g[k][m] = i /\ g[j][n] = i
    BY <1>2, <1>3 DEF ElemsOf
  <1>5. k \in DOMAIN g /\ j \in DOMAIN g
    BY <1>2, <1>3
  <1>6. CASE type = "CARRY_CHAIN"
    <2>1. g = Chains(d)
      BY <1>3, <1>6 DEF GroupsOf
    <2>2. k = j
      BY <1>4, <1>5, <2>1, ChainsAre
    <2>3. QED
      BY <1>2, <2>2
  <1>7. CASE type = "LUT6"
    <2>1. g = Pairs(d)
      BY <1>3, <1>7 DEF GroupsOf
    <2>2. PICK a \in PairNet(d), b \in PairNet(d) : g[k] = Ends(d, a) /\ g[j] = Ends(d, b)
      BY <1>5, <2>1, PairsAre
    <2>3. m \in {1, 2} /\ n \in {1, 2}
      BY <1>4, <2>2 DEF Ends
    <2>4. \A u, v \in DOMAIN Pairs(d) : \A y, z \in {1, 2} : Pairs(d)[u][y] = Pairs(d)[v][z] => u = v /\ y = z
      BY PairsAre
    <2>5. k \in DOMAIN Pairs(d) /\ j \in DOMAIN Pairs(d) /\ Pairs(d)[k][m] = Pairs(d)[j][n]
      BY <1>4, <1>5, <2>1
    <2>6. k = j
      BY <2>3, <2>4, <2>5
    <2>7. QED
      BY <1>2, <2>6
  <1>8. CASE type = "SITE"
    <2>1. g = [l \in DOMAIN Singles(d) |-> <<Singles(d)[l]>>]
      BY <1>3, <1>8 DEF GroupsOf
    <2>2. k \in DOMAIN Singles(d) /\ j \in DOMAIN Singles(d) /\ g[k] = <<Singles(d)[k]>> /\ g[j] = <<Singles(d)[j]>>
      BY <1>5, <2>1
    <2>3. Singles(d)[k] = i /\ Singles(d)[j] = i
      BY <1>4, <2>2
    <2>4. \A a, b \in DOMAIN Singles(d) : Singles(d)[a] = Singles(d)[b] => a = b
      BY SinglesAre
    <2>5. k = j
      BY <2>2, <2>3, <2>4
    <2>6. QED
      BY <1>2, <2>5
  <1>9. QED
    BY <1>6, <1>7, <1>8 DEF Kinds

(* Inference makes swap objects as init_place needs them.                  *)
LEMMA ObjectsProper ==
  ASSUME NEW d, TidyNets(d)
  PROVE  ProperObjects(Prepared(d))
  <1> DEFINE n == Prepared(d)
             G(type) == GroupsOf(d, type)
  <1>1. n.objects = Objects(d) /\ n.cst = d.cst /\ n.device = d.device
    BY DEF Prepared
  <1> HIDE DEF n, G
  <1>2. Objects(d) \in Seq([type : Kinds, insts : Seq(Inst)])
    BY ObjectsAre
  <1>3. ASSUME NEW o \in DOMAIN Objects(d)
        PROVE  LET is == Objects(d)[o].insts
               IN  /\ is # <<>>
                   /\ \A j, k \in DOMAIN is : is[j] = is[k] => j = k
                   /\ \A k \in DOMAIN is : is[k] \notin DOMAIN d.cst
                   /\ \A u \in DOMAIN Objects(d) : ElemsOf(is) \cap ElemsOf(Objects(d)[u].insts) # {} => u = o
                   /\ Objects(d)[o].type = "LUT6" => Len(is) = 2 /\ d.device.slices = 2
                   /\ Objects(d)[o].type = "SITE" => Len(is) = 1
    <2>9. PICK type \in Kinds : \E k \in DOMAIN G(type) :
             o = Before(d, type) + k /\ Objects(d)[o] = [type |-> type, insts |-> G(type)[k]]
      BY ObjectsAre DEF G
    <2>1. PICK k \in DOMAIN G(type) :
             o = Before(d, type) + k /\ Objects(d)[o] = [type |-> type, insts |-> G(type)[k]]
      BY <2>9
    <2>2. PICK g : g = G(type)[k]
      OBVIOUS
    <2>3. Objects(d)[o].type = type /\ Objects(d)[o].insts = g
      BY <2>1, <2>2
    <2>4. ProperGroup(d, type, g)
      BY <2>2, GroupsProper DEF G
    <2>5. \A m \in DOMAIN g : g[m] \notin DOMAIN d.cst
      BY <2>4 DEF ProperGroup, ElemsOf
    <2>6. ASSUME NEW u \in DOMAIN Objects(d), ElemsOf(g) \cap ElemsOf(Objects(d)[u].insts) # {}
          PROVE  u = o
      <3>6. PICK other \in Kinds : \E j \in DOMAIN G(other) :
               u = Before(d, other) + j /\ Objects(d)[u] = [type |-> other, insts |-> G(other)[j]]
        BY ObjectsAre DEF G
      <3>1. PICK j \in DOMAIN G(other) :
               u = Before(d, other) + j /\ Objects(d)[u] = [type |-> other, insts |-> G(other)[j]]
        BY <3>6
      <3>2. Objects(d)[u].insts = G(other)[j]
        BY <3>1
      <3>3. PICK i : i \in ElemsOf(g) /\ i \in ElemsOf(G(other)[j])
        BY <2>6, <3>2
      <3>4. type = other /\ k = j
        BY <2>2, <3>3, GroupsApart DEF G
      <3>5. u = Before(d, type) + k
        BY <3>1, <3>4
      <3>7. QED
        BY <2>1, <3>5
    <2>7. QED
      BY <2>3, <2>4, <2>5, <2>6 DEF ProperGroup
  <1>4. n.objects \in Seq([type : {"CARRY_CHAIN", "LUT6", "SITE"}, insts : Seq(Inst)])
    BY <1>1, <1>2 DEF Kinds
  <1>5. ASSUME NEW o \in DOMAIN n.objects
        PROVE  LET is == n.objects[o].insts
               IN  /\ is # <<>>
                   /\ \A j, k \in DOMAIN is : is[j] = is[k] => j = k
                   /\ \A k \in DOMAIN is : is[k] \notin DOMAIN n.cst
                   /\ \A u \in DOMAIN n.objects : ElemsOf(is) \cap ElemsOf(n.objects[u].insts) # {} => u = o
                   /\ n.objects[o].type = "LUT6" => Len(is) = 2 /\ n.device.slices = 2
                   /\ n.objects[o].type = "SITE" => Len(is) = 1
    BY <1>1, <1>3
  <1>6. ProperObjects(n)
    BY <1>4, <1>5 DEF ProperObjects
  <1>7. QED
    BY <1>6 DEF n
-----------------------------------------------------------------------------
(* What the assumptions on the designs say of the one that is placed.      *)
LEMMA DesignFits ==
  ASSUME NEW d \in Netlists, nl = Prepared(d)
  PROVE  DeviceFits /\ (IsIllegal \/ ObjectsFit)
  <1>1. nl.device = d.device /\ d.device = nl.device
    BY DEF Prepared
  <1>2. RegularDevice(nl.device) /\ NULL \notin nl.device.tiles \X (0..(nl.device.slices - 1))
    BY <1>1, DeviceAssumption
  <1>3. NULL \notin Pos
    BY <1>2 DEF Pos, Tile, Z, NumSlices
  <1>4. /\ Rows \in Nat /\ Cols \in Nat /\ NumSlices \in Nat /\ BotRow \in 0..(Rows - 1)
        /\ Tile \subseteq (1..(Rows - 1)) \X (0..(Cols - 1))
        /\ CarryChain \in Seq(Seq(Nat)) /\ CarryChain # <<>> /\ CarrySize > 0
        /\ Len(CarryChain) * CarrySize <= NumSlices
        /\ \A x \in DOMAIN CarryChain : CarryChain[x] = [k \in 1..CarrySize |-> (x - 1) * CarrySize + k - 1]
    BY <1>2 DEF RegularDevice, Rows, Cols, NumSlices, BotRow, Tile, CarryChain, CarrySize
  <1>5. Len(CarryChain) \in Nat \ {0} /\ CarryIndex = 1..Len(CarryChain)
    BY <1>4 DEF CarryIndex
  <1>6. CarrySize \in Nat \ {0}
    <2>1. CarryChain[1] \in Seq(Nat)
      BY <1>4, <1>5
    <2>2. QED
      BY <1>4, <2>1 DEF CarrySize
  <1>7. ASSUME NEW x \in CarryIndex
        PROVE  /\ Len(CarryChain[x]) = CarrySize
               /\ \A k \in 1..CarrySize : CarryChain[x][k] = (x - 1) * CarrySize + k - 1
    <2>1. CarryChain[x] = [k \in 1..CarrySize |-> (x - 1) * CarrySize + k - 1] /\ CarryChain[x] \in Seq(Nat)
      BY <1>4 DEF CarryIndex
    <2>2. DOMAIN CarryChain[x] = 1..CarrySize
      BY <2>1
    <2>5. Len(CarryChain[x]) \in Nat /\ DOMAIN CarryChain[x] = 1..Len(CarryChain[x])
      <3>1. CarryChain[x] \in Seq(Nat)
        BY <2>1
      <3>2. QED
        BY <3>1
    <2>3. Len(CarryChain[x]) = CarrySize
      BY <1>6, <2>2, <2>5
    <2>4. QED
      BY <2>1, <2>3
  <1>8. \A c \in Column : <<0, c>> \notin Tile
    BY <1>4
  <1>9. Tile \subseteq (0..(Rows - 1)) \X (0..(Cols - 1))
    BY <1>4
  <1>10. DeviceFits
    BY <1>3, <1>4, <1>5, <1>6, <1>7, <1>8, <1>9 DEF DeviceFits
  <1>11. ProperObjects(nl)
    BY NetsAssumption, ObjectsProper
  <1>12. ASSUME ProperObjects(nl)
         PROVE  ObjectsFit
    <2>1. Len(nl.objects) \in Nat /\ DOMAIN nl.objects = 1..Len(nl.objects)
      BY <1>12 DEF ProperObjects
    <2>2. ASSUME NEW o \in DOMAIN nl.objects
          PROVE  /\ TypeOf(o) \in {"CARRY_CHAIN", "LUT6", "SITE"}
                 /\ InstsOf(o) \in Seq(Inst) /\ InstsOf(o) # <<>>
                 /\ \A k \in DOMAIN InstsOf(o) : ~IsFixed(InstsOf(o)[k])
                 /\ \A j, k \in DOMAIN InstsOf(o) : InstsOf(o)[j] = InstsOf(o)[k] => j = k
                 /\ TypeOf(o) = "LUT6" => Len(InstsOf(o)) = 2 /\ NumSlices = 2
                 /\ TypeOf(o) = "SITE" => Len(InstsOf(o)) = 1
      <3>1. nl.objects[o] \in [type : {"CARRY_CHAIN", "LUT6", "SITE"}, insts : Seq(Inst)]
        <4> DEFINE R == [type : {"CARRY_CHAIN", "LUT6", "SITE"}, insts : Seq(Inst)]
        <4>1. nl.objects \in Seq(R)
          BY <1>12 DEF ProperObjects
        <4> HIDE DEF R
        <4>2. nl.objects[o] \in R
          BY <2>1, <4>1
        <4>3. QED
          BY <4>2 DEF R
      <3>2. TypeOf(o) \in {"CARRY_CHAIN", "LUT6", "SITE"} /\ InstsOf(o) \in Seq(Inst)
        BY <3>1 DEF TypeOf, InstsOf
      <3> DEFINE is == nl.objects[o].insts
      <3>5. \A k \in DOMAIN is : is[k] \notin DOMAIN nl.cst
        BY <1>12 DEF ProperObjects
      <3>6. is # <<>> /\ \A j, k \in DOMAIN is : is[j] = is[k] => j = k
        BY <1>12 DEF ProperObjects
      <3>7. /\ nl.objects[o].type = "LUT6" => Len(is) = 2 /\ nl.device.slices = 2
            /\ nl.objects[o].type = "SITE" => Len(is) = 1
        BY <1>12 DEF ProperObjects
      <3>8. is = InstsOf(o)
        BY DEF InstsOf
      <3> HIDE DEF is
      <3>3. /\ InstsOf(o) # <<>>
            /\ \A k \in DOMAIN InstsOf(o) : ~IsFixed(InstsOf(o)[k])
            /\ \A j, k \in DOMAIN InstsOf(o) : InstsOf(o)[j] = InstsOf(o)[k] => j = k
            /\ TypeOf(o) = "LUT6" => Len(InstsOf(o)) = 2 /\ NumSlices = 2
            /\ TypeOf(o) = "SITE" => Len(InstsOf(o)) = 1
        BY <3>5, <3>6, <3>7, <3>8 DEF TypeOf, IsFixed, NumSlices
      <3>4. QED
        BY <3>2, <3>3
    <2>3. ASSUME NEW o \in DOMAIN nl.objects, NEW u \in DOMAIN nl.objects,
                 NEW i \in ElemsOf(InstsOf(o)), i \in ElemsOf(InstsOf(u))
          PROVE  u = o
      <3>1. ElemsOf(InstsOf(o)) \cap ElemsOf(InstsOf(u)) # {}
        BY <2>3
      <3>2. QED
        BY <1>12, <3>1 DEF ProperObjects, InstsOf
    <2>4. QED
      BY <2>1, <2>2, <2>3 DEF ObjectsFit
  <1>13. QED
    BY <1>10, <1>11, <1>12

(* The constrained instances are on their slots.                           *)
LEMMA InitAgrees ==
  ASSUME DeviceFits, Init
  PROVE  Bookkept(slot, occ, past) /\ pos = past
  <1>1. /\ pos = [i \in Inst |-> IF IsFixed(i) /\ ~IsIllegal THEN nl.cst[i] ELSE NULL]
        /\ slot = [p \in Pos |-> IF \E i \in Inst : pos[i] = p
                                   THEN CHOOSE i \in Inst : pos[i] = p ELSE NULL]
        /\ occ = [t \in Tile |-> Cardinality({i \in Inst : pos[i] # NULL /\ pos[i][1] = t})]
        /\ past = pos
    BY DEF Init
  <1>2. NULL \notin Pos /\ NULL \notin Inst
    BY NullAssumption DEF DeviceFits
  <1>3. /\ \A i \in Inst : pos[i] \in Pos \cup {NULL}
        /\ \A i, j \in Inst : pos[i] # NULL /\ pos[i] = pos[j] => i = j
    <2>1. CASE IsIllegal
      BY <1>1, <2>1
    <2>2. CASE ~IsIllegal
      <3>1. /\ \A i \in DOMAIN nl.cst : nl.cst[i] \in Pos
            /\ \A i, j \in DOMAIN nl.cst : i # j => nl.cst[i] # nl.cst[j]
        BY <2>2 DEF IsIllegal, IllegalConstraint, Pos, Tile, Z, NumSlices
      <3>2. QED
        BY <1>1, <2>2, <3>1 DEF IsFixed
    <2>3. QED
      BY <2>1, <2>2
  <1>4. /\ \A p \in Pos : slot[p] \in Inst \cup {NULL}
        /\ \A p \in Pos : slot[p] # NULL => pos[slot[p]] = p
    <2> SUFFICES ASSUME NEW p \in Pos
                 PROVE  slot[p] \in Inst \cup {NULL} /\ (slot[p] # NULL => pos[slot[p]] = p)
      OBVIOUS
    <2>1. CASE \E i \in Inst : pos[i] = p
      BY <1>1, <2>1
    <2>2. CASE ~\E i \in Inst : pos[i] = p
      BY <1>1, <2>2
    <2>3. QED
      BY <2>1, <2>2
  <1>5. ASSUME NEW i \in Inst, pos[i] # NULL
        PROVE  slot[pos[i]] = i
    <2>1. pos[i] \in Pos
      BY <1>3, <1>5
    <2>2. slot[pos[i]] \in Inst /\ pos[slot[pos[i]]] = pos[i]
      BY <1>1, <2>1
    <2>3. QED
      BY <1>3, <1>5, <2>2
  <1>6. slot = [p \in Pos |-> slot[p]] /\ pos = [i \in Inst |-> pos[i]]
    BY <1>1
  <1>7. Agree(slot, pos)
    <2>1. slot \in [Pos -> Inst \cup {NULL}] /\ pos \in [Inst -> Pos \cup {NULL}]
      BY <1>3, <1>4, <1>6
    <2>2. QED
      BY <1>4, <1>5, <2>1 DEF Agree
  <1>8. ASSUME NEW t \in Tile
        PROVE  occ[t] = Cardinality(Taken(slot, t)) /\ occ[t] \in Nat
    <2> DEFINE S == Taken(slot, t)
               T == {i \in Inst : pos[i] # NULL /\ pos[i][1] = t}
               f == [z \in S |-> slot[<<t, z>>]]
    <2>1. IsFiniteSet(S) /\ Cardinality(S) \in Nat
      BY TakenFinite
    <2>2. \A z \in S : <<t, z>> \in Pos /\ slot[<<t, z>>] \in Inst /\ pos[slot[<<t, z>>]] = <<t, z>>
      BY <1>4 DEF Taken, Pos
    <2>3. \A z \in S : slot[<<t, z>>] \in T
      BY <1>2, <2>2
    <2>4. ASSUME NEW i \in T
          PROVE  \E z \in S : slot[<<t, z>>] = i
      <3>1. pos[i] \in Pos /\ slot[pos[i]] = i /\ i # NULL
        BY <1>2, <1>3, <1>5
      <3>2. PICK z \in Z : pos[i] = <<t, z>>
        BY <3>1 DEF Pos
      <3>3. QED
        BY <3>1, <3>2 DEF Taken
    <2>5. \A y, z \in S : slot[<<t, y>>] = slot[<<t, z>>] => y = z
      BY <2>2
    <2> HIDE DEF S, T
    <2>6. f \in [S -> T] /\ \A z \in S : f[z] = slot[<<t, z>>]
      BY <2>3
    <2> HIDE DEF f
    <2>7. \A y, z \in S : f[y] = f[z] => y = z
      BY <2>5, <2>6
    <2>11. \A i \in T : \E z \in S : f[z] = i
      BY <2>4, <2>6
    <2>8. Cardinality(T) = Cardinality(S)
      BY <2>1, <2>6, <2>7, <2>11, CountedBy
    <2>9. occ[t] = Cardinality(T)
      BY <1>1 DEF T
    <2>10. QED
      BY <2>1, <2>8, <2>9 DEF S
  <1>9. Counted(occ, slot)
    <2>1. occ = [t \in Tile |-> occ[t]]
      BY <1>1
    <2>2. QED
      BY <1>8, <2>1 DEF Counted
  <1>10. QED
    BY <1>1, <1>7, <1>9 DEF Bookkept

(* The initial states. *)
LEMMA InitFits ==
  ASSUME Init
  PROVE  FInv
  <1>1. PICK d \in Netlists : nl = Prepared(d)
    BY DEF Init
  <1>2. DeviceFits /\ (IsIllegal \/ ObjectsFit)
    BY <1>1, DesignFits
  <1>3. Bookkept(slot, occ, past) /\ pos = past
    BY <1>2, InitAgrees
  <1>4. /\ phase = IF IsIllegal THEN "error" ELSE "place"
        /\ avail = [t \in Tile |-> Tile] /\ objs = {} /\ next = 1
        /\ pos = [i \in Inst |-> IF IsFixed(i) /\ ~IsIllegal THEN nl.cst[i] ELSE NULL]
    BY DEF Init
  <1>5. CASE IsIllegal
    BY <1>2, <1>3, <1>4, <1>5 DEF FInv, Holds
  <1>6. CASE ~IsIllegal
    <2>1. ObjectsFit
      BY <1>2, <1>6
    <2>2. avail \in [Tile -> SUBSET Tile]
      BY <1>4
    <2>3. next \in 1..(Len(nl.objects) + 1) /\ objs \subseteq 1..(next - 1) /\ 1..(next - 1) = {}
      BY <1>4, <2>1 DEF ObjectsFit
    <2>4. PlacedAre(next, past) /\ PairsWhole(next, past)
      BY <2>3 DEF PlacedAre, PairsWhole
    <2>5. UnplacedAre(next, past)
      <3> SUFFICES ASSUME NEW o \in 1..Len(nl.objects), NEW k \in DOMAIN InstsOf(o)
                   PROVE  pos[InstsOf(o)[k]] = NULL
        BY <1>3, <1>4 DEF UnplacedAre
      <3>1. InstsOf(o)[k] \in Inst /\ ~IsFixed(InstsOf(o)[k])
        <4>1. o \in DOMAIN nl.objects
          BY <2>1 DEF ObjectsFit
        <4>2. QED
          BY <2>1, <4>1, MembersFit
      <3>2. QED
        BY <1>4, <3>1
    <2>6. Ready(avail, next, objs, past)
      BY <2>1, <2>2, <2>3, <2>4, <2>5 DEF Ready
    <2>7. QED
      BY <1>2, <1>3, <1>4, <1>6, <2>6 DEF FInv, Holds
  <1>7. QED
    BY <1>5, <1>6
-----------------------------------------------------------------------------
(* What FInv says where annealing has begun. *)
LEMMA AnnealingFits ==
  ASSUME FInv, phase \notin {"place", "error"}
  PROVE  /\ DeviceFits /\ ObjectsFit /\ NullAssumption
         /\ Bookkept(slot, occ, past) /\ Agree(slot, past) /\ Counted(occ, slot)
         /\ Ready(avail, next, objs, past)
         /\ Annealed(next, qual, slot) /\ TableFits(qual, slot)
         /\ next = Len(nl.objects) + 1
         /\ objs \subseteq DOMAIN nl.objects
         /\ phase # "decide" => pos = past
  <1>1. /\ DeviceFits /\ Bookkept(slot, occ, past)
        /\ Ready(avail, next, objs, past) /\ Annealed(next, qual, slot)
        /\ phase # "decide" => pos = past
    BY DEF FInv, Holds
  <1>2. Agree(slot, past) /\ Counted(occ, slot)
    BY <1>1 DEF Bookkept
  <1>3. TableFits(qual, slot) /\ next = Len(nl.objects) + 1
    BY <1>1 DEF Annealed
  <1>4. ObjectsFit /\ objs \subseteq 1..(next - 1)
    BY <1>1 DEF Ready
  <1>5. objs \subseteq DOMAIN nl.objects
    BY <1>3, <1>4 DEF ObjectsFit
  <1>6. QED
    BY <1>1, <1>2, <1>3, <1>4, <1>5, NullAssumption

(* Steps that leave alone what is placed.                                  *)
LEMMA SamePlaces ==
  ASSUME FInv, phase \notin {"place", "error", "decide"},
         UNCHANGED <<nl, slot, occ, pos, past, qual, next>>,
         avail' \in [Tile -> SUBSET Tile], objs' \subseteq objs,
         phase' \in {"idle", "pick", "find", "done", "trap", "error"},
         phase' = "find" => from' \in objs'
  PROVE  FInv'
  <1>1. /\ DeviceFits /\ Bookkept(slot, occ, past) /\ pos = past
        /\ Ready(avail, next, objs, past) /\ Annealed(next, qual, slot)
    BY AnnealingFits
  <1>2. Ready(avail', next', objs', past')
    BY <1>1 DEF Ready
  <1>3. Bookkept(slot', occ', past') /\ Annealed(next', qual', slot')
    BY <1>1
  <1>4. Holds(slot', occ', avail', pos', past', objs', qual', phase', next', from', swaps')
    BY <1>1, <1>2, <1>3 DEF Holds
  <1>5. QED
    BY <1>1, <1>4, StepFits

(* Drawing, giving up, refusing, cooling and finishing move no instance. *)
LEMMA SmallSteps ==
  ASSUME FInv, \/ PickObject \/ NoObject \/ GiveUp \/ Refuse \/ NextTemperature \/ Finish
  PROVE  FInv'
  <1>1. phase \notin {"place", "error", "decide"}
    BY DEF PickObject, NoObject, GiveUp, Refuse, NextTemperature, Finish
  <1>2. avail \in [Tile -> SUBSET Tile]
    BY <1>1, AnnealingFits DEF Ready
  <1>3. UNCHANGED <<nl, slot, occ, pos, past, qual, next>>
    BY DEF PickObject, NoObject, GiveUp, Refuse, NextTemperature, Finish
  <1>4. avail' \in [Tile -> SUBSET Tile]
    <2>1. CASE Refuse
      <3>1. PICK u : avail' = avail \/ avail' = [avail EXCEPT ![BaseTile(from)] = @ \ {u}]
        BY <2>1 DEF Refuse
      <3>2. QED
        BY <1>2, <3>1
    <2>2. CASE ~Refuse
      <3>1. avail' = avail
        BY <2>2 DEF PickObject, NoObject, GiveUp, NextTemperature, Finish
      <3>2. QED
        BY <1>2, <3>1
    <2>3. QED
      BY <2>1, <2>2
  <1>5. objs' \subseteq objs
    BY DEF PickObject, NoObject, GiveUp, Refuse, NextTemperature, Finish
  <1>6. phase' \in {"idle", "pick", "find", "done", "trap", "error"}
    BY DEF PickObject, NoObject, GiveUp, Refuse, NextTemperature, Finish
  <1>7. phase' = "find" => from' \in objs'
    <2>1. phase = "find" => from \in objs
      BY DEF FInv, Holds
    <2>2. QED
      BY <2>1 DEF PickObject, NoObject, GiveUp, Refuse, NextTemperature, Finish
  <1>8. QED
    BY <1>1, <1>3, <1>4, <1>5, <1>6, <1>7, SamePlaces

(* The table is filled for the first time. *)
LEMMA StartFits ==
  ASSUME FInv, StartAnnealing
  PROVE  FInv'
  <1>1. /\ phase = "place" /\ next \notin DOMAIN nl.objects
        /\ qual' = Requalified(slot, Column \X CarryIndex)
        /\ phase' \in {"done", "idle"}
        /\ UNCHANGED <<nl, slot, occ, avail, pos, past, objs, rlim, next, from, swaps>>
    BY DEF StartAnnealing
  <1>2. /\ DeviceFits /\ Bookkept(slot, occ, past) /\ Ready(avail, next, objs, past) /\ pos = past
    BY <1>1 DEF FInv, Holds
  <1>3. ObjectsFit /\ next \in 1..(Len(nl.objects) + 1)
    BY <1>2 DEF Ready
  <1>4. next = Len(nl.objects) + 1
    BY <1>1, <1>3 DEF ObjectsFit
  <1>5. PICK q : q = qual'
    OBVIOUS
  <1>6. TableFits(q, slot)
    BY <1>1, <1>2, <1>3, <1>5, StartTable
  <1>7. Annealed(next, q, slot)
    BY <1>4, <1>6 DEF Annealed
  <1>8. /\ Bookkept(slot', occ', past') /\ Ready(avail', next', objs', past') /\ pos' = past'
        /\ Annealed(next', qual', slot')
    BY <1>1, <1>2, <1>5, <1>7
  <1>9. Holds(slot', occ', avail', pos', past', objs', qual', phase', next', from', swaps')
    BY <1>1, <1>8 DEF Holds
  <1>10. QED
    BY <1>1, <1>2, <1>9, StepFits

(* An object that is put on free slots. *)
LEMMA PutFitsAll ==
  ASSUME FInv, phase = "place", next \in DOMAIN nl.objects,
         NEW n, NEW ps, Puttable(n, InstsOf(next), ps), \A k \in 1..n : slot[ps[k]] = NULL,
         TypeOf(next) = "LUT6" => \E t \in Tile : ps = <<<<t, 0>>, <<t, 1>>>>,
         PutOn(InstsOf(next), ps),
         \A t \in Tile : occ'[t] = occ[t] + Cardinality({k \in DOMAIN ps : ps[k][1] = t}),
         occ' = [t \in Tile |-> occ'[t]]
  PROVE  FInv'
  <1>1. PICK is, s2, p2, oc : /\ is = InstsOf(next) /\ s2 = PutSlots(slot, is, ps) /\ p2 = PutPlaces(pos, is, ps)
                              /\ oc = occ'
    OBVIOUS
  <1>2. /\ slot' = s2 /\ pos' = p2 /\ past' = p2
        /\ objs' = objs \cup {next} /\ next' = next + 1
        /\ UNCHANGED <<nl, avail, qual, rlim, phase, from, swaps>>
    BY <1>1 DEF PutOn, PutSlots, PutPlaces
  <1>3. /\ DeviceFits /\ Bookkept(slot, occ, past) /\ Ready(avail, next, objs, past) /\ pos = past
    BY DEF FInv, Holds
  <1>4. /\ ObjectsFit /\ PlacedAre(next, pos) /\ UnplacedAre(next, pos) /\ PairsWhole(next, pos)
        /\ avail \in [Tile -> SUBSET Tile] /\ objs \subseteq 1..(next - 1) /\ next \in 1..(Len(nl.objects) + 1)
    BY <1>3 DEF Ready
  <1>5. Agree(slot, pos) /\ Counted(occ, slot)
    BY <1>3 DEF Bookkept
  <1>6. PICK nx \in DOMAIN nl.objects : nx = next
    OBVIOUS
  <1>7. Agree(s2, p2) /\ PlacedAre(nx + 1, p2) /\ UnplacedAre(nx + 1, p2) /\ PairsWhole(nx + 1, p2)
    BY <1>1, <1>3, <1>4, <1>5, <1>6, NullAssumption, ObjectPut
  <1>8. ASSUME NEW t \in Tile
        PROVE  oc[t] \in Nat /\ oc[t] = Cardinality(Taken(s2, t))
    <2>1. Cardinality(Taken(s2, t)) = Cardinality(Taken(slot, t)) + Cardinality({k \in DOMAIN ps : ps[k][1] = t})
      BY <1>1, <1>3, NullAssumption, PutCounted
    <2>2. Cardinality(Taken(s2, t)) \in Nat
      BY <1>3, TakenFinite
    <2>3. oc[t] = occ[t] + Cardinality({k \in DOMAIN ps : ps[k][1] = t}) /\ occ[t] = Cardinality(Taken(slot, t))
      BY <1>1, <1>5 DEF Counted
    <2>4. QED
      BY <2>1, <2>2, <2>3
  <1>9. Counted(oc, s2)
    <2>1. oc = [t \in Tile |-> oc[t]]
      BY <1>1
    <2>2. QED
      BY <1>8, <2>1 DEF Counted
  <1>10. nx \in 1..Len(nl.objects) /\ Len(nl.objects) \in Nat
    BY <1>4 DEF ObjectsFit
  <1>11. Ready(avail, nx + 1, objs \cup {nx}, p2)
    BY <1>4, <1>6, <1>7, <1>10 DEF Ready
  <1>12. Bookkept(slot', occ', past') /\ Ready(avail', next', objs', past') /\ pos' = past' /\ phase' = "place"
    BY <1>1, <1>2, <1>6, <1>7, <1>9, <1>11 DEF Bookkept
  <1>13. Holds(slot', occ', avail', pos', past', objs', qual', phase', next', from', swaps')
    BY <1>12 DEF Holds
  <1>14. QED
    BY <1>2, <1>3, <1>13, StepFits
-----------------------------------------------------------------------------
(* The state in which an object is placed.                                 *)
LEMMA PlacingFits ==
  ASSUME FInv, phase = "place", next \in DOMAIN nl.objects
  PROVE  /\ DeviceFits /\ ObjectsFit /\ NullAssumption /\ Agree(slot, pos)
         /\ occ \in [Tile -> Nat]
         /\ \A t \in Tile : occ[t] = Cardinality(Occupants(t))
         /\ Len(InstsOf(next)) \in Nat /\ DOMAIN InstsOf(next) = 1..Len(InstsOf(next))
         /\ \A k \in 1..Len(InstsOf(next)) : InstsOf(next)[k] \in Inst
         /\ \A j, k \in 1..Len(InstsOf(next)) : InstsOf(next)[j] = InstsOf(next)[k] => j = k
         /\ TypeOf(next) = "LUT6" => Len(InstsOf(next)) = 2 /\ NumSlices = 2
         /\ TypeOf(next) = "SITE" => Len(InstsOf(next)) = 1
  <1>1. /\ DeviceFits /\ Bookkept(slot, occ, past) /\ Ready(avail, next, objs, past) /\ pos = past
    BY DEF FInv, Holds
  <1>2. ObjectsFit
    BY <1>1 DEF Ready
  <1>3. Agree(slot, pos) /\ Counted(occ, slot)
    BY <1>1 DEF Bookkept
  <1>4. ASSUME NEW t \in Tile
        PROVE  occ[t] = Cardinality(Occupants(t))
    <2>1. Cardinality(Occupants(t)) = Cardinality(Taken(slot, t))
      BY <1>1, <1>3, NullAssumption, OccupantsCounted
    <2>2. QED
      BY <1>3, <2>1 DEF Counted
  <1>5. PICK o \in DOMAIN nl.objects : o = next
    OBVIOUS
  <1>6. /\ Len(InstsOf(o)) \in Nat \ {0} /\ DOMAIN InstsOf(o) = 1..Len(InstsOf(o))
        /\ \A k \in 1..Len(InstsOf(o)) : InstsOf(o)[k] \in Inst
        /\ \A j, k \in 1..Len(InstsOf(o)) : InstsOf(o)[j] = InstsOf(o)[k] => j = k
    BY <1>2, MembersFit
  <1>7. /\ TypeOf(o) = "LUT6" => Len(InstsOf(o)) = 2 /\ NumSlices = 2
        /\ TypeOf(o) = "SITE" => Len(InstsOf(o)) = 1
    BY <1>2 DEF ObjectsFit
  <1>8. QED
    BY <1>1, <1>2, <1>3, <1>4, <1>5, <1>6, <1>7, NullAssumption DEF Counted

(* How many of the positions ps lie on a tile: one, or two on the same.    *)
LEMMA CountOne ==
  ASSUME NEW p, NEW ps, ps = <<p>>, NEW t
  PROVE  Cardinality({k \in DOMAIN ps : ps[k][1] = t}) = IF p[1] = t THEN 1 ELSE 0
  <1>1. CASE p[1] = t
    <2>1. {k \in DOMAIN ps : ps[k][1] = t} = 1..1
      BY <1>1
    <2>2. Cardinality(1..1) = 1
      <3>1. Cardinality(1..1) = IF 1 > 1 THEN 0 ELSE 1 - 1 + 1
        <4>1. 1 \in Int /\ 1 \in Int
          OBVIOUS
        <4>2. QED
          BY <4>1, FS_Interval, Zenon
      <3>2. QED
        BY <3>1
    <2>3. QED
      BY <1>1, <2>1, <2>2
  <1>2. CASE p[1] # t
    <2>1. {k \in DOMAIN ps : ps[k][1] = t} = {}
      BY <1>2
    <2>2. QED
      BY <1>2, <2>1, FS_EmptySet
  <1>3. QED
    BY <1>1, <1>2

(* The two slots of a pair lie on one tile. *)
LEMMA CountTwo ==
  ASSUME NEW u, NEW ps, ps = <<<<u, 0>>, <<u, 1>>>>, NEW t
  PROVE  Cardinality({k \in DOMAIN ps : ps[k][1] = t}) = IF u = t THEN 2 ELSE 0
  <1>1. DOMAIN ps = 1..2 /\ \A k \in 1..2 : ps[k][1] = u
    OBVIOUS
  <1>2. CASE u = t
    <2>1. {k \in DOMAIN ps : ps[k][1] = t} = 1..2
      BY <1>1, <1>2
    <2>2. Cardinality(1..2) = 2
      <3>1. Cardinality(1..2) = IF 1 > 2 THEN 0 ELSE 2 - 1 + 1
        <4>1. 1 \in Int /\ 2 \in Int
          OBVIOUS
        <4>2. QED
          BY <4>1, FS_Interval, Zenon
      <3>2. QED
        BY <3>1
    <2>3. QED
      BY <1>2, <2>1, <2>2
  <1>3. CASE u # t
    <2>1. {k \in DOMAIN ps : ps[k][1] = t} = {}
      BY <1>1, <1>3
    <2>2. QED
      BY <1>3, <2>1, FS_EmptySet
  <1>4. QED
    BY <1>2, <1>3

(* A chain is placed on the run that was found. *)
LEMMA PlaceChainFits ==
  ASSUME FInv, PlaceChain
  PROVE  FInv'
  <1>1. phase = "place" /\ next \in DOMAIN nl.objects /\ TypeOf(next) = "CARRY_CHAIN"
    BY DEF PlaceChain, Placing
  <1> DEFINE Runs(c, run) ==
               /\ run = InitRun(c, Len(InstsOf(next))) /\ run # <<>>
               /\ PutOn(InstsOf(next), run)
               /\ occ' = [t \in Tile |-> occ[t] + Cardinality({k \in DOMAIN run : run[k][1] = t})]
  <1>a. PICK c \in Column : \E run : Runs(c, run)
    BY DEF PlaceChain
  <1>2. PICK run : Runs(c, run)
    BY <1>a
  <1>3. /\ DeviceFits /\ Len(InstsOf(next)) \in Nat /\ DOMAIN InstsOf(next) = 1..Len(InstsOf(next))
        /\ \A k \in 1..Len(InstsOf(next)) : InstsOf(next)[k] \in Inst
        /\ \A j, k \in 1..Len(InstsOf(next)) : InstsOf(next)[j] = InstsOf(next)[k] => j = k
    BY <1>1, PlacingFits
  <1>4. PICK n \in Nat : n = Len(InstsOf(next))
    BY <1>3
  <1>5. /\ run \in Seq(Pos) /\ Len(run) = n
        /\ \A k \in 1..n : slot[run[k]] = NULL
        /\ \A j, k \in 1..n : run[j] = run[k] => j = k
    BY <1>2, <1>3, <1>4, InitRunFits
  <1>6. DOMAIN run = 1..n /\ \A k \in 1..n : run[k] \in Pos
    BY <1>5
  <1>7. Puttable(n, InstsOf(next), run)
    BY <1>3, <1>4, <1>5, <1>6 DEF Puttable
  <1>8. /\ \A t \in Tile : occ'[t] = occ[t] + Cardinality({k \in DOMAIN run : run[k][1] = t})
        /\ occ' = [t \in Tile |-> occ'[t]]
    BY <1>2
  <1>9. TypeOf(next) = "LUT6" => \E t \in Tile : run = <<<<t, 0>>, <<t, 1>>>>
    BY <1>1
  <1>10. PutOn(InstsOf(next), run)
    BY <1>2
  <1>11. \A k \in 1..n : slot[run[k]] = NULL
    BY <1>5
  <1>12. QED
    BY <1>1, <1>7, <1>8, <1>9, <1>10, <1>11, PutFitsAll, SMTT(60)

(* A pair is placed on an empty tile. *)
LEMMA PlaceLut6Fits ==
  ASSUME FInv, PlaceLut6
  PROVE  FInv'
  <1>1. phase = "place" /\ next \in DOMAIN nl.objects /\ TypeOf(next) = "LUT6"
    BY DEF PlaceLut6, Placing
  <1>2. PICK t \in Tile : /\ occ[t] = 0
                          /\ PutOn(InstsOf(next), <<<<t, 0>>, <<t, 1>>>>)
                          /\ occ' = [occ EXCEPT ![t] = NumSlices]
    BY DEF PlaceLut6
  <1>3. PICK ps : ps = <<<<t, 0>>, <<t, 1>>>>
    OBVIOUS
  <1>4. /\ DeviceFits /\ NullAssumption /\ Agree(slot, pos) /\ occ \in [Tile -> Nat]
        /\ occ[t] = Cardinality(Occupants(t))
        /\ NumSlices = 2 /\ DOMAIN InstsOf(next) = 1..2
        /\ \A k \in 1..2 : InstsOf(next)[k] \in Inst
        /\ \A j, k \in 1..2 : InstsOf(next)[j] = InstsOf(next)[k] => j = k
    BY <1>1, PlacingFits
  <1>5. \A z \in Z : slot[<<t, z>>] = NULL
    BY <1>2, <1>4, EmptyTile
  <1>6. DOMAIN ps = 1..2 /\ ps[1] = <<t, 0>> /\ ps[2] = <<t, 1>> /\ ps[1] # ps[2]
    BY <1>3
  <1>7. 0 \in Z /\ 1 \in Z
    BY <1>4 DEF Z
  <1>8. \A k \in 1..2 : ps[k] \in Pos /\ slot[ps[k]] = NULL
    BY <1>5, <1>6, <1>7 DEF Pos
  <1>9. \A j, k \in 1..2 : ps[j] = ps[k] => j = k
    BY <1>6
  <1>10. Puttable(2, InstsOf(next), ps)
    BY <1>4, <1>6, <1>8, <1>9 DEF Puttable
  <1>11. \A u \in Tile : occ'[u] = occ[u] + Cardinality({k \in DOMAIN ps : ps[k][1] = u})
    <2> TAKE u \in Tile
    <2>1. Cardinality({k \in DOMAIN ps : ps[k][1] = u}) = IF t = u THEN 2 ELSE 0
      BY <1>3, CountTwo
    <2>2. occ'[u] = IF u = t THEN 2 ELSE occ[u]
      BY <1>2, <1>4
    <2>3. occ[u] \in Nat
      BY <1>4
    <2>4. QED
      BY <1>2, <2>1, <2>2, <2>3
  <1>12. occ' = [u \in Tile |-> occ'[u]]
    BY <1>2, <1>4
  <1>13. PutOn(InstsOf(next), ps)
    BY <1>2, <1>3
  <1>14. QED
    BY <1>1, <1>3, <1>8, <1>10, <1>11, <1>12, <1>13, PutFitsAll

(* A single slice is placed on a free slot. *)
LEMMA PlaceSiteFits ==
  ASSUME FInv, PlaceSite
  PROVE  FInv'
  <1>1. phase = "place" /\ next \in DOMAIN nl.objects /\ TypeOf(next) = "SITE"
    BY DEF PlaceSite, Placing
  <1>2. PICK t \in Tile : /\ occ[t] < NumSlices
                          /\ PutOn(InstsOf(next), <<<<t, UnoccZ(t)>>>>)
                          /\ occ' = [occ EXCEPT ![t] = @ + 1]
    BY DEF PlaceSite
  <1>3. PICK p, ps : p = <<t, UnoccZ(t)>> /\ ps = <<p>>
    OBVIOUS
  <1>4. /\ DeviceFits /\ NullAssumption /\ Agree(slot, pos) /\ occ \in [Tile -> Nat]
        /\ occ[t] = Cardinality(Occupants(t))
        /\ DOMAIN InstsOf(next) = 1..1
        /\ \A k \in 1..1 : InstsOf(next)[k] \in Inst
        /\ \A j, k \in 1..1 : InstsOf(next)[j] = InstsOf(next)[k] => j = k
    BY <1>1, PlacingFits
  <1>5. UnoccZ(t) \in Z /\ slot[<<t, UnoccZ(t)>>] = NULL
    <2>1. Cardinality(Occupants(t)) < NumSlices
      BY <1>2, <1>4
    <2>2. QED
      BY <1>4, <2>1, FreeSlot
  <1>6. p \in Pos /\ slot[p] = NULL /\ p[1] = t
    BY <1>3, <1>5 DEF Pos
  <1>7. DOMAIN ps = 1..1 /\ ps[1] = p /\ \A k \in 1..1 : k = 1
    BY <1>3
  <1>8. \A k \in 1..1 : ps[k] \in Pos /\ slot[ps[k]] = NULL
    BY <1>6, <1>7
  <1>9. Puttable(1, InstsOf(next), ps)
    BY <1>4, <1>7, <1>8 DEF Puttable
  <1>10. \A u \in Tile : occ'[u] = occ[u] + Cardinality({k \in DOMAIN ps : ps[k][1] = u})
    <2> TAKE u \in Tile
    <2>1. Cardinality({k \in DOMAIN ps : ps[k][1] = u}) = IF p[1] = u THEN 1 ELSE 0
      <3>1. ps = <<p>>
        BY <1>3
      <3>2. QED
        BY <3>1, CountOne
    <2>2. occ'[u] = IF u = t THEN occ[u] + 1 ELSE occ[u]
      BY <1>2, <1>4
    <2>3. occ[u] \in Nat
      BY <1>4
    <2>4. QED
      BY <1>6, <2>1, <2>2, <2>3
  <1>11. occ' = [u \in Tile |-> occ'[u]]
    BY <1>2, <1>4
  <1>12. PutOn(InstsOf(next), ps)
    BY <1>2, <1>3
  <1>13. QED
    BY <1>1, <1>8, <1>9, <1>10, <1>11, <1>12, PutFitsAll

(* An ASSERT ends the placement where it is.                               *)
LEMMA FailFits ==
  ASSUME FInv, phase = "place", Fail
  PROVE  FInv'
  <1>1. /\ DeviceFits /\ Bookkept(slot, occ, past) /\ pos = past
    BY DEF FInv, Holds
  <1>2. phase' = "error" /\ UNCHANGED <<nl, slot, occ, avail, pos, past, objs, qual, rlim, next, from, swaps>>
    BY DEF Fail
  <1>3. Bookkept(slot', occ', past') /\ pos' = past'
    BY <1>1, <1>2
  <1>4. Holds(slot', occ', avail', pos', past', objs', qual', phase', next', from', swaps')
    BY <1>2, <1>3 DEF Holds
  <1>5. QED
    BY <1>1, <1>2, <1>4, StepFits

(* Nothing changes. *)
LEMMA StutterFits ==
  ASSUME FInv, UNCHANGED vars
  PROVE  FInv'
  <1>1. DeviceFits /\ Holds(slot, occ, avail, pos, past, objs, qual, phase, next, from, swaps)
    BY DEF FInv
  <1>2. /\ nl' = nl
        /\ Holds(slot', occ', avail', pos', past', objs', qual', phase', next', from', swaps')
    BY <1>1 DEF vars
  <1>3. QED
    BY <1>1, <1>2, StepFits
-----------------------------------------------------------------------------
(* The state in which an exchange is looked for, or is in flight.          *)
LEMMA SearchFits ==
  ASSUME FInv, phase \in {"find", "decide"}
  PROVE  /\ from \in DOMAIN nl.objects
         /\ \A t \in Tile : occ[t] = Cardinality(Occupants(t))
         /\ phase = "find" => Searching
         /\ phase = "decide" => InAir(next, swaps, slot, past, pos)
  <1>1. /\ DeviceFits /\ ObjectsFit /\ NullAssumption
        /\ Agree(slot, past) /\ Counted(occ, slot)
        /\ Ready(avail, next, objs, past)
        /\ next = Len(nl.objects) + 1 /\ objs \subseteq DOMAIN nl.objects
        /\ phase # "decide" => pos = past
    BY AnnealingFits
  <1>2. from \in objs /\ (phase = "decide" => InAir(next, swaps, slot, past, pos))
    BY DEF FInv, Holds
  <1>3. ASSUME NEW t \in Tile
        PROVE  occ[t] = Cardinality(Occupants(t))
    <2>1. Cardinality(Occupants(t)) = Cardinality(Taken(slot, t))
      BY <1>1, OccupantsCounted
    <2>2. QED
      BY <1>1, <2>1 DEF Counted
  <1>4. PlacedAre(Len(nl.objects) + 1, past) /\ PairsWhole(Len(nl.objects) + 1, past)
    BY <1>1 DEF Ready
  <1>5. phase = "find" => Searching
    BY <1>1, <1>4 DEF Searching
  <1>6. QED
    BY <1>1, <1>2, <1>3, <1>5

(* An exchange is taken. *)
LEMMA ExchangeFits ==
  ASSUME FInv, Exchange
  PROVE  FInv'
  <1>1. /\ phase = "find" /\ phase' = "decide"
        /\ UNCHANGED <<nl, slot, occ, avail, past, objs, qual, rlim, next, from>>
    BY DEF Exchange
  <1>2. PICK u \in avail[BaseTile(from)] :
          /\ Verdict(from, u) = "take"
          /\ \E ex \in Exchanges(from, u) :
               /\ swaps' = [k \in DOMAIN ex |-> [from |-> ex[k].from, to |-> ex[k].to]]
               /\ pos' = ExchangedPlaces(ex, pos)
    BY DEF Exchange, ExchangedPlaces
  <1>3. PICK ex \in Exchanges(from, u) :
          /\ swaps' = [k \in DOMAIN ex |-> [from |-> ex[k].from, to |-> ex[k].to]]
          /\ pos' = ExchangedPlaces(ex, pos)
    BY <1>2
  <1>4. /\ from \in DOMAIN nl.objects /\ Searching
        /\ \A t \in Tile : occ[t] = Cardinality(Occupants(t))
    BY <1>1, SearchFits
  <1>5. /\ DeviceFits /\ Bookkept(slot, occ, past) /\ Ready(avail, next, objs, past)
        /\ Annealed(next, qual, slot) /\ TableFits(qual, slot)
        /\ next = Len(nl.objects) + 1 /\ pos = past
    BY <1>1, AnnealingFits
  <1>6. PICK o \in DOMAIN nl.objects : o = from
    BY <1>4
  <1>7. u \in Tile
    <2>1. BaseTile(o) \in Tile
      BY <1>4, BaseFits
    <2>2. avail \in [Tile -> SUBSET Tile]
      BY <1>5 DEF Ready
    <2>3. QED
      BY <1>6, <2>1, <2>2
  <1>8. Verdict(o, u) = "take" /\ ex \in Exchanges(o, u)
    BY <1>2, <1>3, <1>6
  <1>9. GoodExchange(ex)
    BY <1>4, <1>5, <1>7, <1>8, ExchangeGood
  <1>10. PICK po, sw : po = pos' /\ sw = swaps'
    OBVIOUS
  <1>11. po = ExchangedPlaces(ex, pos) /\ sw = [k \in DOMAIN ex |-> [from |-> ex[k].from, to |-> ex[k].to]]
    BY <1>3, <1>10
  <1>12. Flying(Len(sw), sw, slot, pos, po) /\ PairsWhole(Len(nl.objects) + 1, po)
    BY <1>4, <1>9, <1>11, ExchangeTaken
  <1>13. InAir(next, sw, slot, past, po)
    BY <1>5, <1>12 DEF InAir
  <1>14. from \in objs
    BY <1>1 DEF FInv, Holds
  <1>15. /\ Bookkept(slot', occ', past') /\ Ready(avail', next', objs', past')
         /\ Annealed(next', qual', slot') /\ InAir(next', swaps', slot', past', pos')
         /\ from' \in objs'
    BY <1>1, <1>5, <1>10, <1>13, <1>14
  <1>16. Holds(slot', occ', avail', pos', past', objs', qual', phase', next', from', swaps')
    BY <1>1, <1>15 DEF Holds
  <1>17. QED
    BY <1>1, <1>5, <1>16, StepFits

(* The counters that maintain leaves. *)
LEMMA KeepOccupancy ==
  ASSUME DeviceFits, NEW n, Flying(n, swaps, slot, past, pos), NEW s2,
         WrittenAre(n, swaps, past, pos, slot, s2), Counted(occ, slot),
         NEW oc, oc = [t \in Tile |-> occ[t] + Cardinality(Gains(t)) - Cardinality(Losses(t))]
  PROVE  Counted(oc, s2)
  <1>1. ASSUME NEW t \in Tile
        PROVE  oc[t] \in Nat /\ oc[t] = Cardinality(Taken(s2, t))
    <2>1. Gains(t) = GainsIn(swaps, past, pos, t) /\ Losses(t) = LossesIn(swaps, past, pos, t)
      BY DEF Gains, Losses, GainsIn, LossesIn, PosFrom, PosTo, FromPos, ToPos
    <2>2. Cardinality(Taken(s2, t)) = Cardinality(Taken(slot, t))
            + Cardinality(GainsIn(swaps, past, pos, t)) - Cardinality(LossesIn(swaps, past, pos, t))
      BY KeepCounts
    <2>3. Cardinality(Taken(s2, t)) \in Nat
      BY TakenFinite
    <2>4. oc[t] = occ[t] + Cardinality(Gains(t)) - Cardinality(Losses(t)) /\ occ[t] = Cardinality(Taken(slot, t))
      BY DEF Counted
    <2>5. QED
      BY <2>1, <2>2, <2>3, <2>4
  <1>2. oc = [t \in Tile |-> oc[t]]
    OBVIOUS
  <1>3. QED
    BY <1>1, <1>2 DEF Counted

(* An exchange is kept. *)
LEMMA KeepFits ==
  ASSUME FInv, Keep
  PROVE  FInv'
  <1>1. /\ phase = "decide" /\ phase' = "idle"
        /\ slot' = Settled
        /\ occ' = [t \in Tile |-> occ[t] + Cardinality(Gains(t)) - Cardinality(Losses(t))]
        /\ qual' = Requalified(slot', Affected)
        /\ pos' = pos /\ past' = pos
        /\ UNCHANGED <<nl, avail, objs, rlim, next>>
    BY DEF Keep, EndSwap
  <1>2. /\ DeviceFits /\ ObjectsFit /\ NullAssumption
        /\ Agree(slot, past) /\ Counted(occ, slot)
        /\ Ready(avail, next, objs, past) /\ TableFits(qual, slot)
        /\ next = Len(nl.objects) + 1
    BY <1>1, AnnealingFits
  <1>3. Flying(Len(swaps), swaps, slot, past, pos) /\ PairsWhole(next, pos)
    BY <1>1, SearchFits DEF InAir
  <1>4. PICK n : n = Len(swaps)
    OBVIOUS
  <1>5. Flying(n, swaps, slot, past, pos)
    BY <1>3, <1>4
  <1>6. PICK s2, q2, oc : s2 = slot' /\ q2 = qual' /\ oc = occ'
    OBVIOUS
  <1>7. WrittenAre(n, swaps, past, pos, slot, s2)
    <2>1. slot \in [Pos -> Inst \cup {NULL}]
      BY <1>2 DEF Agree
    <2>2. WrittenAre(n, swaps, past, pos, slot, Settled)
      BY <1>5, <2>1, SettledFits
    <2>3. QED
      BY <1>1, <1>6, <2>2
  <1>8. Agree(s2, pos)
    BY <1>2, <1>5, <1>7, KeepAgrees
  <1>9. Counted(oc, s2)
    BY <1>1, <1>2, <1>5, <1>6, <1>7, KeepOccupancy
  <1>10. TableFits(q2, s2)
    <2>1. q2 = Requalified(s2, Affected)
      BY <1>1, <1>6
    <2>2. QED
      BY <1>2, <1>5, <1>7, <2>1, KeepTable
  <1>11. Ready(avail, next, objs, pos)
    <2>1. PlacedAre(next, past) /\ next \in 1..(Len(nl.objects) + 1)
      BY <1>2 DEF Ready
    <2>2. PICK nx : nx = next
      OBVIOUS
    <2>3. PlacedAre(nx, pos)
      BY <1>2, <1>5, <2>1, <2>2, FlyingPlaced
    <2>4. Len(nl.objects) \in Nat
      BY <1>2 DEF ObjectsFit
    <2>5. UnplacedAre(next, pos)
      BY <1>2, <2>4 DEF UnplacedAre
    <2>6. QED
      BY <1>2, <1>3, <2>2, <2>3, <2>5 DEF Ready
  <1>12. /\ Bookkept(slot', occ', past') /\ Ready(avail', next', objs', past') /\ Annealed(next', qual', slot')
    BY <1>1, <1>2, <1>6, <1>8, <1>9, <1>10, <1>11 DEF Bookkept, Annealed
  <1>13. Holds(slot', occ', avail', pos', past', objs', qual', phase', next', from', swaps')
    BY <1>1, <1>12 DEF Holds
  <1>14. QED
    BY <1>1, <1>2, <1>13, StepFits

(* An exchange is undone: nothing of it is left. *)
LEMMA UndoFits ==
  ASSUME FInv, Undo
  PROVE  FInv'
  <1>1. /\ phase = "decide" /\ phase' = "idle"
        /\ pos' = [i \in Inst |-> IF InFlight(i) THEN past[i] ELSE pos[i]]
        /\ past' = pos'
        /\ UNCHANGED <<nl, slot, occ, qual, avail, objs, rlim, next>>
    BY DEF Undo, EndSwap
  <1>2. /\ DeviceFits /\ Bookkept(slot, occ, past) /\ Agree(slot, past)
        /\ Ready(avail, next, objs, past) /\ Annealed(next, qual, slot)
    BY <1>1, AnnealingFits
  <1>3. Flying(Len(swaps), swaps, slot, past, pos)
    BY <1>1, SearchFits DEF InAir
  <1>4. \A i \in Inst : ~InFlight(i) => pos[i] = past[i]
    BY <1>3 DEF Flying, InFlight, Moves
  <1>5. past = [i \in Inst |-> past[i]]
    BY <1>2 DEF Agree
  <1>6. pos' = past
    BY <1>1, <1>4, <1>5
  <1>7. /\ Bookkept(slot', occ', past') /\ Ready(avail', next', objs', past') /\ Annealed(next', qual', slot')
    BY <1>1, <1>2, <1>6
  <1>8. Holds(slot', occ', avail', pos', past', objs', qual', phase', next', from', swaps')
    BY <1>1, <1>7 DEF Holds
  <1>9. QED
    BY <1>1, <1>2, <1>8, StepFits

(* Every step keeps the invariant. *)
LEMMA NextFits ==
  ASSUME FInv, [Next]_vars
  PROVE  FInv'
  <1>1. CASE PlaceChain
    BY <1>1, PlaceChainFits
  <1>2. CASE PlaceLut6
    BY <1>2, PlaceLut6Fits
  <1>3. CASE PlaceSite
    BY <1>3, PlaceSiteFits
  <1>4. CASE PlaceChainFails \/ PlaceSiteFails
    <2>1. phase = "place" /\ Fail
      BY <1>4 DEF PlaceChainFails, PlaceSiteFails, Placing
    <2>2. QED
      BY <2>1, FailFits
  <1>5. CASE PlaceLut6Hangs \/ Stopped \/ UNCHANGED vars
    <2>1. UNCHANGED vars
      BY <1>5 DEF PlaceLut6Hangs, Stopped
    <2>2. QED
      BY <2>1, StutterFits
  <1>6. CASE StartAnnealing
    BY <1>6, StartFits
  <1>7. CASE PickObject \/ NoObject \/ GiveUp \/ Refuse \/ NextTemperature \/ Finish
    BY <1>7, SmallSteps
  <1>8. CASE Exchange
    BY <1>8, ExchangeFits
  <1>9. CASE Keep
    BY <1>9, KeepFits
  <1>10. CASE Undo
    BY <1>10, UndoFits
  <1>11. QED
    BY <1>1, <1>2, <1>3, <1>4, <1>5, <1>6, <1>7, <1>8, <1>9, <1>10 DEF Next

(* What the invariant says of the bookkeeping. *)
LEMMA FInvAgrees ==
  ASSUME FInv
  PROVE  BookkeepingAgrees
  <1>1. /\ DeviceFits /\ Bookkept(slot, occ, past) /\ NullAssumption
        /\ phase # "decide" => pos = past
    BY NullAssumption DEF FInv, Holds
  <1>2. Agree(slot, past) /\ Counted(occ, slot)
    BY <1>1 DEF Bookkept
  <1>3. Placed = past
    BY <1>1 DEF Placed
  <1>4. SlotsAgree
    <2>1. ASSUME NEW t \in Tile
          PROVE  occ[t] = Cardinality(Occupants(t))
      <3>1. Cardinality(Occupants(t)) = Cardinality(Taken(slot, t))
        BY <1>1, <1>2, OccupantsCounted
      <3>2. QED
        BY <1>2, <3>1 DEF Counted
    <2>2. QED
      BY <1>2, <1>3, <2>1 DEF SlotsAgree, Agree
  <1>5. ASSUME phase \notin {"place", "error"},
               NEW o \in ChainObjects, NEW c \in Column, NEW x \in CarryIndex
        PROVE  qual[o][c][x] = {r \in 0..(Rows - 1) : Fits(Len(InstsOf(o)), r, c, x)}
    <2>1. ObjectsFit /\ TableFits(qual, slot)
      BY <1>5, AnnealingFits
    <2>2. qual[o][c][x] = {r \in 0..(Rows - 1) : FitsOn(slot, Len(InstsOf(o)), r, c, x)}
      BY <1>1, <2>1, TableMeans
    <2>3. Len(InstsOf(o)) \in Nat \ {0}
      BY <2>1, MembersFit DEF ChainObjects
    <2>4. ASSUME NEW r \in 0..(Rows - 1)
          PROVE  Fits(Len(InstsOf(o)), r, c, x) <=> FitsOn(slot, Len(InstsOf(o)), r, c, x)
      BY <1>1, <2>3, FitsIsFitsOn
    <2>5. QED
      BY <2>2, <2>4
  <1>6. QED
    BY <1>4, <1>5 DEF BookkeepingAgrees, QualCurrent

(* Whatever the placer has exchanged, kept and undone, on every device and *)
(* for every design: the slots, the counters and the table of qualified    *)
(* positions are what the positions of the instances make them.            *)
THEOREM BookkeepingIsInvariant == Spec => []BookkeepingAgrees
  <1>1. Init => FInv
    BY InitFits
  <1>2. FInv /\ [Next]_vars => FInv'
    BY NextFits
  <1>3. FInv => BookkeepingAgrees
    BY FInvAgrees
  <1>4. QED
    BY <1>1, <1>2, <1>3, PTL DEF Spec

(* The annealing with its boxes and cost does nothing else to them.        *)
THEOREM PlacerKeepsBook == PSpec => []BookkeepingAgrees
  <1>1. PInit => FInv
    BY InitFits DEF PInit
  <1>2. FInv /\ [PNext]_<<vars, costVars>> => FInv'
    <2> SUFFICES ASSUME FInv, [PNext]_<<vars, costVars>>
                 PROVE  FInv'
      OBVIOUS
    <2>1. CASE UNCHANGED <<vars, costVars>>
      <3>1. UNCHANGED vars
        BY <2>1
      <3>2. QED
        BY <3>1, NextFits
    <2>2. CASE PNext
      <3>1. Next
        BY <2>2 DEF PNext, FloorplanStep, PStartAnnealing, PExchange, PKeep, PUndo, PNextTemperature, Next
      <3>2. QED
        BY <3>1, NextFits
    <2>3. QED
      BY <2>1, <2>2
  <1>3. FInv => BookkeepingAgrees
    BY FInvAgrees
  <1>4. QED
    BY <1>1, <1>2, <1>3, PTL DEF PSpec
-----------------------------------------------------------------------------
(* The slots of a chain, as far as it goes: they follow each other along   *)
(* carry chain x; and unless len of them are there, the last one is at the  *)
(* end of its tile and no tile lies between its row and row lo.            *)
Risen(s, c, x, len, lo) ==
    /\ Len(s) \in Nat /\ Len(s) <= len
    /\ Len(s) > 0 => s[1][2] = CarryChain[x][1]
    /\ \A j \in 1..(Len(s) - 1) : P!Follows(x, s[j], s[j + 1])
    /\ Len(s) > 0 /\ Len(s) < len =>
         \E h \in Nat : /\ s[Len(s)] = <<<<h, c>>, CarryChain[x][CarrySize]>>
                        /\ h >= lo
                        /\ \A r \in lo..(h - 1) : <<r, c>> \notin Tile

(* The indices of a carry chain. *)
ChainsFit == \A x \in CarryIndex : DOMAIN CarryChain[x] = 1..CarrySize

(* One row up without a tile changes nothing. *)
LEMMA RisenBare ==
  ASSUME NEW c, NEW x, NEW len, NEW lo \in Nat, NEW s, Risen(s, c, x, len, lo + 1), <<lo, c>> \notin Tile
  PROVE  Risen(s, c, x, len, lo)
  <1> SUFFICES ASSUME Len(s) > 0, Len(s) < len
               PROVE  \E h \in Nat : /\ s[Len(s)] = <<<<h, c>>, CarryChain[x][CarrySize]>>
                                     /\ h >= lo
                                     /\ \A r \in lo..(h - 1) : <<r, c>> \notin Tile
    BY DEF Risen
  <1>1. PICK h \in Nat : /\ s[Len(s)] = <<<<h, c>>, CarryChain[x][CarrySize]>>
                         /\ h >= lo + 1
                         /\ \A r \in (lo + 1)..(h - 1) : <<r, c>> \notin Tile
    BY DEF Risen
  <1>2. \A r \in lo..(h - 1) : r = lo \/ r \in (lo + 1)..(h - 1)
    OBVIOUS
  <1>3. \A r \in lo..(h - 1) : <<r, c>> \notin Tile
    BY <1>1, <1>2
  <1>4. h >= lo
    BY <1>1
  <1>5. QED
    BY <1>1, <1>3, <1>4

(* Slots of the same tile follow each other. *)
LEMMA FollowsInTile ==
  ASSUME DeviceFits, ChainsFit, NEW x \in CarryIndex, NEW j \in 1..(CarrySize - 1), NEW t, NEW p, NEW q,
         p = <<t, (x - 1) * CarrySize + j - 1>>, q = <<t, (x - 1) * CarrySize + (j + 1) - 1>>
  PROVE  P!Follows(x, p, q)
  <1>1. CarrySize \in Nat /\ j \in 1..CarrySize /\ j + 1 \in 1..CarrySize
    BY DEF DeviceFits
  <1>2. /\ CarryChain[x][j] = (x - 1) * CarrySize + j - 1
        /\ CarryChain[x][j + 1] = (x - 1) * CarrySize + (j + 1) - 1
    BY <1>1, ChainSlots
  <1>3. DOMAIN CarryChain[x] = 1..CarrySize /\ Len(CarryChain[x]) = CarrySize
    BY DEF ChainsFit, DeviceFits
  <1>4. p[2] = CarryChain[x][j] /\ q = <<p[1], CarryChain[x][j + 1]>> /\ j < Len(CarryChain[x])
    BY <1>1, <1>2, <1>3
  <1>5. P!CarryChain = CarryChain
    BY DEF P!CarryChain, CarryChain
  <1>6. QED
    BY <1>1, <1>3, <1>4, <1>5 DEF P!Follows

(* The first slot of the next tile follows the last one of a tile. *)
LEMMA FollowsUp ==
  ASSUME DeviceFits, ChainsFit, NEW x \in CarryIndex, NEW h \in Nat, NEW lo \in Nat, NEW c,
         lo < h, \A r \in (lo + 1)..(h - 1) : <<r, c>> \notin Tile, NEW p, NEW q,
         p = <<<<h, c>>, CarryChain[x][CarrySize]>>, q = <<<<lo, c>>, CarryChain[x][1]>>
  PROVE  P!Follows(x, p, q)
  <1>1. CarrySize \in Nat /\ CarrySize \in 1..CarrySize
    BY DEF DeviceFits
  <1>2. DOMAIN CarryChain[x] = 1..CarrySize /\ Len(CarryChain[x]) = CarrySize
    BY DEF ChainsFit, DeviceFits
  <1>3. P!NextAbove(p[1], q[1])
    BY DEF P!NextAbove, P!Tile, Tile
  <1>4. P!CarryChain = CarryChain
    BY DEF P!CarryChain, CarryChain
  <1>5. p[2] = CarryChain[x][CarrySize] /\ q[2] = CarryChain[x][1] /\ ~(CarrySize < Len(CarryChain[x]))
    BY <1>1, <1>2
  <1>6. QED
    BY <1>1, <1>2, <1>3, <1>4, <1>5 DEF P!Follows

(* A tile's slots, as many as are wanted or all that it has in the chain,   *)
(* are the next ones.                                                      *)
LEMMA RisenLonger ==
  ASSUME DeviceFits, ChainsFit, NEW c, NEW x \in CarryIndex, NEW len \in Nat, NEW lo \in Nat,
         NEW s, Risen(s, c, x, len, lo + 1), Len(s) < len, NEW m \in 1..CarrySize, NEW q,
         Longer(s, q, <<lo, c>>, (x - 1) * CarrySize, m), Len(q) <= len, Len(q) < len => m = CarrySize
  PROVE  Risen(q, c, x, len, lo)
  <1> DEFINE L == Len(s)
             z == (x - 1) * CarrySize
  <1>1. /\ L \in Nat /\ m \in Nat /\ Len(q) = L + m /\ CarrySize \in Nat \ {0}
        /\ \A j \in 1..L : q[j] = s[j]
        /\ \A j \in 1..m : q[L + j] = <<<<lo, c>>, z + j - 1>>
    BY DEF Longer, DeviceFits
  <1>2. z \in Nat /\ \A k \in 1..CarrySize : CarryChain[x][k] = z + k - 1
    BY ChainSlots
  <1> HIDE DEF L, z
  <1>3. q[L + 1] = <<<<lo, c>>, CarryChain[x][1]>>
    <2>1. 1 \in 1..m /\ 1 \in 1..CarrySize
      BY <1>1
    <2>2. QED
      BY <1>1, <1>2, <2>1
  <1>4. q[1][2] = CarryChain[x][1]
    <2>1. CASE L = 0
      <3>1. q[1] = <<<<lo, c>>, CarryChain[x][1]>>
        BY <1>3, <2>1
      <3>2. QED
        BY <3>1
    <2>2. CASE L > 0
      <3>1. 1 \in 1..L
        BY <1>1, <2>2
      <3>2. q[1] = s[1] /\ s[1][2] = CarryChain[x][1]
        BY <1>1, <2>2, <3>1 DEF Risen, L
      <3>3. QED
        BY <3>2
    <2>3. QED
      BY <1>1, <2>1, <2>2
  <1>5. ASSUME NEW j \in 1..(L + m - 1)
        PROVE  P!Follows(x, q[j], q[j + 1])
    <2>1. CASE j < L
      <3>1. j \in 1..(L - 1) /\ j \in 1..L /\ j + 1 \in 1..L
        BY <1>1, <2>1
      <3>2. P!Follows(x, s[j], s[j + 1]) /\ q[j] = s[j] /\ q[j + 1] = s[j + 1]
        BY <1>1, <3>1 DEF Risen, L
      <3>3. QED
        BY <3>2
    <2>2. CASE j = L
      <3>1. PICK h \in Nat : /\ s[L] = <<<<h, c>>, CarryChain[x][CarrySize]>>
                             /\ h >= lo + 1
                             /\ \A r \in (lo + 1)..(h - 1) : <<r, c>> \notin Tile
        BY <1>1, <2>2 DEF Risen, L
      <3>2. lo < h
        BY <3>1
      <3>3. L \in 1..L
        BY <1>1, <2>2
      <3>4. q[j] = <<<<h, c>>, CarryChain[x][CarrySize]>> /\ q[j + 1] = <<<<lo, c>>, CarryChain[x][1]>>
        BY <1>1, <1>3, <2>2, <3>1, <3>3
      <3>5. QED
        BY <3>1, <3>2, <3>4, FollowsUp
    <2>3. CASE j > L
      <3>1. PICK i \in 1..(m - 1) : j = L + i
        <4>1. j - L \in 1..(m - 1) /\ j = L + (j - L)
          BY <1>1, <2>3
        <4>2. QED
          BY <4>1
      <3>2. i \in 1..m /\ i + 1 \in 1..m /\ j + 1 = L + (i + 1) /\ i \in 1..(CarrySize - 1)
        BY <1>1, <3>1
      <3>3. q[j] = <<<<lo, c>>, z + i - 1>> /\ q[j + 1] = <<<<lo, c>>, z + (i + 1) - 1>>
        BY <1>1, <3>1, <3>2
      <3>4. QED
        BY <3>2, <3>3, FollowsInTile DEF z
    <2>4. QED
      BY <1>1, <2>1, <2>2, <2>3
  <1>6. ASSUME L + m < len
        PROVE  \E h \in Nat : /\ q[L + m] = <<<<h, c>>, CarryChain[x][CarrySize]>>
                              /\ h >= lo
                              /\ \A r \in lo..(h - 1) : <<r, c>> \notin Tile
    <2>1. m = CarrySize /\ m \in 1..m /\ CarrySize \in 1..CarrySize
      BY <1>1, <1>6
    <2>2. q[L + m] = <<<<lo, c>>, CarryChain[x][CarrySize]>>
      BY <1>1, <1>2, <2>1
    <2>3. \A r \in lo..(lo - 1) : <<r, c>> \notin Tile
      OBVIOUS
    <2>4. QED
      BY <2>2, <2>3
  <1>7. QED
    BY <1>1, <1>4, <1>5, <1>6 DEF Risen

(* No slots, as long as nothing is placed. *)
LEMMA RisenNone ==
  ASSUME NEW c, NEW x, NEW len \in Nat, NEW lo
  PROVE  Risen(<<>>, c, x, len, lo)
  <1>1. Len(<<>>) = 0
    OBVIOUS
  <1>2. QED
    BY <1>1 DEF Risen

(* The slots a chain is moved to follow each other. *)
LEMMA ClimbRises ==
  ASSUME DeviceFits, ChainsFit, NEW len \in Nat, NEW r \in 0..(Rows - 1), NEW c, NEW x \in CarryIndex,
         NEW g, IsClimb(g, len, r, c, (x - 1) * CarrySize)
  PROVE  Risen(g[r + 1], c, x, len, 0)
  <1> DEFINE z == (x - 1) * CarrySize
             S == {k \in 0..(r + 1) : Risen(g[k], c, x, len, r - k + 1)}
  <1>1. r \in Nat /\ r + 1 \in Nat /\ CarrySize \in Nat \ {0} /\ z \in Nat
    BY ChainSlots DEF DeviceFits
  <1> HIDE DEF z
  <1>2. 0 \in S
    <2>1. g[0] = <<>>
      BY DEF IsClimb
    <2>2. Risen(g[0], c, x, len, r - 0 + 1)
      BY <2>1, RisenNone
    <2>3. QED
      BY <1>1, <2>2
  <1>3. ASSUME NEW k \in 1..(r + 1), k - 1 \in S
        PROVE  k \in S
    <2> DEFINE lo == r - k + 1
    <2>1. lo \in Nat /\ r - (k - 1) + 1 = lo + 1 /\ k \in 0..(r + 1)
      BY <1>1
    <2>2. Risen(g[k - 1], c, x, len, lo + 1)
      BY <1>3, <2>1
    <2>3. CASE <<lo, c>> \notin Tile
      <3>1. g[k] = g[k - 1]
        BY <1>1, <2>3, ClimbStep DEF z
      <3> HIDE DEF lo
      <3>2. Risen(g[k], c, x, len, lo)
        BY <2>1, <2>2, <2>3, <3>1, RisenBare
      <3>3. QED
        BY <2>1, <3>2 DEF lo
    <2>4. CASE <<lo, c>> \in Tile
      <3>1. PICK m \in 0..CarrySize :
               /\ Longer(g[k - 1], g[k], <<lo, c>>, z, m)
               /\ m = IF CarrySize <= len - Len(g[k - 1]) THEN CarrySize ELSE len - Len(g[k - 1])
        BY <1>1, <2>4, ClimbStep DEF z
      <3> HIDE DEF lo
      <3>2. /\ Len(g[k - 1]) \in Nat /\ Len(g[k - 1]) <= len /\ m \in Nat
            /\ Len(g[k]) = Len(g[k - 1]) + m
        BY <2>2, <3>1 DEF Risen, Longer
      <3>3. CASE Len(g[k - 1]) = len
        <4>1. m = 0 /\ Len(g[k]) = len
          BY <1>1, <3>1, <3>2, <3>3
        <4>2. \A j \in 1..len : g[k][j] = g[k - 1][j]
          BY <3>1, <3>3 DEF Longer
        <4>3. \A j \in 1..(len - 1) : P!Follows(x, g[k][j], g[k][j + 1])
          <5> TAKE j \in 1..(len - 1)
          <5>1. j \in 1..len /\ j + 1 \in 1..len
            OBVIOUS
          <5>2. P!Follows(x, g[k - 1][j], g[k - 1][j + 1])
            BY <2>2, <3>3 DEF Risen
          <5>3. QED
            BY <4>2, <5>1, <5>2
        <4>4. len > 0 => g[k][1][2] = CarryChain[x][1]
          <5> HAVE len > 0
          <5>1. 1 \in 1..len
            OBVIOUS
          <5>2. QED
            BY <2>2, <3>3, <4>2, <5>1 DEF Risen
        <4>5. Risen(g[k], c, x, len, lo)
          BY <4>1, <4>3, <4>4 DEF Risen
        <4>6. QED
          BY <2>1, <4>5 DEF lo
      <3>4. CASE Len(g[k - 1]) < len
        <4>1. m \in 1..CarrySize /\ Len(g[k]) <= len /\ (Len(g[k]) < len => m = CarrySize)
          <5>1. CASE CarrySize <= len - Len(g[k - 1])
            <6>1. m = CarrySize
              BY <3>1, <5>1
            <6>2. QED
              BY <1>1, <3>2, <5>1, <6>1
          <5>2. CASE ~(CarrySize <= len - Len(g[k - 1]))
            <6>1. m = len - Len(g[k - 1])
              BY <3>1, <5>2
            <6>2. QED
              BY <1>1, <3>2, <3>4, <6>1
          <5>3. QED
            BY <5>1, <5>2
        <4>2. Risen(g[k], c, x, len, lo)
          BY <2>1, <2>2, <3>1, <3>4, <4>1, RisenLonger DEF z
        <4>3. QED
          BY <2>1, <4>2 DEF lo
      <3>5. QED
        BY <3>2, <3>3, <3>4
    <2>5. QED
      BY <2>3, <2>4
  <1>4. r + 1 \in S
    <2> HIDE DEF S
    <2>1. 0..(r + 1) \subseteq S
      BY <1>1, <1>2, <1>3, BoundedInduction
    <2>2. QED
      BY <1>1, <2>1
  <1>5. Risen(g[r + 1], c, x, len, r - (r + 1) + 1) /\ r - (r + 1) + 1 = 0
    BY <1>1, <1>4
  <1>6. QED
    BY <1>5

(* So do those it is first put on. *)
LEMMA RunStepRises ==
  ASSUME DeviceFits, ChainsFit, NEW len \in Nat, NEW lo \in Nat, NEW c, NEW s, s \in Seq(Pos),
         Risen(s, c, 1, len, lo + 1)
  PROVE  Risen(RunUp(s, c, len, lo), c, 1, len, lo)
  <1> DEFINE q == RunUp(s, c, len, lo)
             t == <<lo, c>>
             f == FreeIn(lo, c)
  <1>1. /\ f \in 0..CarrySize /\ CarrySize \in Nat \ {0} /\ 1 \in CarryIndex
        /\ Len(s) \in Nat /\ Len(s) <= len
    BY FreeInFits DEF Risen, DeviceFits
  <1>2. (1 - 1) * CarrySize = 0
    BY <1>1
  <1> HIDE DEF f
  <1>3. ASSUME t \in Tile, Len(s) < len, NEW m \in 1..CarrySize, m <= f, q = s \o InitCells(lo, c, m),
               Len(s) + m <= len, Len(s) + m < len => m = CarrySize
        PROVE  Risen(q, c, 1, len, lo)
    <2>1. m \in 0..f /\ m \in Nat
      BY <1>1, <1>3
    <2>2. /\ InitCells(lo, c, m) \in Seq(Pos) /\ Len(InitCells(lo, c, m)) = m
          /\ \A j \in 1..m : InitCells(lo, c, m)[j][1] = t /\ InitCells(lo, c, m)[j][2] = j - 1
                             /\ InitCells(lo, c, m)[j] \in Pos
      BY <1>3, <2>1, InitCellsFit DEF f
    <2>3. PICK e : e = InitCells(lo, c, m)
      OBVIOUS
    <2>4. e \in [1..m -> Pos] /\ \A j \in 1..m : e[j] = <<t, j - 1>>
      <3>1. e \in [1..m -> Pos]
        BY <2>2, <2>3
      <3>2. \A j \in 1..m : e[j][1] = t /\ e[j][2] = j - 1 /\ e[j] \in Pos
        BY <2>2, <2>3
      <3>3. \A p \in Pos : p = <<p[1], p[2]>>
        BY DEF Pos
      <3>4. QED
        BY <3>1, <3>2, <3>3
    <2>5. /\ Len(q) = Len(s) + m
          /\ \A j \in 1..Len(s) : q[j] = s[j]
          /\ \A j \in 1..m : q[Len(s) + j] = e[j]
      <3>1. q = s \o e
        BY <1>3, <2>3
      <3> HIDE DEF q
      <3>2. Len(s \o e) = Len(s) + m
        BY <2>1, <2>4, Lengthened
      <3>3. \A j \in 1..Len(s) : (s \o e)[j] = s[j]
        BY <2>1, <2>4, Lengthened
      <3>4. \A j \in 1..m : (s \o e)[Len(s) + j] = e[j]
        BY <2>1, <2>4, Lengthened
      <3>5. QED
        BY <3>1, <3>2, <3>3, <3>4
    <2> HIDE DEF q
    <2>6. Longer(s, q, t, (1 - 1) * CarrySize, m)
      <3>1. \A j \in 1..m : q[Len(s) + j] = <<t, 0 + j - 1>>
        <4> TAKE j \in 1..m
        <4>1. 0 + j - 1 = j - 1
          BY <2>1
        <4>2. QED
          BY <2>4, <2>5, <4>1
      <3>2. QED
        BY <1>1, <1>2, <2>1, <2>5, <3>1 DEF Longer
    <2>7. Len(q) <= len /\ (Len(q) < len => m = CarrySize)
      BY <1>3, <2>5
    <2>8. QED
      BY <1>1, <1>3, <2>6, <2>7, RisenLonger
  <1>4. CASE t \notin Tile
    <2>1. q = s
      BY <1>4 DEF RunUp
    <2>2. QED
      BY <1>4, <2>1, RisenBare
  <1>5. CASE t \in Tile /\ Len(s) >= len
    <2>1. q = s /\ Len(s) = len
      BY <1>1, <1>5 DEF RunUp
    <2> HIDE DEF q
    <2>2. Risen(s, c, 1, len, lo)
      BY <2>1 DEF Risen
    <2>3. QED
      BY <2>1, <2>2 DEF q
  <1>6. CASE t \in Tile /\ Len(s) < len /\ Len(s) + f >= len
    <2>1. q = s \o InitCells(lo, c, len - Len(s))
      BY <1>1, <1>6 DEF RunUp, f
    <2>2. len - Len(s) \in 1..CarrySize /\ len - Len(s) <= f /\ Len(s) + (len - Len(s)) = len
      BY <1>1, <1>6
    <2> HIDE DEF q
    <2>3. QED
      BY <1>3, <1>6, <2>1, <2>2 DEF q
  <1>7. CASE t \in Tile /\ Len(s) < len /\ ~(Len(s) + f >= len)
    <2>1. CASE f = CarrySize
      <3>1. q = s \o InitCells(lo, c, f)
        BY <1>1, <1>7, <2>1 DEF RunUp, f
      <3>2. f \in 1..CarrySize /\ f <= f /\ Len(s) + f <= len
        BY <1>1, <1>7, <2>1
      <3> HIDE DEF q
      <3>3. QED
        BY <1>3, <1>7, <2>1, <3>1, <3>2 DEF q
    <2>2. CASE f # CarrySize
      <3>1. q = <<>>
        BY <1>1, <1>7, <2>2 DEF RunUp, f
      <3>2. QED
        BY <3>1, RisenNone
    <2>3. QED
      BY <2>1, <2>2
  <1>8. QED
    BY <1>1, <1>4, <1>5, <1>6, <1>7

(* A whole run. *)
LEMMA InitRunRises ==
  ASSUME DeviceFits, ChainsFit, NEW len \in Nat, NEW c, NEW ps, ps = InitRun(c, len), ps # <<>>
  PROVE  Risen(ps, c, 1, len, 0)
  <1> DEFINE N == BotRow + 1
  <1>1. BotRow \in Nat /\ N \in Nat
    BY DEF DeviceFits
  <1>2. PICK h : IsRun(h, c, len) /\ ps = h[N] /\ Len(ps) = len
    BY InitRunSteps
  <1> DEFINE S == {k \in 0..N : h[k] \in Seq(Pos) /\ Risen(h[k], c, 1, len, BotRow - k + 1)}
  <1>3. 0 \in S
    <2>1. h[0] = <<>> /\ <<>> \in Seq(Pos)
      BY <1>2 DEF IsRun
    <2>2. Risen(h[0], c, 1, len, BotRow - 0 + 1)
      BY <2>1, RisenNone
    <2>3. 0 \in 0..N
      BY <1>1
    <2>4. QED
      BY <2>1, <2>2, <2>3
  <1>4. ASSUME NEW k \in 1..N, k - 1 \in S
        PROVE  k \in S
    <2> DEFINE lo == BotRow - k + 1
    <2>1. lo \in Nat /\ BotRow - (k - 1) + 1 = lo + 1 /\ k \in 0..N
      BY <1>1
    <2>2. h[k - 1] \in Seq(Pos) /\ Risen(h[k - 1], c, 1, len, lo + 1)
      BY <1>4, <2>1
    <2>3. h[k] = RunUp(h[k - 1], c, len, lo)
      BY <1>2 DEF IsRun
    <2> HIDE DEF lo
    <2>4. h[k] \in Seq(Pos)
      BY <2>2, <2>3, RunUpFits
    <2>5. Risen(h[k], c, 1, len, lo)
      BY <2>1, <2>2, <2>3, RunStepRises
    <2>6. QED
      BY <2>1, <2>4, <2>5 DEF lo
  <1>5. N \in S
    <2> HIDE DEF S, N
    <2>1. 0..N \subseteq S
      BY <1>1, <1>3, <1>4, BoundedInduction
    <2>2. QED
      BY <1>1, <2>1
  <1>6. Risen(h[N], c, 1, len, BotRow - N + 1) /\ BotRow - N + 1 = 0
    BY <1>1, <1>5
  <1>7. QED
    BY <1>2, <1>6
-----------------------------------------------------------------------------
IsMember(i) == \E o \in DOMAIN nl.objects : i \in ElemsOf(InstsOf(o))

(* The pins of a net that make a chain or a pair are, of each kind, those   *)
(* of one instance: inference reads the first of them.                     *)
PlainNets ==
    \A n \in DOMAIN nl.nets :
        /\ DOMAIN nl.nets[n].pins \subseteq Nat
        /\ \A name \in {"COUT", "CIN"} : \A j, k \in Named(nl.nets[n], name) :
             nl.nets[n].pins[j].inst = nl.nets[n].pins[k].inst

(* The swap objects are what the nets ask for: all instances that no       *)
(* constraint holds are in them, the ends of an F5 net are a pair, those of *)
(* a carry net neighbours in a chain, which begins where no net leads to.  *)
Mirrored ==
    /\ P!Used \subseteq Inst /\ DOMAIN nl.cst \subseteq P!Used
    /\ \A i \in Inst : IsFixed(i) \/ (i \in P!Used <=> IsMember(i))
    /\ \A c \in P!Pairs : \E o \in DOMAIN nl.objects : TypeOf(o) = "LUT6" /\ InstsOf(o) = <<c[1], c[2]>>
    /\ \A c \in P!Carries :
         \/ IsFixed(c[1])
         \/ \E o \in ChainObjects : \E k \in 1..(Len(InstsOf(o)) - 1) :
              /\ InstsOf(o)[k] = c[1] /\ InstsOf(o)[k + 1] = c[2]
              /\ (\A b \in P!Carries : b[2] # c[1]) => k = 1

(* The carry nets that inference follows are those of the design.          *)
LEMMA CarriesAre ==
  ASSUME PlainNets
  PROVE  /\ \A k \in CarryNets(nl) : <<CoutOf(nl, k), CinOf(nl, k)>> \in P!Carries
         /\ \A c \in P!Carries : \E k \in CarryNets(nl) : CoutOf(nl, k) = c[1] /\ CinOf(nl, k) = c[2]
  <1>1. ASSUME NEW k \in DOMAIN nl.nets, NEW name, Named(nl.nets[k], name) # {}
        PROVE  \E j \in Named(nl.nets[k], name) : Owner(nl.nets[k], name) = nl.nets[k].pins[j].inst
    <2>1. Named(nl.nets[k], name) \subseteq Nat
      BY DEF Named, PlainNets
    <2>2. Lowest(Named(nl.nets[k], name)) \in Named(nl.nets[k], name)
      BY <1>1, <2>1, LowestFits
    <2>3. QED
      BY <2>2 DEF Owner
  <1>2. ASSUME NEW k \in CarryNets(nl)
        PROVE  <<CoutOf(nl, k), CinOf(nl, k)>> \in P!Carries
    <2>1. k \in DOMAIN nl.nets /\ Named(nl.nets[k], "COUT") # {} /\ Named(nl.nets[k], "CIN") # {}
      BY DEF CarryNets, Joins
    <2>2. PICK i \in Named(nl.nets[k], "COUT") : CoutOf(nl, k) = nl.nets[k].pins[i].inst
      BY <1>1, <2>1 DEF CoutOf
    <2>3. PICK j \in Named(nl.nets[k], "CIN") : CinOf(nl, k) = nl.nets[k].pins[j].inst
      BY <1>1, <2>1 DEF CinOf
    <2>4. nl.nets[k].pins[i] \in P!PinsOf(nl.nets[k], "COUT") /\ nl.nets[k].pins[j] \in P!PinsOf(nl.nets[k], "CIN")
      BY DEF P!PinsOf, Named
    <2>5. QED
      BY <2>1, <2>2, <2>3, <2>4 DEF P!Carries, P!Joined
  <1>3. ASSUME NEW c \in P!Carries
        PROVE  \E k \in CarryNets(nl) : CoutOf(nl, k) = c[1] /\ CinOf(nl, k) = c[2]
    <2>1. PICK k \in DOMAIN nl.nets : \E p \in P!PinsOf(nl.nets[k], "COUT"), q \in P!PinsOf(nl.nets[k], "CIN") :
                                         c = <<p.inst, q.inst>>
      BY DEF P!Carries, P!Joined
    <2>2. PICK p \in P!PinsOf(nl.nets[k], "COUT"), q \in P!PinsOf(nl.nets[k], "CIN") : c = <<p.inst, q.inst>>
      BY <2>1
    <2>3. PICK i \in Named(nl.nets[k], "COUT") : p = nl.nets[k].pins[i]
      BY DEF P!PinsOf, Named
    <2>4. PICK j \in Named(nl.nets[k], "CIN") : q = nl.nets[k].pins[j]
      BY DEF P!PinsOf, Named
    <2>5. k \in CarryNets(nl)
      BY <2>3, <2>4 DEF CarryNets, Joins
    <2>6. CoutOf(nl, k) = p.inst
      <3>1. PICK l \in Named(nl.nets[k], "COUT") : CoutOf(nl, k) = nl.nets[k].pins[l].inst
        BY <1>1, <2>3 DEF CoutOf
      <3>2. QED
        BY <2>3, <3>1 DEF PlainNets
    <2>7. CinOf(nl, k) = q.inst
      <3>1. PICK l \in Named(nl.nets[k], "CIN") : CinOf(nl, k) = nl.nets[k].pins[l].inst
        BY <1>1, <2>4 DEF CinOf
      <3>2. QED
        BY <2>4, <3>1 DEF PlainNets
    <2>8. QED
      BY <2>2, <2>5, <2>6, <2>7
  <1>4. QED
    BY <1>2, <1>3

(* What a design that is tidy means for its nets.                          *)
LEMMA PlainFits ==
  ASSUME NEW d, TidyNets(d), nl = Prepared(d)
  PROVE  PlainNets
  <1> DEFINE R == [pins : Seq([inst : ElemsOf(d.insts), name : STRING, source : BOOLEAN]),
                   type : STRING, port : BOOLEAN]
             Q == [inst : ElemsOf(d.insts), name : STRING, source : BOOLEAN]
  <1>1. nl.nets = d.nets
    BY DEF Prepared
  <1>2. d.nets \in Seq(R)
    BY DEF TidyNets
  <1>3. ASSUME NEW n \in DOMAIN d.nets
        PROVE  /\ DOMAIN d.nets[n].pins \subseteq Nat
               /\ \A name \in {"COUT", "CIN"} : \A j, k \in Named(d.nets[n], name) :
                    d.nets[n].pins[j].inst = d.nets[n].pins[k].inst
    <2>1. d.nets[n] \in R
      <3> HIDE DEF R
      <3> QED
        BY <1>2
    <2>2. d.nets[n].pins \in Seq(Q)
      <3>1. R = [pins : Seq(Q), type : STRING, port : BOOLEAN]
        OBVIOUS
      <3> HIDE DEF Q, R
      <3>2. QED
        BY <2>1, <3>1
    <2>3. DOMAIN d.nets[n].pins \subseteq Nat
      <3> HIDE DEF Q
      <3> QED
        BY <2>2
    <2>4. d.nets[n] \in ElemsOf(d.nets)
      BY DEF ElemsOf
    <2>5. QED
      BY <2>3, <2>4 DEF TidyNets
  <1>4. QED
    BY <1>1, <1>3 DEF PlainNets

(* Every chain, pair and single slice that inference finds is an object.   *)
LEMMA GroupListed ==
  ASSUME NEW d, TidyNets(d), nl = Prepared(d), NEW type \in Kinds, NEW k \in DOMAIN GroupsOf(d, type)
  PROVE  \E o \in DOMAIN nl.objects : TypeOf(o) = type /\ InstsOf(o) = GroupsOf(d, type)[k]
  <1> DEFINE G(kind) == GroupsOf(d, kind)
  <1>0. nl.cst = d.cst /\ nl.objects = Objects(d)
    BY DEF Prepared
  <1> HIDE DEF G
  <1>1. /\ Before(d, type) + k \in DOMAIN Objects(d)
        /\ Objects(d)[Before(d, type) + k] = [type |-> type, insts |-> G(type)[k]]
    BY ObjectsAre DEF G
  <1>2. PICK o : o = Before(d, type) + k
    OBVIOUS
  <1>3. o \in DOMAIN nl.objects /\ nl.objects[o] = [type |-> type, insts |-> G(type)[k]]
    BY <1>1, <1>2, <1>0
  <1>4. TypeOf(o) = type /\ InstsOf(o) = G(type)[k]
    BY <1>3 DEF TypeOf, InstsOf
  <1>5. QED
    BY <1>3, <1>4 DEF G

(* Its members are the instances that no constraint holds.                 *)
LEMMA MembersAre ==
  ASSUME NEW d, TidyNets(d), nl = Prepared(d), NEW i \in Inst
  PROVE  IsFixed(i) \/ (i \in ElemsOf(d.insts) <=> IsMember(i))
  <1> DEFINE used == ElemsOf(d.insts)
             G(type) == GroupsOf(d, type)
  <1>0. nl.cst = d.cst /\ nl.objects = Objects(d)
    BY DEF Prepared
  <1> HIDE DEF G
  <1>1. ASSUME IsMember(i)
        PROVE  i \in used
    <2>1. PICK o \in DOMAIN Objects(d) : i \in ElemsOf(Objects(d)[o].insts)
      BY <1>0, <1>1 DEF IsMember, InstsOf
    <2>2. PICK type \in Kinds : \E k \in DOMAIN G(type) :
             Objects(d)[o] = [type |-> type, insts |-> G(type)[k]]
      BY ObjectsAre DEF G
    <2>3. PICK k \in DOMAIN G(type) : Objects(d)[o] = [type |-> type, insts |-> G(type)[k]]
      BY <2>2
    <2>4. ProperGroup(d, type, G(type)[k])
      BY GroupsProper DEF G
    <2>5. i \in ElemsOf(G(type)[k])
      BY <2>1, <2>3
    <2>6. QED
      BY <2>4, <2>5 DEF ProperGroup
  <1>2. ASSUME i \in used, ~IsFixed(i)
        PROVE  IsMember(i)
    <2>1. i \notin DOMAIN d.cst
      BY <1>0, <1>2 DEF IsFixed
    <2>2. \E type \in Kinds : \E k \in DOMAIN G(type) : i \in ElemsOf(G(type)[k])
      <3>1. CASE \E k \in DOMAIN Chains(d) : i \in ElemsOf(Chains(d)[k])
        <4>1. G("CARRY_CHAIN") = Chains(d) /\ "CARRY_CHAIN" \in Kinds
          BY DEF G, GroupsOf, Kinds
        <4>2. QED
          BY <3>1, <4>1
      <3>2. CASE \E k \in DOMAIN Pairs(d) : i \in ElemsOf(Pairs(d)[k])
        <4>1. G("LUT6") = Pairs(d) /\ "LUT6" \in Kinds
          BY DEF G, GroupsOf, Kinds
        <4>2. QED
          BY <3>2, <4>1
      <3>3. CASE i \notin Grouped(d)
        <4>1. PICK k \in DOMAIN Singles(d) : Singles(d)[k] = i
          BY <1>2, <2>1, <3>3, SinglesAre 
        <4>2. G("SITE") = [n \in DOMAIN Singles(d) |-> <<Singles(d)[n]>>] /\ "SITE" \in Kinds
          BY DEF G, GroupsOf, Kinds
        <4>3. k \in DOMAIN G("SITE") /\ G("SITE")[k] = <<i>>
          BY <4>1, <4>2
        <4>4. i \in ElemsOf(<<i>>)
          BY DEF ElemsOf
        <4>5. QED
          BY <4>2, <4>3, <4>4
      <3>4. QED
        BY <3>1, <3>2, <3>3 DEF Grouped
    <2>3. PICK type \in Kinds : \E k \in DOMAIN G(type) : i \in ElemsOf(G(type)[k])
      BY <2>2
    <2>4. PICK k \in DOMAIN G(type) : i \in ElemsOf(G(type)[k])
      BY <2>3
    <2>5. PICK o \in DOMAIN nl.objects : InstsOf(o) = G(type)[k]
      BY GroupListed DEF G
    <2>6. QED
      BY <2>4, <2>5 DEF IsMember
  <1>3. QED
    BY <1>1, <1>2

(* Inference finds what the nets ask for: all that is free is in an object, *)
(* every pair and, without a loop, every carry net.                        *)
THEOREM ObjectsMirror ==
  ASSUME NEW d, TidyNets(d), CarriesBegin(d), ~IllegalChain(d), nl = Prepared(d)
  PROVE  Mirrored
  <1> DEFINE used == ElemsOf(d.insts)
             G(type) == GroupsOf(d, type)
  <1>1. nl.nets = d.nets /\ nl.insts = d.insts /\ nl.cst = d.cst /\ nl.objects = Objects(d)
    BY DEF Prepared
  <1>2. P!Used = used /\ used \subseteq Inst /\ DOMAIN d.cst \subseteq used
    BY <1>1 DEF P!Used, ElemsOf, TidyNets
  <1>3. PlainNets
    BY PlainFits
  <1>4. /\ CarryNets(nl) = CarryNets(d)
        /\ \A k : CoutOf(nl, k) = CoutOf(d, k) /\ CinOf(nl, k) = CinOf(d, k)
    BY <1>1 DEF CarryNets, CoutOf, CinOf
  <1> HIDE DEF used, G
  <1>5. ASSUME NEW type \in Kinds, NEW k \in DOMAIN G(type)
        PROVE  \E o \in DOMAIN nl.objects : TypeOf(o) = type /\ InstsOf(o) = G(type)[k]
    BY GroupListed DEF G
  <1>6. ASSUME NEW i \in Inst
        PROVE  IsFixed(i) \/ (i \in used <=> IsMember(i))
    BY MembersAre DEF used
  <1>7. ASSUME NEW c \in P!Pairs
        PROVE  \E o \in DOMAIN nl.objects : TypeOf(o) = "LUT6" /\ InstsOf(o) = <<c[1], c[2]>>
    <2>1. PICK n \in DOMAIN nl.nets : \E p \in P!PinsOf(nl.nets[n], "F5"), q \in P!PinsOf(nl.nets[n], "F5IN") :
                                         c = <<p.inst, q.inst>>
      BY DEF P!Pairs, P!Joined
    <2>2. PICK p \in P!PinsOf(nl.nets[n], "F5"), q \in P!PinsOf(nl.nets[n], "F5IN") : c = <<p.inst, q.inst>>
      BY <2>1
    <2>3. PICK i \in Named(d.nets[n], "F5") : p = d.nets[n].pins[i]
      BY <1>1 DEF P!PinsOf, Named
    <2>4. PICK j \in Named(d.nets[n], "F5IN") : q = d.nets[n].pins[j]
      BY <1>1 DEF P!PinsOf, Named
    <2>5. n \in DOMAIN d.nets /\ d.nets[n] \in ElemsOf(d.nets)
      BY <1>1 DEF ElemsOf
    <2>6. n \in PairNet(d)
      BY <2>3, <2>4, <2>5 DEF PairNet, Joins
    <2>7. p.inst = Owner(d.nets[n], "F5")
      <3>1. PICK l \in Named(d.nets[n], "F5") : Owner(d.nets[n], "F5") = d.nets[n].pins[l].inst
        BY <2>3, <2>5, OwnerFits
      <3>2. d.nets[n].pins[i].inst = d.nets[n].pins[l].inst
        BY <2>5 DEF TidyNets
      <3>3. QED
        BY <2>3, <3>1, <3>2
    <2>8. q.inst = Owner(d.nets[n], "F5IN")
      <3>1. PICK l \in Named(d.nets[n], "F5IN") : Owner(d.nets[n], "F5IN") = d.nets[n].pins[l].inst
        BY <2>4, <2>5, OwnerFits
      <3>2. d.nets[n].pins[j].inst = d.nets[n].pins[l].inst
        BY <2>5 DEF TidyNets
      <3>3. QED
        BY <2>4, <3>1, <3>2
    <2>9. Ends(d, n) = <<c[1], c[2]>>
      BY <2>2, <2>7, <2>8 DEF Ends
    <2>10. PICK k \in DOMAIN Pairs(d) : Pairs(d)[k] = Ends(d, n)
      BY <2>6, PairsAre
    <2>11. G("LUT6") = Pairs(d) /\ "LUT6" \in Kinds
      BY DEF G, GroupsOf, Kinds
    <2>12. PICK o \in DOMAIN nl.objects : TypeOf(o) = "LUT6" /\ InstsOf(o) = G("LUT6")[k]
      BY <1>5, <2>10, <2>11
    <2>13. QED
      BY <2>9, <2>10, <2>11, <2>12
  <1>8. ASSUME NEW c \in P!Carries, ~IsFixed(c[1])
        PROVE  \E o \in ChainObjects : \E k \in 1..(Len(InstsOf(o)) - 1) :
                 /\ InstsOf(o)[k] = c[1] /\ InstsOf(o)[k + 1] = c[2]
                 /\ (\A b \in P!Carries : b[2] # c[1]) => k = 1
    <2>1. PICK n \in CarryNets(d) : CoutOf(d, n) = c[1] /\ CinOf(d, n) = c[2]
      BY <1>3, <1>4, CarriesAre
    <2>2. n \in ChainNets(d)
      <3>1. ~IsCst(d, CoutOf(d, n))
        BY <1>1, <1>8, <2>1 DEF IsFixed, IsCst
      <3>2. ~IsCst(d, CinOf(d, n))
        BY <3>1 DEF IllegalChain
      <3>3. QED
        BY <3>1, <3>2 DEF ChainNets
    <2>3. PICK u, v : u = c[1] /\ v = c[2]
      OBVIOUS
    <2>4. u \in Nodes(d) /\ u \in DOMAIN ToEdge(d) /\ ToEdge(d)[u] = v
      BY <2>1, <2>2, <2>3, NodesFit, EdgesFit
    <2>5. PICK s \in Starts(d) : \E j \in 1..Len(ChainFrom(d, s)) : ChainFrom(d, s)[j] = u
      BY <2>4, ChainsCover
    <2>6. PICK g : g = ChainFrom(d, s)
      OBVIOUS
    <2>7. PICK j \in 1..Len(g) : g[j] = u
      BY <2>5, <2>6
    <2>8. Trail(d, g, s) /\ g[Len(g)] \notin DOMAIN ToEdge(d)
      BY <2>6, ChainFromFits
    <2>9. Len(g) \in Nat /\ \A k \in 1..(Len(g) - 1) : g[k + 1] = ToEdge(d)[g[k]]
      BY <2>8 DEF Trail
    <2>10. j # Len(g)
      BY <2>4, <2>7, <2>8
    <2>11. j \in 1..(Len(g) - 1) /\ g[j + 1] = v
      BY <2>4, <2>7, <2>9, <2>10
    <2>12. ASSUME \A b \in P!Carries : b[2] # u
           PROVE  j = 1
      <3>1. \A k \in ChainNets(d) : CinOf(d, k) # u
        <4> TAKE k \in ChainNets(d)
        <4>1. k \in CarryNets(nl)
          BY <1>4 DEF ChainNets
        <4>2. <<CoutOf(nl, k), CinOf(nl, k)>> \in P!Carries
          BY <1>3, <4>1, CarriesAre
        <4>3. PICK b \in P!Carries : b[2] = CinOf(d, k)
          BY <1>4, <4>2
        <4>4. QED
          BY <2>12, <4>3
      <3>2. u \in Starts(d)
        BY <2>4, <3>1 DEF Starts
      <3>3. PICK h : h = ChainFrom(d, u)
        OBVIOUS
      <3>4. Trail(d, h, u)
        BY <3>2, <3>3, ChainFromFits
      <3>5. 1 \in 1..Len(h) /\ h[1] = u
        BY <3>4 DEF Trail
      <3>6. h[1] = g[j]
        BY <2>7, <3>5
      <3>7. 1 = j
        BY <2>7, <2>8, <3>2, <3>4, <3>5, <3>6, TrailsMeet
      <3>8. QED
        BY <3>7
    <2>13. PICK x \in DOMAIN Chains(d) : Chains(d)[x] = g
      BY <2>6, ChainsAre
    <2>14. G("CARRY_CHAIN") = Chains(d) /\ "CARRY_CHAIN" \in Kinds
      BY DEF G, GroupsOf, Kinds
    <2>15. PICK o \in DOMAIN nl.objects : TypeOf(o) = "CARRY_CHAIN" /\ InstsOf(o) = G("CARRY_CHAIN")[x]
      BY <1>5, <2>13, <2>14
    <2>16. o \in ChainObjects /\ InstsOf(o) = g
      BY <2>13, <2>14, <2>15 DEF ChainObjects
    <2>17. /\ j \in 1..(Len(InstsOf(o)) - 1) /\ InstsOf(o)[j] = c[1] /\ InstsOf(o)[j + 1] = c[2]
           /\ (\A b \in P!Carries : b[2] # c[1]) => j = 1
      BY <2>3, <2>7, <2>11, <2>12, <2>16
    <2>18. QED
      BY <2>16, <2>17
  <1>9. QED
    BY <1>1, <1>2, <1>6, <1>7, <1>8 DEF Mirrored

(* The constraints can be met just when no ASSERT fires.                   *)
LEMMA FeasibleIs ==
  ASSUME PlainNets
  PROVE  P!Feasible <=> ~IsIllegal
  <1>1. P!Pos = nl.device.tiles \X (0..(nl.device.slices - 1)) /\ P!Constrained = DOMAIN nl.cst
    BY DEF P!Pos, P!Tile, P!Constrained
  <1>3. \A k \in CarryNets(nl) : <<CoutOf(nl, k), CinOf(nl, k)>> \in P!Carries
    BY CarriesAre
  <1>4. \A c \in P!Carries : \E k \in CarryNets(nl) : CoutOf(nl, k) = c[1] /\ CinOf(nl, k) = c[2]
    BY CarriesAre
  <1>5. IllegalChain(nl) <=> \E c \in P!Carries : ~(c[1] \in P!Constrained <=> c[2] \in P!Constrained)
    <2>1. ASSUME IllegalChain(nl)
          PROVE  \E c \in P!Carries : ~(c[1] \in P!Constrained <=> c[2] \in P!Constrained)
      <3>1. PICK k \in CarryNets(nl) : IsCst(nl, CoutOf(nl, k)) # IsCst(nl, CinOf(nl, k))
        BY <2>1 DEF IllegalChain
      <3>2. PICK c : c = <<CoutOf(nl, k), CinOf(nl, k)>>
        OBVIOUS
      <3>3. c \in P!Carries /\ c[1] = CoutOf(nl, k) /\ c[2] = CinOf(nl, k)
        BY <1>3, <3>2
      <3>4. ~(c[1] \in P!Constrained <=> c[2] \in P!Constrained)
        <4>1. (c[1] \in DOMAIN nl.cst) # (c[2] \in DOMAIN nl.cst)
          BY <3>1, <3>3 DEF IsCst
        <4>2. QED
          BY <1>1, <4>1
      <3>5. QED
        BY <3>3, <3>4
    <2>2. ASSUME NEW c \in P!Carries, ~(c[1] \in P!Constrained <=> c[2] \in P!Constrained)
          PROVE  IllegalChain(nl)
      <3>1. PICK k \in CarryNets(nl) : CoutOf(nl, k) = c[1] /\ CinOf(nl, k) = c[2]
        BY <1>4
      <3>2. IsCst(nl, CoutOf(nl, k)) # IsCst(nl, CinOf(nl, k))
        BY <1>1, <2>2, <3>1, Zenon DEF IsCst
      <3>3. QED
        BY <3>2 DEF IllegalChain
    <2>3. QED
      BY <2>1, <2>2
  <1>6. IllegalConstraint(nl) <=>
          \/ \E i \in P!Constrained : nl.cst[i] \notin P!Pos
          \/ \E i, j \in P!Constrained : i # j /\ nl.cst[i] = nl.cst[j]
    BY <1>1 DEF IllegalConstraint
  <1>7. QED
    BY <1>5, <1>6 DEF P!Feasible, IsIllegal
-----------------------------------------------------------------------------
(* A chain lies along carry chain x, from its first slot in a tile.        *)
InRow(x, is, pl) ==
    /\ pl[is[1]][2] = CarryChain[x][1]
    /\ \A k \in 1..(Len(is) - 1) : P!Follows(x, pl[is[k]], pl[is[k + 1]])

(* The objects before nx that are chains lie along one.                    *)
Shaped(nx, pl) ==
    \A o \in 1..(nx - 1) :
        TypeOf(o) = "CARRY_CHAIN" => \E x \in CarryIndex : InRow(x, InstsOf(o), pl)

(* The constrained instances are where they should be.                     *)
FixedStay(pl) == \A i \in Inst : IsFixed(i) => pl[i] = nl.cst[i]

(* Instances that the design has not stay nowhere.                         *)
Strangers(pl) == \A i \in Inst : ~IsFixed(i) /\ ~IsMember(i) => pl[i] = NULL

Lawful(nx, pl) == Shaped(nx, pl) /\ FixedStay(pl) /\ Strangers(pl)

(* The members of a chain that do not move stay in their row.              *)
LEMMA RowStays ==
  ASSUME ObjectsFit, NEW o \in DOMAIN nl.objects, NEW pl, NEW po, NEW x, InRow(x, InstsOf(o), pl),
         \A k \in 1..Len(InstsOf(o)) : po[InstsOf(o)[k]] = pl[InstsOf(o)[k]]
  PROVE  InRow(x, InstsOf(o), po)
  <1>1. Len(InstsOf(o)) \in Nat \ {0} /\ 1 \in 1..Len(InstsOf(o))
    BY MembersFit
  <1>2. PICK is : is = InstsOf(o)
    OBVIOUS
  <1>3. PICK len \in Nat : len = Len(is) /\ 1 \in 1..len
    BY <1>1, <1>2
  <1>4. \A k \in 1..len : po[is[k]] = pl[is[k]]
    BY <1>2, <1>3
  <1>5. InRow(x, is, pl)
    BY <1>2
  <1>6. \A k \in 1..(len - 1) : k \in 1..len /\ k + 1 \in 1..len
    BY <1>3
  <1>7. InRow(x, is, po)
    <2>1. po[is[1]][2] = CarryChain[x][1]
      BY <1>4, <1>5, <1>3 DEF InRow
    <2>2. ASSUME NEW k \in 1..(Len(is) - 1)
          PROVE  P!Follows(x, po[is[k]], po[is[k + 1]])
      <3>1. po[is[k]] = pl[is[k]] /\ po[is[k + 1]] = pl[is[k + 1]]
        BY <1>4, <1>6, <1>3
      <3>2. P!Follows(x, pl[is[k]], pl[is[k + 1]])
        BY <1>5 DEF InRow
      <3>3. QED
        BY <3>1, <3>2
    <2>3. QED
      BY <2>1, <2>2 DEF InRow
  <1>8. QED
    BY <1>2, <1>7

(* An exchange moves no constrained instance and, of the chains, no other  *)
(* than the members of object o.                                           *)
Spares(ex, o) ==
    \A k \in DOMAIN ex : \A i \in {ex[k].from, ex[k].to} \ {NULL} :
        /\ ~IsFixed(i)
        /\ SwapType(i) = "CARRY_CHAIN" => i \in ElemsOf(InstsOf(o))

(* What an exchange moved, and where it was. *)
LEMMA MovedWas ==
  ASSUME DeviceFits, NEW n, NEW ex, Exchangeable(n, ex), NEW pl, NEW po, MovedBy(n, ex, pl, po),
         NEW i \in Inst, po[i] # pl[i]
  PROVE  /\ \E k \in DOMAIN ex : i \in {ex[k].from, ex[k].to}
         /\ i # NULL => pl[i] \in Pos
  <1>1. PICK k \in 1..n : ex[k].from = i \/ ex[k].to = i
    BY DEF MovedBy
  <1>2. k \in DOMAIN ex /\ ex[k].a \in Pos /\ ex[k].b \in Pos
    BY DEF Exchangeable
  <1>3. i # NULL => pl[i] = ex[k].a \/ pl[i] = ex[k].b
    BY <1>1 DEF MovedBy
  <1>4. QED
    BY <1>1, <1>2, <1>3

(* Such an exchange leaves the constrained instances, the others of the    *)
(* netlist and the other chains alone.                                     *)
LEMMA SparedLawful ==
  ASSUME DeviceFits, ObjectsFit, NullAssumption, NEW n, NEW ex, Exchangeable(n, ex),
         NEW pl, NEW po, MovedBy(n, ex, pl, po), NEW o \in DOMAIN nl.objects, Spares(ex, o),
         NEW nx, nx = Len(nl.objects) + 1, Lawful(nx, pl),
         TypeOf(o) = "CARRY_CHAIN" => \E x \in CarryIndex : InRow(x, InstsOf(o), po)
  PROVE  Lawful(nx, po)
  <1>1. \A i \in Inst : i # NULL
    BY NullAssumption
  <1>2. ASSUME NEW i \in Inst, po[i] # pl[i]
        PROVE  /\ ~IsFixed(i) /\ pl[i] # NULL
               /\ SwapType(i) = "CARRY_CHAIN" => i \in ElemsOf(InstsOf(o))
    <2>1. PICK k \in DOMAIN ex : i \in {ex[k].from, ex[k].to}
      BY <1>2, MovedWas
    <2>2. pl[i] \in Pos
      BY <1>1, <1>2, MovedWas
    <2>3. QED
      BY <1>1, <2>1, <2>2 DEF Spares, DeviceFits
  <1>3. FixedStay(po)
    BY <1>2 DEF Lawful, FixedStay
  <1>4. Strangers(po)
    BY <1>2 DEF Lawful, Strangers
  <1>5. ASSUME NEW u \in 1..(nx - 1), TypeOf(u) = "CARRY_CHAIN"
        PROVE  \E x \in CarryIndex : InRow(x, InstsOf(u), po)
    <2>1. CASE u = o
      BY <1>5, <2>1
    <2>2. CASE u # o
      <3>1. u \in DOMAIN nl.objects
        BY DEF ObjectsFit
      <3>2. PICK x \in CarryIndex : InRow(x, InstsOf(u), pl)
        BY <1>5 DEF Lawful, Shaped
      <3>3. ASSUME NEW k \in 1..Len(InstsOf(u))
            PROVE  po[InstsOf(u)[k]] = pl[InstsOf(u)[k]]
        <4>1. InstsOf(u)[k] \in Inst /\ SwapType(InstsOf(u)[k]) = "CARRY_CHAIN" /\ k \in DOMAIN InstsOf(u)
          BY <1>5, <3>1, MembersFit
        <4>2. InstsOf(u)[k] \in ElemsOf(InstsOf(u))
          BY <4>1 DEF ElemsOf
        <4>3. InstsOf(u)[k] \notin ElemsOf(InstsOf(o))
          BY <2>2, <3>1, <4>2 DEF ObjectsFit
        <4>4. QED
          BY <1>2, <4>1, <4>3
      <3>4. QED
        BY <3>1, <3>2, <3>3, RowStays
    <2>3. QED
      BY <2>1, <2>2
  <1>6. QED
    BY <1>3, <1>4, <1>5 DEF Lawful, Shaped

(* One instance changes places with another one, or goes to a free slot.   *)
LEMMA OneSpares ==
  ASSUME NEW f, NEW t, NEW a, NEW b, NEW o, NEW ex, ex = <<Pair(f, t, a, b)>>,
         f # NULL => ~IsFixed(f) /\ SwapType(f) # "CARRY_CHAIN",
         t # NULL => ~IsFixed(t) /\ SwapType(t) # "CARRY_CHAIN"
  PROVE  Spares(ex, o)
  <1>1. \A k \in DOMAIN ex : ex[k].from = f /\ ex[k].to = t
    BY DEF Pair
  <1>2. QED
    BY <1>1 DEF Spares

(* A whole tile with another one. *)
LEMMA TilesSpare ==
  ASSUME DeviceFits, NEW t \in Tile, NEW u \in Tile, NEW o,
         \A z \in Z : slot[<<t, z>>] # NULL => /\ ~IsFixed(slot[<<t, z>>])
                                              /\ SwapType(slot[<<t, z>>]) # "CARRY_CHAIN",
         \A z \in Z : slot[<<u, z>>] # NULL => /\ ~IsFixed(slot[<<u, z>>])
                                              /\ SwapType(slot[<<u, z>>]) # "CARRY_CHAIN",
         NEW ex, ex = TileExchange(t, u)
  PROVE  Spares(ex, o)
  <1>1. DOMAIN ex = 1..NumSlices /\ NumSlices \in Nat
    BY DEF TileExchange, DeviceFits
  <1>2. ASSUME NEW k \in 1..NumSlices
        PROVE  k - 1 \in Z
    BY <1>1 DEF Z
  <1>3. ASSUME NEW k \in 1..NumSlices
        PROVE  ex[k].from = slot[<<t, k - 1>>] /\ ex[k].to = slot[<<u, k - 1>>]
    BY DEF TileExchange, Pair
  <1>4. ASSUME NEW k \in DOMAIN ex, NEW i \in {ex[k].from, ex[k].to} \ {NULL}
        PROVE  ~IsFixed(i) /\ SwapType(i) # "CARRY_CHAIN"
    <2>1. k \in 1..NumSlices
      BY <1>1
    <2>2. k - 1 \in Z /\ i # NULL /\ (i = slot[<<t, k - 1>>] \/ i = slot[<<u, k - 1>>])
      BY <1>2, <1>3, <2>1
    <2>3. CASE i = slot[<<t, k - 1>>]
      BY <2>2, <2>3
    <2>4. CASE i = slot[<<u, k - 1>>]
      BY <2>2, <2>4
    <2>5. QED
      BY <2>2, <2>3, <2>4
  <1>5. QED
    BY <1>4 DEF Spares

(* The constrained instances of a tile, and those of its chains.           *)
HeldIn(u) == {i \in Occupants(u) : IsFixed(i)}

ChainedIn(u) == {i \in Occupants(u) : ~IsFixed(i) /\ SwapType(i) = "CARRY_CHAIN"}

(* Beside a chain of a tile of two slices there is room for a slice only   *)
(* where no instance is constrained.                                       *)
LEMMA NoneHeld ==
  ASSUME Searching, NumSlices <= 2, NEW u \in Tile, MacroType(u) = "CARRY_CHAIN",
         Cardinality(HeldIn(u)) + Cardinality(ChainedIn(u)) < NumSlices
  PROVE  HeldIn(u) = {}
  <1>1. DeviceFits /\ ObjectsFit /\ NullAssumption /\ Agree(slot, pos)
    BY DEF Searching
  <1>2. IsFiniteSet(Occupants(u))
    BY <1>1, OccupantsCounted
  <1>3. HeldIn(u) \in SUBSET Occupants(u) /\ ChainedIn(u) \in SUBSET Occupants(u)
    BY DEF HeldIn, ChainedIn
  <1>4. IsFiniteSet(HeldIn(u)) /\ IsFiniteSet(ChainedIn(u))
    BY <1>2, <1>3, FS_Subset
  <1>5. Cardinality(HeldIn(u)) \in Nat /\ Cardinality(ChainedIn(u)) \in Nat
    BY <1>4, FS_CardinalityType
  <1>6. ChainedIn(u) # {}
    <2>1. PICK z \in Z : slot[<<u, z>>] # NULL /\ SwapType(slot[<<u, z>>]) = "CARRY_CHAIN"
      BY <1>1, MacroTypeFits
    <2>2. ~IsFixed(slot[<<u, z>>])
      BY <1>1, <2>1, MacroMember
    <2>3. slot[<<u, z>>] \in ChainedIn(u)
      BY <2>1, <2>2 DEF ChainedIn, Occupants
    <2>4. QED
      BY <2>3
  <1>7. Cardinality(ChainedIn(u)) # 0
    BY <1>4, <1>6, FS_EmptySet
  <1>8. Cardinality(HeldIn(u)) = 0
    BY <1>1, <1>5, <1>7 DEF DeviceFits
  <1>9. QED
    BY <1>4, <1>8, FS_EmptySet

(* No single slice meets a constrained one where the count of a tile's     *)
(* slots would hide it.                                                    *)
NoBystander ==
    \/ NumSlices <= 2
    \/ DOMAIN nl.cst = {}
    \/ \A o \in DOMAIN nl.objects : TypeOf(o) # "SITE"

(* What a single slice changes places with. *)
LEMMA SiteSpares ==
  ASSUME Searching, NoBystander, NEW o \in DOMAIN nl.objects, TypeOf(o) = "SITE", NEW u \in Tile,
         SiteVerdict(o, u) = "take", NEW ex \in SiteExchanges(o, u)
  PROVE  Spares(ex, o)
  <1> DEFINE i == InstsOf(o)[1]
             t == BaseTile(o)
  <1>1. /\ DeviceFits /\ ObjectsFit /\ NullAssumption /\ Agree(slot, pos)
        /\ PairsWhole(Len(nl.objects) + 1, pos)
    BY DEF Searching
  <1>2. /\ pos[i] \in Pos /\ slot[pos[i]] = i /\ i # NULL /\ ~IsFixed(i)
        /\ t \in Tile /\ pos[i][1] = t /\ SwapType(i) = "SITE"
    BY <1>1, BaseFits, MembersFit
  <1>3. CASE MacroType(u) = "SITE"
    <2>1. \/ ex = <<Pair(i, NULL, pos[i], <<u, UnoccZ(u)>>)>>
          \/ \E j \in Occupants(u) : ~IsFixed(j) /\ ex = <<Pair(i, j, pos[i], pos[j])>>
      BY <1>3 DEF SiteExchanges
    <2>2. CASE ex = <<Pair(i, NULL, pos[i], <<u, UnoccZ(u)>>)>>
      BY <1>2, <2>2, OneSpares
    <2>3. CASE \E j \in Occupants(u) : ~IsFixed(j) /\ ex = <<Pair(i, j, pos[i], pos[j])>>
      <3>1. PICK j \in Occupants(u) : ~IsFixed(j) /\ ex = <<Pair(i, j, pos[i], pos[j])>>
        BY <2>3
      <3>2. PICK w \in Z : j = slot[<<u, w>>] /\ j # NULL
        BY DEF Occupants
      <3>3. SwapType(j) = "SITE"
        BY <1>1, <1>3, <3>2, MacroTypeFits
      <3>4. QED
        BY <1>2, <3>1, <3>3, OneSpares
    <2>4. QED
      BY <2>1, <2>2, <2>3
  <1>4. CASE MacroType(u) = "LUT6"
    <2>1. ex = TileExchange(t, u)
      BY <1>4 DEF SiteExchanges
    <2>2. PICK w \in Z : slot[<<u, w>>] # NULL /\ SwapType(slot[<<u, w>>]) = "LUT6"
      BY <1>1, <1>4, MacroTypeFits
    <2>3. \A y \in Z : slot[<<u, y>>] # NULL /\ SwapType(slot[<<u, y>>]) = "LUT6"
      BY <1>1, <2>2, PairFills
    <2>4. \A y \in Z : ~IsFixed(slot[<<u, y>>]) /\ SwapType(slot[<<u, y>>]) # "CARRY_CHAIN"
      <3>1. TAKE y \in Z
      <3>2. SwapType(slot[<<u, y>>]) = "LUT6"
        BY <2>3
      <3>3. SwapType(slot[<<u, y>>]) # "SITE" /\ SwapType(slot[<<u, y>>]) # "CARRY_CHAIN"
        BY <3>2
      <3>4. QED
        BY <1>1, <3>3, MacroMember
    <2>5. MacroType(t) # "CARRY_CHAIN" /\ ~HasFixed(t)
      BY <1>4 DEF SiteVerdict
    <2>6. PICK y \in Z : pos[i] = <<t, y>>
      BY <1>2 DEF Pos
    <2>7. ASSUME NEW x \in Z, slot[<<t, x>>] # NULL
          PROVE  ~IsFixed(slot[<<t, x>>]) /\ SwapType(slot[<<t, x>>]) # "CARRY_CHAIN"
      <3>1. slot[<<t, x>>] \in Occupants(t)
        BY <2>7 DEF Occupants
      <3>2. ~IsFixed(slot[<<t, x>>])
        BY <2>5, <3>1 DEF HasFixed
      <3>3. CASE MacroType(t) = "SITE"
        <4>1. SwapType(slot[<<t, x>>]) = "SITE"
          BY <1>1, <2>7, <3>3, MacroTypeFits
        <4>2. QED
          BY <3>2, <4>1
      <3>4. CASE MacroType(t) = "LUT6"
        <4>1. PICK v \in Z : slot[<<t, v>>] # NULL /\ SwapType(slot[<<t, v>>]) = "LUT6"
          BY <1>1, <3>4, MacroTypeFits
        <4>2. SwapType(slot[<<t, y>>]) = "LUT6"
          BY <1>1, <1>2, <4>1, PairFills
        <4>3. QED
          BY <1>2, <2>6, <4>2
      <3>5. QED
        BY <1>1, <2>5, <3>3, <3>4, MacroTypeFits
    <2>8. QED
      BY <1>1, <1>2, <2>1, <2>4, <2>7, TilesSpare
  <1>5. CASE MacroType(u) = "CARRY_CHAIN"
    <2> DEFINE S == {y \in Z : slot[<<u, y>>] = NULL \/ SwapType(slot[<<u, y>>]) # "CARRY_CHAIN"}
               z == Lowest(S)
    <2>1. ex = <<Pair(i, slot[<<u, z>>], pos[i], <<u, z>>)>>
      BY <1>5 DEF SiteExchanges
    <2>2. HeldIn(u) = {}
      <3>1. CASE NumSlices <= 2
        <4>1. Cardinality(HeldIn(u)) + Cardinality(ChainedIn(u)) < NumSlices
          BY <1>5 DEF SiteVerdict, HeldIn, ChainedIn
        <4>2. QED
          BY <1>5, <3>1, <4>1, NoneHeld
      <3>2. CASE DOMAIN nl.cst = {}
        BY <3>2 DEF HeldIn, IsFixed
      <3>3. QED
        BY <3>1, <3>2 DEF NoBystander
    <2>3. S # {}
      <3> SUFFICES ASSUME \A y \in Z : slot[<<u, y>>] # NULL /\ SwapType(slot[<<u, y>>]) = "CARRY_CHAIN"
                   PROVE  FALSE
        OBVIOUS
      <3>1. Cardinality(HeldIn(u)) + Cardinality(ChainedIn(u)) < NumSlices
        BY <1>5 DEF SiteVerdict, HeldIn, ChainedIn
      <3>2. \A j \in Occupants(u) : ~IsFixed(j) /\ SwapType(j) = "CARRY_CHAIN"
        <4>1. \A j \in Occupants(u) : SwapType(j) = "CARRY_CHAIN"
          BY DEF Occupants
        <4>2. QED
          BY <2>2, <4>1 DEF HeldIn
      <3>3. ChainedIn(u) = Occupants(u)
        BY <3>2 DEF ChainedIn
      <3>4. Taken(slot, u) = Z
        BY DEF Taken
      <3>5. Cardinality(Occupants(u)) = NumSlices
        <4>1. Cardinality(Occupants(u)) = Cardinality(Taken(slot, u))
          BY <1>1, OccupantsCounted
        <4>2. Cardinality(Z) = NumSlices
          BY <1>1, TakenFinite
        <4>3. QED
          BY <3>4, <4>1, <4>2
      <3>6. Cardinality({}) + NumSlices < NumSlices
        BY <2>2, <3>1, <3>3, <3>5
      <3>7. QED
        BY <1>1, <3>6, FS_EmptySet DEF DeviceFits
    <2>4. z \in S
      <3>1. S \subseteq Nat
        BY <1>1 DEF Z, DeviceFits
      <3> HIDE DEF S
      <3>2. QED
        BY <2>3, <3>1, LowestFits
    <2>5. z \in Z /\ (slot[<<u, z>>] = NULL \/ SwapType(slot[<<u, z>>]) # "CARRY_CHAIN")
      BY <2>4
    <2> HIDE DEF z, S
    <2>6. slot[<<u, z>>] # NULL => ~IsFixed(slot[<<u, z>>]) /\ SwapType(slot[<<u, z>>]) # "CARRY_CHAIN"
      BY <2>2, <2>5 DEF HeldIn, Occupants
    <2>7. QED
      BY <1>2, <2>1, <2>6, OneSpares
  <1>6. QED
    BY <1>1, <1>3, <1>4, <1>5, MacroTypeFits

(* What a pair changes places with. *)
LEMMA Lut6Spares ==
  ASSUME Searching, NEW o \in DOMAIN nl.objects, TypeOf(o) = "LUT6", NEW u \in Tile,
         Lut6Verdict(o, u) = "take", NEW ex, ex = TileExchange(BaseTile(o), u)
  PROVE  Spares(ex, o)
  <1> DEFINE i == InstsOf(o)[1]
             t == BaseTile(o)
  <1>1. /\ DeviceFits /\ ObjectsFit /\ NullAssumption /\ Agree(slot, pos)
        /\ PairsWhole(Len(nl.objects) + 1, pos)
    BY DEF Searching
  <1>2. /\ pos[i] \in Pos /\ slot[pos[i]] = i /\ i # NULL
        /\ t \in Tile /\ pos[i][1] = t /\ SwapType(i) = "LUT6"
    BY <1>1, BaseFits, MembersFit
  <1>3. PICK y \in Z : pos[i] = <<t, y>>
    BY <1>2 DEF Pos
  <1>4. ASSUME NEW z \in Z
        PROVE  ~IsFixed(slot[<<t, z>>]) /\ SwapType(slot[<<t, z>>]) # "CARRY_CHAIN"
    <2>1. SwapType(slot[<<t, z>>]) = "LUT6"
      BY <1>1, <1>2, <1>3, PairFills
    <2>2. SwapType(slot[<<t, z>>]) # "SITE" /\ SwapType(slot[<<t, z>>]) # "CARRY_CHAIN"
      BY <2>1
    <2>3. QED
      BY <1>1, <2>2, MacroMember
  <1>5. ASSUME NEW z \in Z, slot[<<u, z>>] # NULL
        PROVE  ~IsFixed(slot[<<u, z>>]) /\ SwapType(slot[<<u, z>>]) # "CARRY_CHAIN"
    <2>1. slot[<<u, z>>] \in Occupants(u) /\ ~HasFixed(u) /\ MacroType(u) # "CARRY_CHAIN"
      BY <1>5 DEF Occupants, Lut6Verdict
    <2>2. ~IsFixed(slot[<<u, z>>])
      BY <2>1 DEF HasFixed
    <2>3. CASE MacroType(u) = "SITE"
      <3>1. SwapType(slot[<<u, z>>]) = "SITE"
        BY <1>1, <1>5, <2>3, MacroTypeFits
      <3>2. QED
        BY <2>2, <3>1
    <2>4. CASE MacroType(u) = "LUT6"
      <3>1. PICK v \in Z : slot[<<u, v>>] # NULL /\ SwapType(slot[<<u, v>>]) = "LUT6"
        BY <1>1, <2>4, MacroTypeFits
      <3>2. SwapType(slot[<<u, z>>]) = "LUT6"
        BY <1>1, <3>1, PairFills
      <3>3. QED
        BY <2>2, <3>2
    <2>5. QED
      BY <1>1, <2>1, <2>3, <2>4, MacroTypeFits
  <1>6. QED
    BY <1>1, <1>2, <1>4, <1>5, TilesSpare

(* A chain goes to open slots, which follow each other. *)
LEMMA ChainSpares ==
  ASSUME Searching, ChainsFit, TableFits(qual, slot), NEW o \in DOMAIN nl.objects, TypeOf(o) = "CARRY_CHAIN",
         NEW u \in Tile, ChainVerdict(o, u) = "take", NEW ex, ex = ChainExchange(o, u),
         NEW n, NEW po, MovedBy(n, ex, pos, po), Exchangeable(n, ex)
  PROVE  Spares(ex, o) /\ \E x \in CarryIndex : InRow(x, InstsOf(o), po)
  <1>1. /\ DeviceFits /\ ObjectsFit /\ NullAssumption
    BY DEF Searching
  <1>2. o \in ChainObjects
    BY DEF ChainObjects
  <1>3. PICK r \in 0..(Rows - 1), c \in Column : r = u[1] /\ c = u[2]
    BY <1>1 DEF DeviceFits, Column
  <1>4. PICK x \in CarryIndex : x = Lowest(QualifiedAt(o, u)) /\ u[1] \in qual[o][u[2]][x]
    <2>1. QualifiedAt(o, u) # {}
      BY DEF ChainVerdict
    <2>2. QualifiedAt(o, u) \subseteq CarryIndex /\ CarryIndex \subseteq Nat
      BY <1>1 DEF QualifiedAt, DeviceFits
    <2>3. Lowest(QualifiedAt(o, u)) \in QualifiedAt(o, u)
      BY <2>1, <2>2, LowestFits
    <2>4. QED
      BY <2>2, <2>3 DEF QualifiedAt
  <1>5. PICK is : is = InstsOf(o)
    OBVIOUS
  <1>6. PICK cs : cs = ChainCells(Len(InstsOf(o)), u[1], u[2], (x - 1) * CarrySize)
    OBVIOUS
  <1>7. PICK len \in Nat \ {0} : len = Len(InstsOf(o)) /\ DOMAIN is = 1..len
    BY <1>1, <1>5, MembersFit
  <1>8. AreCells(cs, len, r, c, x)
    BY <1>3, <1>4, <1>6, <1>7 DEF AreCells
  <1>9. FitsOn(slot, len, r, c, x)
    <2>1. r \in qual[o][c][x]
      BY <1>3, <1>4
    <2>2. FitsOn(slot, Len(InstsOf(o)), r, c, x)
      BY <1>1, <1>2, <2>1, TableMeans
    <2>3. QED
      BY <1>7, <2>2
  <1>10. Len(cs) = len /\ \A k \in 1..len : IsOpen(slot, cs[k])
    <2>1. Len(cs) = len
      BY <1>8, <1>9 DEF FitsOn, AreCells
    <2>2. \A k \in 1..len : cs[k] \in Pos /\ IsOpen(slot, cs[k])
      BY <1>1, <1>8, <1>9, FittingCells
    <2>3. QED
      BY <2>1, <2>2
  <1>11. ex = [k \in DOMAIN is |-> Pair(is[k], slot[cs[k]], pos[is[k]], cs[k])]
    BY <1>4, <1>5, <1>6 DEF ChainExchange
  <1>12. ASSUME NEW k \in 1..len
         PROVE  ex[k].from = is[k] /\ ex[k].to = slot[cs[k]] /\ ex[k].b = cs[k]
    BY <1>7, <1>11 DEF Pair
  <1>13. DOMAIN ex = 1..len /\ n = len
    <2>1. DOMAIN ex = 1..len
      BY <1>7, <1>11
    <2>2. n \in Nat /\ DOMAIN ex = 1..n
      BY DEF Exchangeable
    <2>3. QED
      BY <2>1, <2>2
  <1>14. ASSUME NEW k \in 1..len
         PROVE  is[k] \in ElemsOf(InstsOf(o)) /\ ~IsFixed(is[k]) /\ is[k] # NULL
    <2>1. is[k] \in Inst /\ ~IsFixed(is[k])
      BY <1>1, <1>5, <1>7, MembersFit
    <2>2. QED
      BY <1>1, <1>5, <1>7, <2>1 DEF ElemsOf
  <1>15. Spares(ex, o)
    <2>1. ASSUME NEW k \in 1..len, slot[cs[k]] # NULL
          PROVE  ~IsFixed(slot[cs[k]]) /\ SwapType(slot[cs[k]]) # "CARRY_CHAIN"
      BY <1>10, <2>1 DEF IsOpen, IsMacro
    <2>2. QED
      BY <1>12, <1>13, <1>14, <2>1 DEF Spares
  <1>16. Risen(cs, c, x, len, 0)
    <2>1. PICK z : z = (x - 1) * CarrySize
      OBVIOUS
    <2>2. z \in Nat
      BY <1>1, <2>1, ChainSlots
    <2>3. PICK g : IsClimb(g, len, r, c, z) /\ ChainCells(len, r, c, z) = g[r + 1]
      BY <1>1, <2>2, ChainClimbs
    <2>4. IsClimb(g, len, r, c, (x - 1) * CarrySize) /\ cs = g[r + 1]
      BY <1>8, <2>1, <2>3 DEF AreCells
    <2>5. Risen(g[r + 1], c, x, len, 0)
      BY <1>1, <2>4, ClimbRises
    <2>6. QED
      BY <2>4, <2>5
  <1>17. \A k \in 1..len : po[is[k]] = cs[k]
    BY <1>12, <1>13, <1>14 DEF MovedBy
  <1>18. InRow(x, is, po)
    <2>1. 1 \in 1..len /\ po[is[1]] = cs[1]
      BY <1>17
    <2>2. po[is[1]][2] = CarryChain[x][1]
      BY <1>10, <1>16, <2>1 DEF Risen
    <2>3. ASSUME NEW k \in 1..(Len(is) - 1)
          PROVE  P!Follows(x, po[is[k]], po[is[k + 1]])
      <3>1. k \in 1..len /\ k + 1 \in 1..len /\ k \in 1..(Len(cs) - 1)
        BY <1>5, <1>7, <1>10
      <3>2. P!Follows(x, cs[k], cs[k + 1])
        BY <1>16, <3>1 DEF Risen
      <3>3. QED
        BY <1>17, <3>1, <3>2
    <2>4. QED
      BY <2>2, <2>3 DEF InRow
  <1>19. QED
    BY <1>5, <1>15, <1>18

(* An exchange that the rules take leaves a lawful placement. *)
LEMMA ExchangeLawful ==
  ASSUME Searching, NoBystander, ChainsFit, TableFits(qual, slot),
         \A t \in Tile : occ[t] = Cardinality(Occupants(t)),
         NEW o \in DOMAIN nl.objects, NEW u \in Tile, Verdict(o, u) = "take", NEW ex \in Exchanges(o, u),
         NEW nx, nx = Len(nl.objects) + 1, Lawful(nx, pos), NEW po, po = ExchangedPlaces(ex, pos)
  PROVE  Lawful(nx, po)
  <1>1. /\ DeviceFits /\ ObjectsFit /\ NullAssumption /\ Agree(slot, pos)
    BY DEF Searching
  <1>2. GoodExchange(ex)
    BY ExchangeGood
  <1>3. PICK n : Exchangeable(n, ex)
    BY <1>2 DEF GoodExchange
  <1>4. MovedBy(n, ex, pos, po)
    BY <1>1, <1>3, ExchangeMoves
  <1>5. CASE TypeOf(o) = "SITE"
    <2>1. SiteVerdict(o, u) = "take" /\ ex \in SiteExchanges(o, u)
      BY <1>5 DEF Verdict, Exchanges
    <2>2. Spares(ex, o)
      BY <1>5, <2>1, SiteSpares
    <2>3. TypeOf(o) # "CARRY_CHAIN"
      BY <1>5
    <2>4. QED
      BY <1>1, <1>3, <1>4, <2>2, <2>3, SparedLawful
  <1>6. CASE TypeOf(o) = "LUT6"
    <2>1. Lut6Verdict(o, u) = "take" /\ ex = TileExchange(BaseTile(o), u)
      BY <1>6 DEF Verdict, Exchanges
    <2>2. Spares(ex, o)
      BY <1>6, <2>1, Lut6Spares
    <2>3. TypeOf(o) # "CARRY_CHAIN"
      BY <1>6
    <2>4. QED
      BY <1>1, <1>3, <1>4, <2>2, <2>3, SparedLawful
  <1>7. CASE TypeOf(o) = "CARRY_CHAIN"
    <2>1. ChainVerdict(o, u) = "take" /\ ex = ChainExchange(o, u)
      BY <1>7 DEF Verdict, Exchanges
    <2>2. Spares(ex, o) /\ \E x \in CarryIndex : InRow(x, InstsOf(o), po)
      BY <1>3, <1>4, <1>7, <2>1, ChainSpares
    <2>3. QED
      BY <1>1, <1>3, <1>4, <2>2, SparedLawful
  <1>8. QED
    BY <1>1, <1>5, <1>6, <1>7 DEF ObjectsFit
-----------------------------------------------------------------------------
(* The names that the abstract placement has for the design's parts.       *)
LEMMA SameDesign ==
  /\ P!Constrained = DOMAIN nl.cst
  /\ P!CarryChain = CarryChain
  /\ P!Pos = Pos
  BY DEF P!Constrained, P!CarryChain, CarryChain, P!Pos, P!Tile, Pos, Tile, Z, NumSlices

(* The positions of the bookkeeping are a legal placement, as far as it    *)
(* has come.                                                               *)
LEMMA LegalIs ==
  ASSUME DeviceFits, ObjectsFit, NullAssumption, PlainNets, Mirrored, ~IsIllegal,
         NEW sl, NEW pl, Agree(sl, pl), NEW nx \in 1..(Len(nl.objects) + 1),
         PlacedAre(nx, pl), UnplacedAre(nx, pl), PairsWhole(nx, pl), Lawful(nx, pl)
  PROVE  P!Legal(pl)
  <1>1. P!Feasible
    BY FeasibleIs
  <1>2. NULL \notin Pos /\ NULL \notin Inst /\ Len(nl.objects) \in Nat
    BY NullAssumption DEF DeviceFits, ObjectsFit
  <1>3. ASSUME NEW i \in DOMAIN nl.cst
        PROVE  i \in Inst /\ pl[i] # NULL
    <2>1. i \in Inst
      BY DEF Mirrored
    <2>2. pl[i] = nl.cst[i]
      BY <2>1 DEF Lawful, FixedStay, IsFixed
    <2>3. nl.cst[i] \in Pos
      BY <1>1, SameDesign DEF P!Feasible
    <2>4. QED
      BY <1>2, <2>1, <2>2, <2>3
  <1>4. ASSUME NEW o \in DOMAIN nl.objects
        PROVE  /\ o \in 1..(nx - 1) \/ o \in nx..Len(nl.objects)
               /\ o \in 1..(nx - 1) => \A k \in DOMAIN InstsOf(o) : pl[InstsOf(o)[k]] # NULL
               /\ o \in nx..Len(nl.objects) => \A k \in DOMAIN InstsOf(o) : pl[InstsOf(o)[k]] = NULL
    <2>1. o \in 1..Len(nl.objects)
      BY DEF ObjectsFit
    <2>2. QED
      BY <1>2, <2>1 DEF PlacedAre, UnplacedAre
  <1>5. ASSUME NEW c \in P!Pairs
        PROVE  /\ pl[c[1]] = NULL <=> pl[c[2]] = NULL
               /\ pl[c[1]] # NULL => P!PairShape(pl[c[1]], pl[c[2]])
    <2>1. PICK o \in DOMAIN nl.objects : TypeOf(o) = "LUT6" /\ InstsOf(o) = <<c[1], c[2]>>
      BY DEF Mirrored
    <2>2. DOMAIN InstsOf(o) = 1..2 /\ InstsOf(o)[1] = c[1] /\ InstsOf(o)[2] = c[2]
      BY <2>1
    <2>3. CASE o \in 1..(nx - 1)
      <3>1. PICK t \in Tile : pl[InstsOf(o)[1]] = <<t, 0>> /\ pl[InstsOf(o)[2]] = <<t, 1>>
        BY <2>1, <2>3 DEF PairsWhole
      <3>2. pl[c[1]] = <<t, 0>> /\ pl[c[2]] = <<t, 1>>
        BY <2>2, <3>1
      <3>3. P!PairShape(pl[c[1]], pl[c[2]])
        BY <3>2 DEF P!PairShape
      <3>4. pl[c[1]] # NULL /\ pl[c[2]] # NULL
        BY <1>4, <2>2, <2>3
      <3>5. QED
        BY <3>3, <3>4
    <2>4. CASE o \in nx..Len(nl.objects)
      BY <1>4, <2>2, <2>4
    <2>5. QED
      BY <1>4, <2>3, <2>4
  <1> DEFINE Hds == {c[1] : c \in P!Carries} \ {c[2] : c \in P!Carries}
  <1>6. ASSUME NEW c \in P!Carries
        PROVE  /\ pl[c[1]] = NULL <=> pl[c[2]] = NULL
               /\ c[1] \notin P!Constrained /\ pl[c[1]] # NULL =>
                    \E x \in DOMAIN P!CarryChain :
                       /\ P!Follows(x, pl[c[1]], pl[c[2]])
                       /\ c[1] \in Hds => pl[c[1]][2] = P!CarryChain[x][1]
    <2>1. CASE IsFixed(c[1])
      <3>1. c[1] \in DOMAIN nl.cst /\ c[2] \in DOMAIN nl.cst
        BY <1>1, <2>1, SameDesign DEF IsFixed, P!Feasible
      <3>2. QED
        BY <1>3, <3>1, SameDesign
    <2>2. CASE ~IsFixed(c[1])
      <3>1. PICK o \in ChainObjects : \E k \in 1..(Len(InstsOf(o)) - 1) :
              /\ InstsOf(o)[k] = c[1] /\ InstsOf(o)[k + 1] = c[2]
              /\ (\A b \in P!Carries : b[2] # c[1]) => k = 1
        BY <2>2 DEF Mirrored
      <3>2. PICK k \in 1..(Len(InstsOf(o)) - 1) :
              /\ InstsOf(o)[k] = c[1] /\ InstsOf(o)[k + 1] = c[2]
              /\ (\A b \in P!Carries : b[2] # c[1]) => k = 1
        BY <3>1
      <3>3. o \in DOMAIN nl.objects /\ TypeOf(o) = "CARRY_CHAIN"
        BY DEF ChainObjects
      <3>4. k \in DOMAIN InstsOf(o) /\ k + 1 \in DOMAIN InstsOf(o)
        <4>1. Len(InstsOf(o)) \in Nat /\ DOMAIN InstsOf(o) = 1..Len(InstsOf(o))
          BY <3>3, MembersFit
        <4>2. QED
          BY <4>1
      <3>5. pl[c[1]] = NULL <=> pl[c[2]] = NULL
        BY <1>4, <3>2, <3>3, <3>4
      <3>6. ASSUME pl[c[1]] # NULL
            PROVE  \E x \in CarryIndex : /\ P!Follows(x, pl[c[1]], pl[c[2]])
                                         /\ c[1] \in Hds => pl[c[1]][2] = CarryChain[x][1]
        <4>1. o \in 1..(nx - 1)
          BY <1>4, <3>2, <3>3, <3>4, <3>6
        <4>2. PICK x \in CarryIndex : InRow(x, InstsOf(o), pl)
          BY <3>3, <4>1 DEF Lawful, Shaped
        <4>3. P!Follows(x, pl[c[1]], pl[c[2]])
          BY <3>2, <4>2 DEF InRow
        <4>4. c[1] \in Hds => pl[c[1]][2] = CarryChain[x][1]
          BY <3>2, <4>2 DEF InRow
        <4>5. QED
          BY <4>3, <4>4
      <3>7. QED
        BY <3>5, <3>6, SameDesign DEF CarryIndex
    <2>3. QED
      BY <2>1, <2>2
  <1>7. P!InShape(pl)
    BY <1>5, <1>6 DEF P!InShape
  <1>8. P!Apart(pl)
    <2> SUFFICES ASSUME NEW i \in Inst, NEW j \in Inst, i # j, pl[i] # NULL, pl[i] = pl[j]
                 PROVE  FALSE
      BY DEF P!Apart
    <2>1. sl[pl[i]] = i /\ sl[pl[j]] = j
      BY DEF Agree
    <2>2. QED
      BY <2>1
  <1>9. QED
    BY <1>7, <1>8 DEF P!Legal
-----------------------------------------------------------------------------
(* An object is put on free slots: a chain on slots that follow each other. *)
LEMMA PutLawful ==
  ASSUME DeviceFits, ObjectsFit, NullAssumption, NEW sl, NEW pl, NEW nx \in DOMAIN nl.objects, Lawful(nx, pl),
         NEW is, is = InstsOf(nx), NEW n, NEW ps, Puttable(n, is, ps),
         TypeOf(nx) = "CARRY_CHAIN" =>
            \E x \in CarryIndex : /\ ps[1][2] = CarryChain[x][1]
                                  /\ \A k \in 1..(n - 1) : P!Follows(x, ps[k], ps[k + 1]),
         NEW p2, p2 = PutPlaces(pl, is, ps)
  PROVE  Lawful(nx + 1, p2)
  <1>1. /\ \A k \in 1..n : p2[is[k]] = ps[k]
        /\ \A i \in Inst : (\A k \in 1..n : is[k] # i) => p2[i] = pl[i]
    <2>1. PICK s2 : s2 = PutSlots(sl, is, ps)
      OBVIOUS
    <2>2. \A k \in 1..n : s2[ps[k]] = is[k] /\ p2[is[k]] = ps[k]
      BY <2>1, PutFits
    <2>3. \A i \in Inst : (\A k \in 1..n : is[k] # i) => p2[i] = pl[i]
      BY <2>1, PutFits
    <2>4. QED
      BY <2>2, <2>3
  <1>2. n \in Nat /\ n >= 1 /\ Len(is) = n /\ DOMAIN is = 1..n
    <2>1. Len(InstsOf(nx)) \in Nat \ {0} /\ DOMAIN InstsOf(nx) = 1..Len(InstsOf(nx))
      BY MembersFit
    <2>2. n \in Nat /\ DOMAIN is = 1..n
      BY DEF Puttable
    <2>3. QED
      BY <2>1, <2>2
  <1>3. \A k \in 1..n : is[k] \in Inst /\ ~IsFixed(is[k]) /\ is[k] \in ElemsOf(is)
    <2>1. \A k \in 1..Len(InstsOf(nx)) : InstsOf(nx)[k] \in Inst /\ ~IsFixed(InstsOf(nx)[k])
      BY MembersFit
    <2>2. QED
      BY <1>2, <2>1 DEF ElemsOf
  <1>4. FixedStay(p2)
    <2> SUFFICES ASSUME NEW i \in Inst, IsFixed(i)
                 PROVE  p2[i] = nl.cst[i]
      BY DEF FixedStay
    <2>1. \A k \in 1..n : is[k] # i
      BY <1>3
    <2>2. QED
      BY <1>1, <2>1 DEF Lawful, FixedStay
  <1>5. Strangers(p2)
    <2> SUFFICES ASSUME NEW i \in Inst, ~IsFixed(i), ~IsMember(i)
                 PROVE  p2[i] = NULL
      BY DEF Strangers
    <2>1. \A k \in 1..n : is[k] # i
      BY <1>3 DEF IsMember
    <2>2. QED
      BY <1>1, <2>1 DEF Lawful, Strangers
  <1>6. ASSUME NEW o \in 1..((nx + 1) - 1), TypeOf(o) = "CARRY_CHAIN"
        PROVE  \E x \in CarryIndex : InRow(x, InstsOf(o), p2)
    <2>1. CASE o = nx
      <3>1. PICK x \in CarryIndex : /\ ps[1][2] = CarryChain[x][1]
                                    /\ \A k \in 1..(n - 1) : P!Follows(x, ps[k], ps[k + 1])
        BY <1>6, <2>1
      <3>2. 1 \in 1..n /\ \A k \in 1..(n - 1) : k \in 1..n /\ k + 1 \in 1..n
        BY <1>2
      <3>3. p2[is[1]][2] = CarryChain[x][1]
        BY <1>1, <3>1, <3>2
      <3>4. ASSUME NEW k \in 1..(Len(is) - 1)
            PROVE  P!Follows(x, p2[is[k]], p2[is[k + 1]])
        <4>1. p2[is[k]] = ps[k] /\ p2[is[k + 1]] = ps[k + 1] /\ k \in 1..(n - 1)
          BY <1>1, <1>2, <3>2
        <4>2. P!Follows(x, ps[k], ps[k + 1])
          BY <3>1, <4>1
        <4>3. QED
          BY <4>1, <4>2
      <3>5. InRow(x, is, p2)
        BY <3>3, <3>4 DEF InRow
      <3>6. QED
        BY <2>1, <3>5
    <2>2. CASE o # nx
      <3>1. o \in 1..(nx - 1) /\ o \in DOMAIN nl.objects /\ nx \in Nat
        BY <2>2 DEF ObjectsFit
      <3>2. PICK x \in CarryIndex : InRow(x, InstsOf(o), pl)
        BY <1>6, <3>1 DEF Lawful, Shaped
      <3>3. ASSUME NEW k \in 1..Len(InstsOf(o))
            PROVE  p2[InstsOf(o)[k]] = pl[InstsOf(o)[k]]
        <4>1. InstsOf(o)[k] \in Inst /\ k \in DOMAIN InstsOf(o)
          BY <3>1, MembersFit
        <4>2. InstsOf(o)[k] \in ElemsOf(InstsOf(o))
          BY <4>1 DEF ElemsOf
        <4>3. \A j \in 1..n : is[j] # InstsOf(o)[k]
          BY <1>3, <2>2, <3>1, <4>2 DEF ObjectsFit
        <4>4. QED
          BY <1>1, <4>1, <4>3
      <3>4. QED
        BY <3>1, <3>2, <3>3, RowStays
    <2>3. QED
      BY <2>1, <2>2
  <1>7. QED
    BY <1>4, <1>5, <1>6 DEF Lawful, Shaped
-----------------------------------------------------------------------------
(* What the theorem asks of the design, beyond what every design is: that  *)
(* no loop of carry nets is left out of the chains, and a device on which   *)
(* the verdict on a single slice counts right.                             *)
Posed == CarriesBegin(nl) /\ NoBystander

(* What the invariant keeps of it: the objects are what the nets ask for.  *)
Reflects == PlainNets /\ (IsIllegal \/ Mirrored) /\ NoBystander

(* The invariant is stated of values, as Holds is.                         *)
LHolds(nx, pa, po, ph) ==
    ph # "error" => ~IsIllegal /\ Lawful(nx, pa) /\ (ph = "decide" => Lawful(nx, po))

LInv == FInv /\ Reflects /\ ChainsFit /\ LHolds(next, past, pos, phase)

(* The design does not change, nor does what is asked of it. *)
LEMMA PlainStays ==
  ASSUME nl' = nl, PlainNets
  PROVE  PlainNets'
  BY DEF PlainNets, Named

(* Nor do the ASSERTs. *)
LEMMA IllegalStays ==
  ASSUME nl' = nl
  PROVE  IsIllegal' <=> IsIllegal
  BY DEF IsIllegal, IllegalConstraint, IllegalChain, CarryNets, Joins, CoutOf, CinOf, Owner, Named, IsCst

(* What the objects mirror of the nets. *)
LEMMA MirroredStays ==
  ASSUME nl' = nl, Mirrored
  PROVE  Mirrored'
  <1>1. P!Used' = P!Used /\ P!Pairs' = P!Pairs /\ P!Carries' = P!Carries
    BY DEF P!Used, P!Pairs, P!Carries, P!Joined, P!PinsOf
  <1>2. ChainObjects' = ChainObjects
    BY DEF ChainObjects, TypeOf
  <1>3. /\ P!Used' \subseteq Inst /\ (DOMAIN nl.cst)' \subseteq P!Used'
        /\ \A i \in Inst : IsFixed(i)' \/ (i \in P!Used' <=> IsMember(i)')
    BY <1>1 DEF Mirrored, IsFixed, IsMember, InstsOf
  <1>4. \A c \in P!Pairs' : \E o \in (DOMAIN nl.objects)' : TypeOf(o)' = "LUT6" /\ InstsOf(o)' = <<c[1], c[2]>>
    BY <1>1 DEF Mirrored, TypeOf, InstsOf
  <1>5. \A c \in P!Carries' :
           \/ IsFixed(c[1])'
           \/ \E o \in ChainObjects' : \E k \in 1..(Len(InstsOf(o)') - 1) :
                /\ InstsOf(o)'[k] = c[1] /\ InstsOf(o)'[k + 1] = c[2]
                /\ (\A b \in P!Carries' : b[2] # c[1]) => k = 1
    BY <1>1, <1>2 DEF Mirrored, IsFixed, InstsOf
  <1>6. QED
    BY <1>3, <1>4, <1>5 DEF Mirrored

(* All that the theorem asks. *)
LEMMA ReflectsStays ==
  ASSUME nl' = nl, Reflects
  PROVE  Reflects'
  <1>1. PlainNets' /\ (IsIllegal' \/ Mirrored')
    BY PlainStays, IllegalStays, MirroredStays DEF Reflects
  <1>2. NoBystander'
    BY DEF Reflects, NoBystander, NumSlices, TypeOf
  <1>3. QED
    BY <1>1, <1>2 DEF Reflects

(* The carry chains of the device. *)
LEMMA ChainsStay ==
  ASSUME nl' = nl, ChainsFit
  PROVE  ChainsFit'
  BY DEF ChainsFit, CarryIndex, CarryChain, CarrySize

(* The same of a lawful placement. *)
LEMMA LawfulStays ==
  ASSUME nl' = nl, NEW nx, nx = next', NEW pa, pa = past', NEW po, po = pos'
  PROVE  /\ Lawful(nx, pa) => Lawful(next, past)'
         /\ Lawful(nx, po) => Lawful(next, pos)'
         /\ Lawful(next, past)' => Lawful(nx, pa)
  <1>1. /\ Shaped(next, past)' <=> Shaped(nx, pa)
        /\ Shaped(next, pos)' <=> Shaped(nx, po)
    BY DEF Shaped, InRow, TypeOf, InstsOf, CarryIndex, CarryChain, P!Follows, P!CarryChain, P!NextAbove, P!Tile
  <1>2. /\ FixedStay(past)' <=> FixedStay(pa)
        /\ FixedStay(pos)' <=> FixedStay(po)
    BY DEF FixedStay, IsFixed
  <1>3. /\ Strangers(past)' <=> Strangers(pa)
        /\ Strangers(pos)' <=> Strangers(po)
    BY DEF Strangers, IsFixed, IsMember, ElemsOf, InstsOf
  <1>4. QED
    BY <1>1, <1>2, <1>3 DEF Lawful
-----------------------------------------------------------------------------
(* A step to a placement of the next state that LHolds says of.            *)
LEMMA LegalFits ==
  ASSUME nl' = nl, FInv', Reflects, ChainsFit, LHolds(next', past', pos', phase')
  PROVE  LInv'
  <1>1. Reflects' /\ ChainsFit'
    BY ReflectsStays, ChainsStay
  <1>2. PICK nx, pa, po, ph : nx = next' /\ pa = past' /\ po = pos' /\ ph = phase'
    OBVIOUS
  <1>3. ph # "error" => ~IsIllegal /\ Lawful(nx, pa) /\ (ph = "decide" => Lawful(nx, po))
    BY <1>2 DEF LHolds
  <1>4. /\ Lawful(nx, pa) => Lawful(next, past)'
        /\ Lawful(nx, po) => Lawful(next, pos)'
    BY <1>2, LawfulStays
  <1>5. IsIllegal' <=> IsIllegal
    BY IllegalStays
  <1>6. LHolds(next, past, pos, phase)'
    BY <1>2, <1>3, <1>4, <1>5 DEF LHolds
  <1>7. QED
    BY <1>1, <1>6 DEF LInv

(* The tables of the device's carry chains. *)
LEMMA DesignChains ==
  ASSUME NEW d \in Netlists, nl = Prepared(d)
  PROVE  ChainsFit
  <1>1. nl.device = d.device /\ d.device = nl.device
    BY DEF Prepared
  <1>2. RegularDevice(nl.device)
    BY <1>1, DeviceAssumption
  <1>3. \A x \in DOMAIN CarryChain : CarryChain[x] = [k \in 1..CarrySize |-> (x - 1) * CarrySize + k - 1]
    BY <1>2 DEF RegularDevice, CarryChain, CarrySize
  <1>4. QED
    BY <1>3 DEF ChainsFit, CarryIndex

(* The initial states. *)
LEMMA InitLawful ==
  ASSUME Init, Reflects
  PROVE  LInv
  <1>1. PICK d \in Netlists : nl = Prepared(d)
    BY DEF Init
  <1>2. FInv /\ ChainsFit
    BY <1>1, InitFits, DesignChains
  <1>3. /\ phase = IF IsIllegal THEN "error" ELSE "place"
        /\ next = 1 /\ past = pos
        /\ pos = [i \in Inst |-> IF IsFixed(i) /\ ~IsIllegal THEN nl.cst[i] ELSE NULL]
    BY DEF Init
  <1>4. ASSUME ~IsIllegal
        PROVE  Lawful(next, past)
    <2>1. 1..(next - 1) = {}
      BY <1>3
    <2>2. Shaped(next, past)
      BY <2>1 DEF Shaped
    <2>3. FixedStay(past) /\ Strangers(past)
      BY <1>3, <1>4 DEF FixedStay, Strangers
    <2>4. QED
      BY <2>2, <2>3 DEF Lawful
  <1>5. LHolds(next, past, pos, phase)
    BY <1>3, <1>4 DEF LHolds
  <1>6. QED
    BY <1>2, <1>5 DEF LInv

(* An initial state is one of the abstract placement. *)
LEMMA InitPlaces ==
  ASSUME Init, PlainNets
  PROVE  P!Init
  <1>1. PICK d \in Netlists : nl = Prepared(d)
    BY DEF Init
  <1>2. ASSUME NEW f \in DOMAIN d
        PROVE  nl[f] = d[f]
    <2>1. f \in {"device", "insts", "cst", "nets", "minRlim", "mode"}
      BY FieldsAssumption
    <2>2. /\ nl["device"] = d["device"] /\ nl["insts"] = d["insts"] /\ nl["cst"] = d["cst"]
          /\ nl["nets"] = d["nets"] /\ nl["minRlim"] = d["minRlim"] /\ nl["mode"] = d["mode"]
      BY <1>1 DEF Prepared
    <2>3. QED
      BY <2>1, <2>2
  <1>3. Placed = [i \in Inst |-> IF IsFixed(i) /\ ~IsIllegal THEN nl.cst[i] ELSE NULL]
    BY DEF Init, Placed
  <1>4. P!Feasible <=> ~IsIllegal
    BY FeasibleIs
  <1>5. Placed = [i \in Inst |-> IF i \in P!Constrained /\ P!Feasible THEN nl.cst[i] ELSE NULL]
    BY <1>3, <1>4, SameDesign DEF IsFixed
  <1>6. QED
    BY <1>1, <1>2, <1>5 DEF P!Init
-----------------------------------------------------------------------------
(* The next object is put on the positions ps.                             *)
Lays(n, ps) ==
    /\ phase = "place" /\ next \in DOMAIN nl.objects
    /\ PutOn(InstsOf(next), ps)
    /\ Puttable(n, InstsOf(next), ps)
    /\ TypeOf(next) = "CARRY_CHAIN" =>
         \E x \in CarryIndex : /\ ps[1][2] = CarryChain[x][1]
                               /\ \A k \in 1..(n - 1) : P!Follows(x, ps[k], ps[k + 1])

(* A chain goes on a free run of a column. *)
LEMMA ChainLays ==
  ASSUME FInv, ChainsFit, PlaceChain
  PROVE  \E n : \E ps : Lays(n, ps)
  <1>1. phase = "place" /\ next \in DOMAIN nl.objects
    BY DEF PlaceChain, Placing
  <1>2. PICK c \in Column : \E run : run = InitRun(c, Len(InstsOf(next))) /\ run # <<>> /\ PutOn(InstsOf(next), run)
    BY DEF PlaceChain
  <1>3. PICK run : run = InitRun(c, Len(InstsOf(next))) /\ run # <<>> /\ PutOn(InstsOf(next), run)
    BY <1>2
  <1>4. /\ DeviceFits /\ Len(InstsOf(next)) \in Nat /\ DOMAIN InstsOf(next) = 1..Len(InstsOf(next))
        /\ \A k \in 1..Len(InstsOf(next)) : InstsOf(next)[k] \in Inst
        /\ \A j, k \in 1..Len(InstsOf(next)) : InstsOf(next)[j] = InstsOf(next)[k] => j = k
    BY <1>1, PlacingFits
  <1>5. PICK n \in Nat : n = Len(InstsOf(next))
    BY <1>4
  <1>6. run = InitRun(c, n)
    BY <1>3, <1>5
  <1>7. /\ run \in Seq(Pos) /\ Len(run) = n
        /\ \A j, k \in 1..n : run[j] = run[k] => j = k
    BY <1>3, <1>4, <1>6, InitRunFits
  <1>8. DOMAIN run = 1..n /\ \A k \in 1..n : run[k] \in Pos
    BY <1>7
  <1>9. Puttable(n, InstsOf(next), run)
    BY <1>4, <1>5, <1>7, <1>8 DEF Puttable
  <1>10. Risen(run, c, 1, n, 0)
    BY <1>3, <1>4, <1>6, InitRunRises
  <1>11. n > 0
    <2>1. n # 0
      BY <1>3, <1>7
    <2>2. QED
      BY <2>1
  <1>12. 1 \in CarryIndex
    BY <1>4 DEF DeviceFits
  <1>13. run[1][2] = CarryChain[1][1] /\ \A k \in 1..(n - 1) : P!Follows(1, run[k], run[k + 1])
    BY <1>7, <1>10, <1>11 DEF Risen
  <1>14. \E x \in CarryIndex : /\ run[1][2] = CarryChain[x][1]
                               /\ \A k \in 1..(n - 1) : P!Follows(x, run[k], run[k + 1])
    BY <1>12, <1>13
  <1>15. Lays(n, run)
    BY <1>1, <1>3, <1>9, <1>14 DEF Lays
  <1>16. QED
    BY <1>15

(* A pair goes on an empty tile. *)
LEMMA Lut6Lays ==
  ASSUME FInv, PlaceLut6
  PROVE  \E n : \E ps : Lays(n, ps)
  <1>1. phase = "place" /\ next \in DOMAIN nl.objects /\ TypeOf(next) = "LUT6"
    BY DEF PlaceLut6, Placing
  <1>2. PICK t \in Tile : PutOn(InstsOf(next), <<<<t, 0>>, <<t, 1>>>>)
    BY DEF PlaceLut6
  <1>3. PICK ps : ps = <<<<t, 0>>, <<t, 1>>>>
    OBVIOUS
  <1>4. /\ NumSlices = 2 /\ DOMAIN InstsOf(next) = 1..2
        /\ \A k \in 1..2 : InstsOf(next)[k] \in Inst
        /\ \A j, k \in 1..2 : InstsOf(next)[j] = InstsOf(next)[k] => j = k
    BY <1>1, PlacingFits
  <1>5. DOMAIN ps = 1..2 /\ ps[1] = <<t, 0>> /\ ps[2] = <<t, 1>> /\ ps[1] # ps[2]
    BY <1>3
  <1>6. \A k \in 1..2 : ps[k] \in Pos
    BY <1>4, <1>5 DEF Pos, Z
  <1>7. \A j, k \in 1..2 : ps[j] = ps[k] => j = k
    BY <1>5
  <1>8. Puttable(2, InstsOf(next), ps)
    BY <1>4, <1>5, <1>6, <1>7 DEF Puttable
  <1>9. Lays(2, ps)
    BY <1>1, <1>2, <1>3, <1>8 DEF Lays
  <1>10. QED
    BY <1>9

(* A single slice goes on a free slot. *)
LEMMA SiteLays ==
  ASSUME FInv, PlaceSite
  PROVE  \E n : \E ps : Lays(n, ps)
  <1>1. phase = "place" /\ next \in DOMAIN nl.objects /\ TypeOf(next) = "SITE"
    BY DEF PlaceSite, Placing
  <1>2. PICK t \in Tile : occ[t] < NumSlices /\ PutOn(InstsOf(next), <<<<t, UnoccZ(t)>>>>)
    BY DEF PlaceSite
  <1>3. PICK p : p = <<t, UnoccZ(t)>>
    OBVIOUS
  <1>4. PICK ps : ps = <<p>>
    OBVIOUS
  <1>5. /\ DeviceFits /\ NullAssumption /\ Agree(slot, pos)
        /\ occ[t] = Cardinality(Occupants(t))
        /\ DOMAIN InstsOf(next) = 1..1
        /\ \A k \in 1..1 : InstsOf(next)[k] \in Inst
        /\ \A j, k \in 1..1 : InstsOf(next)[j] = InstsOf(next)[k] => j = k
    BY <1>1, PlacingFits
  <1>6. UnoccZ(t) \in Z
    <2>1. Cardinality(Occupants(t)) < NumSlices
      BY <1>2, <1>5
    <2>2. QED
      BY <1>5, <2>1, FreeSlot
  <1>7. p \in Pos
    BY <1>3, <1>6 DEF Pos
  <1>8. DOMAIN ps = 1..1 /\ ps[1] = p /\ \A k \in 1..1 : k = 1
    BY <1>4
  <1>9. Puttable(1, InstsOf(next), ps)
    BY <1>5, <1>7, <1>8 DEF Puttable
  <1>10. Lays(1, ps)
    BY <1>1, <1>2, <1>3, <1>4, <1>9 DEF Lays
  <1>11. QED
    BY <1>10
-----------------------------------------------------------------------------
(* Where no ASSERT has fired, the positions in force are legal. *)
LEMMA LegalNext ==
  ASSUME LInv, LInv', nl' = nl, phase' # "error"
  PROVE  /\ P!Legal(past') /\ ~IsIllegal
         /\ past' \in [Inst -> Pos \cup {NULL}]
  <1>1. PICK sl, pa, nx, po : sl = slot' /\ pa = past' /\ nx = next' /\ po = pos'
    OBVIOUS
  <1>2. ~IsIllegal
    <2>1. ~IsIllegal'
      BY DEF LInv, LHolds
    <2>2. QED
      BY <2>1, IllegalStays
  <1>3. Lawful(nx, pa)
    <2>1. Lawful(next, past)'
      BY DEF LInv, LHolds
    <2>2. Lawful(next, past)' => Lawful(nx, pa)
      BY <1>1, LawfulStays
    <2>3. QED
      BY <2>1, <2>2
  <1>4. Bookkept(slot, occ, past)' /\ Ready(avail, next, objs, past)'
    BY DEF LInv, FInv, Holds
  <1>5. Agree(sl, pa)
    BY <1>1, <1>4 DEF Bookkept, Agree, Pos, Tile, Z, NumSlices
  <1>6. ObjectsFit' /\ (next \in 1..(Len(nl.objects) + 1))'
        /\ PlacedAre(next, past)' /\ UnplacedAre(next, past)' /\ PairsWhole(next, past)'
    BY <1>4 DEF Ready
  <1>7. ObjectsFit
    BY <1>6 DEF ObjectsFit, TypeOf, InstsOf, IsFixed, NumSlices
  <1>8. nx \in 1..(Len(nl.objects) + 1)
    BY <1>1, <1>6
  <1>9. PlacedAre(nx, pa)
    BY <1>1, <1>6 DEF PlacedAre, InstsOf
  <1>10. UnplacedAre(nx, pa)
    BY <1>1, <1>6 DEF UnplacedAre, InstsOf
  <1>11. PairsWhole(nx, pa)
    BY <1>1, <1>6 DEF PairsWhole, TypeOf, InstsOf, Tile
  <1>12. DeviceFits /\ PlainNets /\ Mirrored
    BY <1>2 DEF LInv, FInv, Reflects
  <1>13. P!Legal(pa)
    BY <1>2, <1>3, <1>5, <1>7, <1>8, <1>9, <1>10, <1>11, <1>12, NullAssumption, LegalIs
  <1>14. QED
    BY <1>1, <1>2, <1>5, <1>13 DEF Agree

(* The positions in force are the past ones: those of the instances where  *)
(* no exchange is being decided.                                           *)
LEMMA PlacedIs ==
  /\ FInv => Placed = past
  /\ FInv' => Placed' = past'
  BY DEF FInv, Holds, Placed

(* An object is placed. *)
LEMMA LaysLawful ==
  ASSUME LInv, NEW n, NEW ps, Lays(n, ps), FInv'
  PROVE  LInv'
  <1>1. /\ phase = "place" /\ next \in DOMAIN nl.objects
        /\ PutOn(InstsOf(next), ps) /\ Puttable(n, InstsOf(next), ps)
    BY DEF Lays
  <1>2. /\ DeviceFits /\ ObjectsFit /\ pos = past
    BY <1>1 DEF LInv, FInv, Holds, Ready
  <1>3. ~IsIllegal /\ Lawful(next, pos)
    BY <1>1, <1>2 DEF LInv, LHolds
  <1>4. PICK is, p2 : is = InstsOf(next) /\ p2 = PutPlaces(pos, is, ps)
    OBVIOUS
  <1>5. PICK nx \in DOMAIN nl.objects : nx = next
    BY <1>1
  <1>6. /\ pos' = p2 /\ past' = p2 /\ next' = nx + 1 /\ phase' = "place" /\ nl' = nl
    BY <1>1, <1>4, <1>5 DEF PutOn, PutPlaces
  <1>7. Lawful(nx + 1, p2)
    <2>1. Lawful(nx, pos) /\ Puttable(n, is, ps)
      BY <1>1, <1>3, <1>4, <1>5
    <2>2. TypeOf(nx) = "CARRY_CHAIN" =>
            \E x \in CarryIndex : /\ ps[1][2] = CarryChain[x][1]
                                  /\ \A k \in 1..(n - 1) : P!Follows(x, ps[k], ps[k + 1])
      BY <1>5 DEF Lays
    <2>3. is = InstsOf(nx)
      BY <1>4, <1>5
    <2>4. QED
      BY <1>2, <1>4, <2>1, <2>2, <2>3, NullAssumption, PutLawful
  <1>8. LHolds(next', past', pos', phase')
    BY <1>3, <1>6, <1>7 DEF LHolds
  <1>9. QED
    BY <1>6, <1>8, LegalFits DEF LInv

(* To the abstract placement, some instances get their first place. *)
LEMMA LaysPuts ==
  ASSUME LInv, NEW n, NEW ps, Lays(n, ps), FInv'
  PROVE  P!Put
  <1>1. /\ phase = "place" /\ next \in DOMAIN nl.objects
        /\ PutOn(InstsOf(next), ps) /\ Puttable(n, InstsOf(next), ps)
    BY DEF Lays
  <1>2. /\ DeviceFits /\ ObjectsFit /\ pos = past /\ UnplacedAre(next, pos)
    BY <1>1 DEF LInv, FInv, Holds, Ready
  <1>3. ~IsIllegal /\ PlainNets /\ Mirrored
    BY <1>1 DEF LInv, LHolds, Reflects
  <1>4. PICK is, sl : is = InstsOf(next) /\ sl = PutSlots(slot, is, ps)
    OBVIOUS
  <1>5. PICK p2 : p2 = PutPlaces(pos, is, ps)
    OBVIOUS
  <1>6. pos' = p2 /\ past' = p2 /\ phase' = "place" /\ nl' = nl
    BY <1>1, <1>4, <1>5 DEF PutOn, PutPlaces
  <1>7. Placed = pos /\ Placed' = p2
    BY <1>1, <1>6 DEF Placed
  <1>8. Puttable(n, is, ps)
    BY <1>1, <1>4
  <1>9. \A k \in 1..n : sl[ps[k]] = is[k] /\ p2[is[k]] = ps[k]
    BY <1>4, <1>5, <1>8, PutFits
  <1>10. \A i \in Inst : (\A k \in 1..n : is[k] # i) => p2[i] = pos[i]
    BY <1>4, <1>5, <1>8, PutFits
  <1>11. ASSUME NEW i \in Inst
         PROVE  \/ p2[i] = pos[i]
                \/ pos[i] = NULL /\ i \in P!Used /\ p2[i] \in P!Pos
    <2>1. CASE \E k \in 1..n : is[k] = i
      <3>1. PICK k \in 1..n : is[k] = i
        BY <2>1
      <3>2. p2[i] = ps[k] /\ ps[k] \in Pos /\ k \in DOMAIN is
        BY <1>8, <1>9, <3>1 DEF Puttable
      <3>3. next \in next..Len(nl.objects)
        BY <1>1, <1>2 DEF ObjectsFit
      <3>4. pos[i] = NULL
        BY <1>2, <1>4, <3>1, <3>2, <3>3 DEF UnplacedAre
      <3>5. ~IsFixed(i) /\ IsMember(i)
        BY <1>1, <1>2, <1>4, <3>1, <3>2 DEF ObjectsFit, IsMember, ElemsOf
      <3>6. i \in P!Used
        BY <1>3, <3>5 DEF Mirrored
      <3>7. QED
        BY <3>2, <3>4, <3>6, SameDesign
    <2>2. CASE \A k \in 1..n : is[k] # i
      BY <1>10, <2>2
    <2>3. QED
      BY <2>1, <2>2
  <1>12. P!Feasible
    BY <1>3, FeasibleIs
  <1>13. P!Legal(p2)
    <2>1. LInv'
      BY LaysLawful
    <2>2. P!Legal(past')
      BY <1>6, <2>1, LegalNext
    <2>3. QED
      BY <1>6, <2>2
  <1>14. QED
    BY <1>6, <1>7, <1>11, <1>12, <1>13 DEF P!Put
-----------------------------------------------------------------------------
(* Where all objects are placed, so is each instance of the design.        *)
LEMMA UsedPlaced ==
  ASSUME ObjectsFit, DeviceFits, PlainNets, Mirrored, ~IsIllegal,
         NEW pl \in [Inst -> Pos \cup {NULL}], FixedStay(pl), NEW nx, nx = Len(nl.objects) + 1, PlacedAre(nx, pl)
  PROVE  \A i \in P!Used : pl[i] # NULL /\ pl[i] \in P!Pos
  <1> SUFFICES ASSUME NEW i \in P!Used
               PROVE  pl[i] # NULL /\ pl[i] \in P!Pos
    OBVIOUS
  <1>1. i \in Inst
    BY DEF Mirrored
  <1>2. CASE IsFixed(i)
    <2>1. pl[i] = nl.cst[i]
      BY <1>1, <1>2 DEF FixedStay
    <2>2. nl.cst[i] \in Pos
      BY <1>2, FeasibleIs, SameDesign DEF P!Feasible, IsFixed
    <2>3. NULL \notin Pos
      BY DEF DeviceFits
    <2>4. QED
      BY <2>1, <2>2, <2>3, SameDesign
  <1>3. CASE ~IsFixed(i)
    <2>1. IsMember(i)
      BY <1>1, <1>3 DEF Mirrored
    <2>2. PICK o \in DOMAIN nl.objects : i \in ElemsOf(InstsOf(o))
      BY <2>1 DEF IsMember
    <2>3. PICK k \in DOMAIN InstsOf(o) : i = InstsOf(o)[k]
      BY <2>2 DEF ElemsOf
    <2>4. o \in 1..(nx - 1)
      BY DEF ObjectsFit
    <2>5. pl[i] # NULL
      BY <2>3, <2>4 DEF PlacedAre
    <2>6. QED
      BY <1>1, <2>5, SameDesign
  <1>4. QED
    BY <1>2, <1>3

(* An exchange is kept. *)
LEMMA KeepLawful ==
  ASSUME LInv, Keep, FInv'
  PROVE  LInv'
  <1>1. phase = "decide" /\ phase' = "idle" /\ past' = pos /\ pos' = pos /\ next' = next /\ nl' = nl
    BY DEF Keep, EndSwap
  <1>2. ~IsIllegal /\ Lawful(next, pos)
    BY <1>1 DEF LInv, LHolds
  <1>3. LHolds(next', past', pos', phase')
    BY <1>1, <1>2 DEF LHolds
  <1>4. QED
    BY <1>1, <1>3, LegalFits DEF LInv

(* To the abstract placement, instances change places. *)
LEMMA KeepRearranges ==
  ASSUME LInv, Keep, FInv'
  PROVE  P!Rearrange
  <1>1. phase = "decide" /\ phase' = "idle" /\ past' = pos /\ pos' = pos /\ next' = next /\ nl' = nl
    BY DEF Keep, EndSwap
  <1>2. ~IsIllegal /\ PlainNets /\ Mirrored
    BY <1>1 DEF LInv, LHolds, Reflects
  <1>3. Lawful(next, past) /\ Lawful(next, pos)
    BY <1>1 DEF LInv, LHolds
  <1>4. FixedStay(past) /\ FixedStay(pos) /\ Strangers(past) /\ Strangers(pos)
    BY <1>3 DEF Lawful
  <1>5. /\ DeviceFits /\ ObjectsFit /\ next = Len(nl.objects) + 1
        /\ Agree(slot, past) /\ Ready(avail, next, objs, past)
    BY <1>1, AnnealingFits DEF LInv
  <1>6. LInv'
    BY KeepLawful
  <1>7. P!Legal(past') /\ past' \in [Inst -> Pos \cup {NULL}]
    BY <1>1, <1>6, LegalNext
  <1>8. Placed = past /\ Placed' = pos
    BY <1>1 DEF Placed
  <1>9. \A i \in P!Used : past[i] # NULL /\ past[i] \in P!Pos
    <2>1. PlacedAre(next, past) /\ past \in [Inst -> Pos \cup {NULL}]
      BY <1>5 DEF Ready, Agree
    <2>2. PICK nx, pl : nx = next /\ pl = past
      OBVIOUS
    <2>3. \A i \in P!Used : pl[i] # NULL /\ pl[i] \in P!Pos
      BY <1>2, <1>4, <1>5, <2>1, <2>2, UsedPlaced
    <2>4. QED
      BY <2>2, <2>3
  <1>10. \A i \in P!Used : pos[i] # NULL /\ pos[i] \in P!Pos
    <2>1. PlacedAre(next, pos)
      <3>1. Flying(Len(swaps), swaps, slot, past, pos)
        BY <1>1, SearchFits DEF LInv, InAir
      <3>2. PICK n, sw, po, pa : n = Len(swaps) /\ sw = swaps /\ po = pos /\ pa = past
        OBVIOUS
      <3>3. PlacedAre(next, pa) /\ next \in 1..(Len(nl.objects) + 1) /\ Flying(n, sw, slot, pa, po)
        BY <1>5, <3>1, <3>2 DEF Ready
      <3>4. PICK nx : nx = next
        OBVIOUS
      <3>5. PlacedAre(nx, po)
        BY <1>5, <3>3, <3>4, FlyingPlaced
      <3>6. QED
        BY <3>2, <3>4, <3>5
    <2>2. pos \in [Inst -> Pos \cup {NULL}]
      BY <1>1, <1>7
    <2>3. PICK nx, pl : nx = next /\ pl = pos
      OBVIOUS
    <2>4. \A i \in P!Used : pl[i] # NULL /\ pl[i] \in P!Pos
      BY <1>2, <1>4, <1>5, <2>1, <2>2, <2>3, UsedPlaced
    <2>5. QED
      BY <2>3, <2>4
  <1>11. ASSUME NEW i \in Inst, i \notin P!Used \/ i \in P!Constrained
         PROVE  pos[i] = past[i]
    <2>1. CASE IsFixed(i)
      BY <1>4, <2>1 DEF FixedStay
    <2>2. CASE ~IsFixed(i)
      <3>1. i \notin P!Used
        BY <1>11, <2>2, SameDesign DEF IsFixed
      <3>2. ~IsMember(i)
        BY <1>2, <2>2, <3>1 DEF Mirrored
      <3>3. QED
        BY <1>4, <2>2, <3>2 DEF Strangers
    <2>3. QED
      BY <2>1, <2>2
  <1>12. P!Legal(pos)
    BY <1>1, <1>7
  <1>13. QED
    BY <1>1, <1>8, <1>9, <1>10, <1>11, <1>12 DEF P!Rearrange
-----------------------------------------------------------------------------
(* Steps that move nothing. *)
LEMMA RestLawful ==
  ASSUME LInv, FInv', phase # "error", phase' # "decide", UNCHANGED <<nl, past, next>>
  PROVE  LInv'
  <1>1. LHolds(next', past', pos', phase')
    BY DEF LInv, LHolds
  <1>2. QED
    BY <1>1, LegalFits DEF LInv

(* Steps that change nothing. *)
LEMMA StutterLawful ==
  ASSUME LInv, FInv', UNCHANGED vars
  PROVE  LInv'
  <1>1. UNCHANGED <<nl, next, past, pos, phase>>
    BY DEF vars
  <1>2. LHolds(next', past', pos', phase')
    BY <1>1 DEF LInv, LHolds
  <1>3. QED
    BY <1>1, <1>2, LegalFits DEF LInv

(* An exchange is undone. *)
LEMMA UndoPast ==
  ASSUME FInv, Undo
  PROVE  past' = past
  <1>1. /\ phase = "decide" /\ past' = [i \in Inst |-> IF InFlight(i) THEN past[i] ELSE pos[i]]
    BY DEF Undo, EndSwap
  <1>2. Agree(slot, past)
    BY <1>1, AnnealingFits
  <1>3. Flying(Len(swaps), swaps, slot, past, pos)
    BY <1>1, SearchFits DEF InAir
  <1>4. \A i \in Inst : ~InFlight(i) => pos[i] = past[i]
    BY <1>3 DEF Flying, InFlight, Moves
  <1>5. past = [i \in Inst |-> past[i]]
    BY <1>2 DEF Agree
  <1>6. QED
    BY <1>1, <1>4, <1>5

(* An exchange is tried. *)
LEMMA TriedLawful ==
  ASSUME LInv, Exchange, FInv'
  PROVE  LInv'
  <1>1. /\ phase = "find" /\ phase' = "decide"
        /\ UNCHANGED <<nl, slot, occ, avail, past, objs, qual, rlim, next, from>>
    BY DEF Exchange
  <1>2. PICK u \in avail[BaseTile(from)] :
          /\ Verdict(from, u) = "take"
          /\ \E ex \in Exchanges(from, u) : pos' = ExchangedPlaces(ex, pos)
    BY DEF Exchange, ExchangedPlaces
  <1>3. PICK ex \in Exchanges(from, u) : pos' = ExchangedPlaces(ex, pos)
    BY <1>2
  <1>4. /\ from \in DOMAIN nl.objects /\ Searching
        /\ \A t \in Tile : occ[t] = Cardinality(Occupants(t))
    BY <1>1, SearchFits DEF LInv
  <1>5. /\ Ready(avail, next, objs, past) /\ TableFits(qual, slot)
        /\ next = Len(nl.objects) + 1 /\ pos = past
    BY <1>1, AnnealingFits DEF LInv
  <1>6. PICK o \in DOMAIN nl.objects : o = from
    BY <1>4
  <1>7. u \in Tile
    <2>1. BaseTile(o) \in Tile
      BY <1>4, BaseFits
    <2>2. avail \in [Tile -> SUBSET Tile]
      BY <1>5 DEF Ready
    <2>3. QED
      BY <1>6, <2>1, <2>2
  <1>8. Verdict(o, u) = "take" /\ ex \in Exchanges(o, u)
    BY <1>2, <1>3, <1>6
  <1>9. PICK po, nx : po = pos' /\ nx = next
    OBVIOUS
  <1>10. ~IsIllegal /\ Lawful(nx, pos)
    BY <1>1, <1>5, <1>9 DEF LInv, LHolds
  <1>11. NoBystander /\ ChainsFit
    BY DEF LInv, Reflects
  <1>12. Lawful(nx, po)
    <2>1. nx = Len(nl.objects) + 1 /\ po = ExchangedPlaces(ex, pos)
      BY <1>3, <1>5, <1>9
    <2>2. QED
      BY <1>4, <1>5, <1>7, <1>8, <1>10, <1>11, <2>1, ExchangeLawful
  <1>13. LHolds(next', past', pos', phase')
    BY <1>1, <1>5, <1>9, <1>10, <1>12 DEF LHolds
  <1>14. QED
    BY <1>1, <1>13, LegalFits DEF LInv
-----------------------------------------------------------------------------
(* The actions that leave the placement in force as it is. *)
Resting ==
    \/ PlaceChainFails \/ PlaceLut6Hangs \/ PlaceSiteFails \/ StartAnnealing \/ PickObject \/ NoObject
    \/ GiveUp \/ Refuse \/ Exchange \/ Undo \/ NextTemperature \/ Finish \/ Stopped

(* To the abstract placement they are no steps. *)
LEMMA RestingRests ==
  ASSUME FInv, FInv', Resting
  PROVE  UNCHANGED <<nl, Placed>>
  <1>1. Placed = past /\ Placed' = past'
    BY PlacedIs
  <1>2. nl' = nl /\ past' = past
    <2>1. CASE Undo
      BY <2>1, UndoPast DEF Undo, EndSwap
    <2>2. CASE ~Undo
      BY <2>2 DEF Resting, PlaceChainFails, PlaceLut6Hangs, PlaceSiteFails, StartAnnealing, PickObject, NoObject,
                  GiveUp, Refuse, Exchange, NextTemperature, Finish, Stopped, Fail, vars
    <2>3. QED
      BY <2>1, <2>2
  <1>3. QED
    BY <1>1, <1>2

(* They keep the invariant. *)
LEMMA RestingLawful ==
  ASSUME LInv, FInv', Resting
  PROVE  LInv'
  <1>1. CASE Exchange
    BY <1>1, TriedLawful
  <1>2. CASE Undo
    <2>1. phase = "decide" /\ phase' = "idle" /\ nl' = nl /\ next' = next
      BY <1>2 DEF Undo, EndSwap
    <2>2. past' = past
      BY <1>2, UndoPast DEF LInv
    <2>3. QED
      BY <2>1, <2>2, RestLawful
  <1>3. CASE PlaceLut6Hangs \/ Stopped
    BY <1>3, StutterLawful DEF PlaceLut6Hangs, Stopped
  <1>4. CASE \/ PlaceChainFails \/ PlaceSiteFails \/ StartAnnealing \/ PickObject \/ NoObject
             \/ GiveUp \/ Refuse \/ NextTemperature \/ Finish
    <2>1. phase # "error" /\ phase' # "decide" /\ UNCHANGED <<nl, past, next>>
      BY <1>4 DEF PlaceChainFails, PlaceSiteFails, StartAnnealing, PickObject, NoObject,
                  GiveUp, Refuse, NextTemperature, Finish, Fail, Placing
    <2>2. QED
      BY <2>1, RestLawful
  <1>5. QED
    BY <1>1, <1>2, <1>3, <1>4 DEF Resting

(* Every step keeps the invariant ... *)
LEMMA NextLawful ==
  ASSUME LInv, [Next]_vars
  PROVE  LInv'
  <1>1. FInv /\ FInv' /\ ChainsFit
    BY NextFits DEF LInv
  <1>2. CASE PlaceChain
    <2>1. \E n : \E ps : Lays(n, ps)
      BY <1>1, <1>2, ChainLays
    <2>2. QED
      BY <1>1, <2>1, LaysLawful
  <1>3. CASE PlaceLut6
    <2>1. \E n : \E ps : Lays(n, ps)
      BY <1>1, <1>3, Lut6Lays
    <2>2. QED
      BY <1>1, <2>1, LaysLawful
  <1>4. CASE PlaceSite
    <2>1. \E n : \E ps : Lays(n, ps)
      BY <1>1, <1>4, SiteLays
    <2>2. QED
      BY <1>1, <2>1, LaysLawful
  <1>5. CASE Keep
    BY <1>1, <1>5, KeepLawful
  <1>6. CASE Resting
    BY <1>1, <1>6, RestingLawful
  <1>7. CASE UNCHANGED vars
    BY <1>1, <1>7, StutterLawful
  <1>8. QED
    BY <1>2, <1>3, <1>4, <1>5, <1>6, <1>7 DEF Next, Resting

(* ... and is a step of the abstract placement, or none. *)
LEMMA NextPlaces ==
  ASSUME LInv, [Next]_vars
  PROVE  [P!Next]_<<nl, Placed>>
  <1>1. FInv /\ FInv' /\ ChainsFit
    BY NextFits DEF LInv
  <1>2. CASE PlaceChain \/ PlaceLut6 \/ PlaceSite
    <2>1. \E n : \E ps : Lays(n, ps)
      BY <1>1, <1>2, ChainLays, Lut6Lays, SiteLays
    <2>2. P!Put
      BY <1>1, <2>1, LaysPuts
    <2>3. QED
      BY <2>2 DEF P!Next
  <1>3. CASE Keep
    <2>1. P!Rearrange
      BY <1>1, <1>3, KeepRearranges
    <2>2. QED
      BY <2>1 DEF P!Next
  <1>4. CASE Resting
    BY <1>1, <1>4, RestingRests
  <1>5. CASE UNCHANGED vars
    <2>1. UNCHANGED <<nl, Placed>>
      BY <1>5 DEF vars, Placed
    <2>2. QED
      BY <2>1
  <1>6. QED
    BY <1>2, <1>3, <1>4, <1>5 DEF Next, Resting

(* Inference makes of any such design the objects that its nets ask for. *)
LEMMA InitReflects ==
  ASSUME Init, Posed
  PROVE  Reflects
  <1>1. PICK d \in Netlists : nl = Prepared(d)
    BY DEF Init
  <1>2. TidyNets(d)
    BY <1>1, NetsAssumption
  <1>3. PlainNets
    BY <1>1, <1>2, PlainFits
  <1>4. nl.nets = d.nets /\ nl.insts = d.insts /\ nl.cst = d.cst
    BY <1>1 DEF Prepared
  <1>5. /\ CarryNets(nl) = CarryNets(d)
        /\ \A k : CoutOf(nl, k) = CoutOf(d, k) /\ CinOf(nl, k) = CinOf(d, k)
    BY <1>4 DEF CarryNets, CoutOf, CinOf
  <1>6. CarriesBegin(d)
    BY <1>4, <1>5 DEF Posed, CarriesBegin
  <1>7. IllegalChain(d) => IllegalChain(nl)
    BY <1>4, <1>5 DEF IllegalChain, IsCst
  <1>8. IsIllegal \/ Mirrored
    <2>1. CASE IllegalChain(d)
      BY <1>7, <2>1 DEF IsIllegal
    <2>2. CASE ~IllegalChain(d)
      BY <1>1, <1>2, <1>6, <2>2, ObjectsMirror
    <2>3. QED
      BY <2>1, <2>2
  <1>9. QED
    BY <1>3, <1>8 DEF Reflects, Posed

(* The floorplan implements the abstract placement: whatever objects and   *)
(* positions are drawn, kept and undone, constraints, single occupation    *)
(* and the shapes of chains and pairs hold at each step.                   *)
THEOREM FloorplanStaysLegal == Spec /\ Posed => StaysLegal
  <1>1. Init /\ Posed => LInv /\ P!Init
    BY InitReflects, InitLawful, InitPlaces DEF Reflects
  <1>2. LInv /\ [Next]_vars => LInv' /\ [P!Next]_<<nl, Placed>>
    BY NextLawful, NextPlaces
  <1>3. QED
    BY <1>1, <1>2, PTL DEF Spec, StaysLegal, P!Spec

(* The same of the annealing with its boxes and cost. *)
THEOREM PlacerStaysLegal == PSpec /\ Posed => StaysLegal
  <1>1. PInit /\ Posed => LInv /\ P!Init
    BY InitReflects, InitLawful, InitPlaces DEF Reflects, PInit
  <1>2. LInv /\ [PNext]_<<vars, costVars>> => LInv' /\ [P!Next]_<<nl, Placed>>
    <2> SUFFICES ASSUME LInv, [PNext]_<<vars, costVars>>
                 PROVE  LInv' /\ [P!Next]_<<nl, Placed>>
      OBVIOUS
    <2>1. [Next]_vars
      <3>1. CASE UNCHANGED <<vars, costVars>>
        BY <3>1
      <3>2. CASE PNext
        BY <3>2 DEF PNext, FloorplanStep, PStartAnnealing, PExchange, PKeep, PUndo, PNextTemperature, Next
      <3>3. QED
        BY <3>1, <3>2
    <2>2. QED
      BY <2>1, NextLawful, NextPlaces
  <1>3. QED
    BY <1>1, <1>2, PTL DEF PSpec, StaysLegal, P!Spec
=============================================================================
