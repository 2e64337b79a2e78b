--------------------------- MODULE PlacerCost_proofs ---------------------------
(***************************************************************************)
(* The cost the annealing goes by: the box of a net is updated exactly     *)
(* (UpdateIsExact), and as long as no exchange moves a net in two of its   *)
(* pairs at once, which it never does without chains and pairs, boxes, sum *)
(* and delays are those of the placement (CostFollows, SitesCostFollows).  *)
(***************************************************************************)
EXTENDS Placer_proofs

(* How many of the first k coordinates are v. *)
Count(vs, k, v) == Cardinality({i \in 1..k : vs[i] = v})

(* AxisFits for the first k coordinates, the empty extent included. *)
FitsUpTo(a, n, vs, k) ==
    /\ a \in Axis
    /\ a.min <= n + 1
    /\ a.max >= -1
    /\ k = 0 => a = NoExtent(n)
    /\ k > 0 => \E i \in 1..k : vs[i] = a.min
    /\ k > 0 => \E i \in 1..k : vs[i] = a.max
    /\ \A i \in 1..k : a.min <= vs[i] /\ vs[i] <= a.max
    /\ a.onMin = Count(vs, k, a.min)
    /\ a.onMax = Count(vs, k, a.max)

(* Instances with a coordinate among the first k + 1. *)
LEMMA CountNext ==
  ASSUME NEW k \in Nat, NEW vs, NEW v
  PROVE  Count(vs, k + 1, v) = IF vs[k + 1] = v THEN Count(vs, k, v) + 1 ELSE Count(vs, k, v)
  <1> DEFINE S == {i \in 1..k : vs[i] = v}
             T == {i \in 1..(k + 1) : vs[i] = v}
  <1>1. IsFiniteSet(S)
    <2>1. IsFiniteSet(1..k) /\ S \in SUBSET (1..k)
      BY FS_Interval
    <2>2. QED
      BY <2>1, FS_Subset
  <1>2. k + 1 \notin S
    OBVIOUS
  <1>3. vs[k + 1] = v => T = S \cup {k + 1}
    OBVIOUS
  <1>4. vs[k + 1] # v => T = S
    OBVIOUS
  <1>5. Count(vs, k, v) = Cardinality(S) /\ Count(vs, k + 1, v) = Cardinality(T)
    BY DEF Count
  <1> HIDE DEF S, T
  <1>6. QED
    BY <1>1, <1>2, <1>3, <1>4, <1>5, FS_AddElement

(* No instance at a coordinate. *)
LEMMA CountNone ==
  ASSUME NEW k \in Nat, NEW vs, NEW v, \A i \in 1..k : vs[i] # v
  PROVE  Count(vs, k, v) = 0
  <1>1. {i \in 1..k : vs[i] = v} = {}
    OBVIOUS
  <1>2. QED
    BY <1>1, FS_EmptySet DEF Count

(* One more instance keeps the extent that of the instances seen.          *)
LEMMA ExtendedFits ==
  ASSUME NEW n \in Nat, NEW vs \in Seq(0..(n + 1)), NEW k \in Nat, k + 1 \in DOMAIN vs,
         NEW a, FitsUpTo(a, n, vs, k)
  PROVE  FitsUpTo(Extended(a, vs[k + 1]), n, vs, k + 1)
  <1> DEFINE v == vs[k + 1]
             b == Extended(a, v)
  <1>1. v \in 0..(n + 1)
    OBVIOUS
  <1>2. a \in Axis /\ a.min \in Int /\ a.max \in Int /\ a.onMin \in Int /\ a.onMax \in Int
    BY DEF FitsUpTo, Axis
  <1>3. b \in Axis
    BY <1>1, <1>2 DEF Extended, Axis
  <1>4. k = 0 => v <= a.min /\ v > a.max
    BY <1>1 DEF FitsUpTo, NoExtent
  <1>5. \A i \in 1..k : vs[i] \in Int
    OBVIOUS
  <1>6. b.onMin = Count(vs, k + 1, b.min)
    <2>1. CASE v < a.min
      <3>1. b.min = v /\ b.onMin = 1
        BY <2>1 DEF Extended
      <3>2. \A i \in 1..k : vs[i] # v
        BY <2>1, <1>1, <1>2, <1>5 DEF FitsUpTo
      <3>3. Count(vs, k, v) = 0
        BY <3>2, CountNone
      <3>4. Count(vs, k + 1, v) = IF vs[k + 1] = v THEN Count(vs, k, v) + 1 ELSE Count(vs, k, v)
        BY CountNext
      <3>5. QED
        BY <3>1, <3>3, <3>4
    <2>2. CASE v >= a.min
      <3>1. b.min = a.min /\ b.onMin = IF v = a.min THEN a.onMin + 1 ELSE a.onMin
        BY <2>2, <1>1, <1>2 DEF Extended
      <3>2. QED
        BY <3>1, CountNext DEF FitsUpTo
    <2>3. QED
      BY <2>1, <2>2, <1>1, <1>2
  <1>7. b.onMax = Count(vs, k + 1, b.max)
    <2>1. CASE v > a.max
      <3>1. b.max = v /\ b.onMax = 1
        BY <2>1 DEF Extended
      <3>2. \A i \in 1..k : vs[i] # v
        BY <2>1, <1>1, <1>2, <1>5 DEF FitsUpTo
      <3>3. Count(vs, k, v) = 0
        BY <3>2, CountNone
      <3>4. Count(vs, k + 1, v) = IF vs[k + 1] = v THEN Count(vs, k, v) + 1 ELSE Count(vs, k, v)
        BY CountNext
      <3>5. QED
        BY <3>1, <3>3, <3>4
    <2>2. CASE v <= a.max
      <3>1. b.max = a.max /\ b.onMax = IF v = a.max THEN a.onMax + 1 ELSE a.onMax
        BY <2>2, <1>1, <1>2 DEF Extended
      <3>2. QED
        BY <3>1, CountNext DEF FitsUpTo
    <2>3. QED
      BY <2>1, <2>2, <1>1, <1>2
  <1>8. b.min <= v /\ v <= b.max /\ b.min <= a.min /\ a.max <= b.max
    BY <1>1, <1>2 DEF Extended
  <1>9. (b.min = v \/ b.min = a.min) /\ (b.max = v \/ b.max = a.max)
    BY DEF Extended
  <1>10. k > 0 \/ (b.min = v /\ b.max = v)
    BY <1>1, <1>2, <1>4 DEF Extended
  <1> HIDE DEF b
  <1>11. \A i \in 1..(k + 1) : b.min <= vs[i] /\ vs[i] <= b.max
    <2> TAKE i \in 1..(k + 1)
    <2>1. CASE i = k + 1
      BY <2>1, <1>8
    <2>2. CASE i \in 1..k
      <3>1. vs[i] \in Int /\ a.min <= vs[i] /\ vs[i] <= a.max
        BY <2>2, <1>5 DEF FitsUpTo
      <3>2. b.min \in Int /\ b.max \in Int
        BY <1>3 DEF Axis
      <3>3. QED
        BY <3>1, <3>2, <1>2, <1>8, SMTT(30)
    <2>3. QED
      BY <2>1, <2>2
  <1>12. (\E i \in 1..(k + 1) : vs[i] = b.min) /\ (\E i \in 1..(k + 1) : vs[i] = b.max)
    <2>1. k + 1 \in 1..(k + 1) /\ 1..k \subseteq 1..(k + 1)
      OBVIOUS
    <2>2. QED
      BY <2>1, <1>9, <1>10 DEF FitsUpTo
  <1>13. b.min <= n + 1 /\ b.max >= -1
    <2>1. a.min <= n + 1 /\ a.max >= -1
      BY DEF FitsUpTo
    <2>2. b.min \in Int /\ b.max \in Int
      BY <1>3 DEF Axis
    <2>3. QED
      BY <1>2, <1>8, <2>1, <2>2
  <1>14. QED
    BY <1>3, <1>6, <1>7, <1>11, <1>12, <1>13, SMTT(30) DEF FitsUpTo, b

(* The instances on a coordinate are finitely many, and none only if no   *)
(* instance has it.                                                        *)
LEMMA LyingFinite ==
  ASSUME NEW vs \in Seq(Int), NEW v
  PROVE  /\ IsFiniteSet(LyingOn(vs, v)) /\ Cardinality(LyingOn(vs, v)) \in Nat
         /\ Cardinality(LyingOn(vs, v)) > 0 <=> \E k \in DOMAIN vs : vs[k] = v
  <1>1. LyingOn(vs, v) \in SUBSET (1..Len(vs)) /\ IsFiniteSet(1..Len(vs))
    BY FS_Interval DEF LyingOn
  <1>2. IsFiniteSet(LyingOn(vs, v)) /\ Cardinality(LyingOn(vs, v)) \in Nat
    BY <1>1, FS_Subset, FS_CardinalityType
  <1>3. Cardinality(LyingOn(vs, v)) = 0 <=> LyingOn(vs, v) = {}
    BY <1>2, FS_EmptySet
  <1>4. LyingOn(vs, v) = {} <=> ~\E k \in DOMAIN vs : vs[k] = v
    BY DEF LyingOn
  <1>5. QED
    BY <1>2, <1>3, <1>4

(* The extent computed of a list of coordinates is theirs.                 *)
LEMMA ComputedFits ==
  ASSUME NEW n \in Nat, NEW vs \in Seq(0..(n + 1)), vs # <<>>
  PROVE  ComputedAxis(n, vs) \in Axis /\ AxisFits(ComputedAxis(n, vs), vs)
  <1> DEFINE N      == Len(vs)
             a      == NoExtent(n)
             Up(s, k) == Extended(s, vs[k])
             G      == [k \in Nat |-> [s \in Axis |-> IF k \in DOMAIN vs THEN Up(s, k) ELSE s]]
             Def(h) == h = [k \in 0..N |-> IF k = 0 THEN a ELSE Up(h[k - 1], k)]
             h      == CHOOSE g : Def(g)
  <1>1. N \in Nat /\ N > 0 /\ DOMAIN vs = 1..N /\ \A k \in 1..N : vs[k] \in 0..(n + 1)
    OBVIOUS
  <1>2. \A k \in 1..N : \A s \in Axis : Up(s, k) \in Axis
    <2>1. \A k \in 1..N : vs[k] \in Int
      BY <1>1
    <2>2. QED
      BY <2>1 DEF Extended, Axis
  <1>3. a \in Axis
    BY DEF NoExtent, Axis
  <1>4. ComputedAxis(n, vs) = h[N]
    BY DEF ComputedAxis
  <1> HIDE DEF Up, a, N
  <1>5. G \in [Nat -> [Axis -> Axis]]
    BY <1>1, <1>2
  <1>6. \E f : Iterates(f, Axis, a, G, N)
    <2> HIDE DEF G, Def, h
    <2> QED
      BY <1>5, <1>3, <1>1, IterateExists
  <1>7. PICK f \in [0..N -> Axis] : f[0] = a /\ \A k \in 1..N : f[k] = Up(f[k - 1], k)
    <2>1. \A k \in 1..N : k \in Nat /\ k - 1 \in 0..N
      BY <1>1
    <2>2. QED
      BY <1>6, <1>1, <2>1 DEF Iterates
  <1>8. Def(f)
    <2>1. f = [k \in 0..N |-> f[k]]
      OBVIOUS
    <2>2. \A k \in 0..N : f[k] = (IF k = 0 THEN a ELSE Up(f[k - 1], k))
      BY <1>7, <1>1
    <2>3. QED
      BY <2>1, <2>2
  <1>9. Def(h)
    <2> HIDE DEF Def
    <2> QED
      BY <1>8
  <1> HIDE DEF h
  <1>10. h[0] = a /\ \A k \in 1..N : h[k] = Up(h[k - 1], k)
    BY <1>9, <1>1
  <1>11. FitsUpTo(h[N], n, vs, N)
    <2> DEFINE S == {k \in 0..N : FitsUpTo(h[k], n, vs, k)}
    <2>1. 0 \in S
      <3>1. \A v : Count(vs, 0, v) = 0
        BY CountNone
      <3>2. FitsUpTo(NoExtent(n), n, vs, 0)
        BY <1>3, <3>1 DEF FitsUpTo, NoExtent, a
      <3>3. QED
        BY <3>2, <1>10, <1>1 DEF a
    <2>2. ASSUME NEW k \in 1..N, k - 1 \in S
          PROVE  k \in S
      <3>1. k - 1 \in Nat /\ (k - 1) + 1 = k /\ k \in DOMAIN vs
        BY <1>1
      <3>2. FitsUpTo(h[k - 1], n, vs, k - 1)
        BY <2>2
      <3>3. FitsUpTo(Extended(h[k - 1], vs[k]), n, vs, k)
        BY <3>1, <3>2, ExtendedFits
      <3>4. QED
        BY <3>3, <1>10, <1>1 DEF Up
    <2> HIDE DEF S
    <2>3. 0..N \subseteq S
      BY <2>1, <2>2, BoundedInduction, <1>1
    <2>4. QED
      BY <2>3, <1>1 DEF S
  <1>12. \A v : Count(vs, N, v) = Cardinality(LyingOn(vs, v))
    BY <1>1 DEF Count, LyingOn
  <1>13. \A v : (\E i \in 1..N : vs[i] = v) => Cardinality(LyingOn(vs, v)) > 0
    BY <1>1, LyingFinite
  <1>14. h[N] \in Axis
    BY <1>11 DEF FitsUpTo
  <1>15. AxisFits(h[N], vs)
    <2>1. \A k \in DOMAIN vs : vs[k] \in h[N].min..h[N].max
      BY <1>1, <1>11, <1>14 DEF FitsUpTo, Axis
    <2>2. QED
      BY <2>1, <1>1, <1>11, <1>12, <1>13 DEF FitsUpTo, AxisFits
  <1>16. QED
    BY <1>4, <1>14, <1>15

(* A list of coordinates has one extent.                                   *)
LEMMA FitsUnique ==
  ASSUME NEW vs \in Seq(Int), NEW a \in Axis, NEW b \in Axis,
         AxisFits(a, vs), AxisFits(b, vs)
  PROVE  a = b
  <1>1. \A v : Cardinality(LyingOn(vs, v)) > 0 => \E k \in DOMAIN vs : vs[k] = v
    BY LyingFinite
  <1>2. a.min = b.min /\ a.max = b.max
    <2>1. PICK i \in DOMAIN vs, j \in DOMAIN vs : vs[i] = a.min /\ vs[j] = b.min
      BY <1>1 DEF AxisFits
    <2>2. PICK k \in DOMAIN vs, l \in DOMAIN vs : vs[k] = a.max /\ vs[l] = b.max
      BY <1>1 DEF AxisFits
    <2>3. QED
      BY <2>1, <2>2 DEF AxisFits, Axis
  <1>3. a.onMin = b.onMin /\ a.onMax = b.onMax
    BY <1>2 DEF AxisFits
  <1>4. QED
    BY <1>2, <1>3 DEF Axis

(* The list ws is vs after an instance has moved to new.                   *)
MovedTo(ws, vs, i, new) == ws = [vs EXCEPT ![i] = new]

(* One more lies on new then, and one less where the instance was.         *)
Recounts(ws, vs, i, new, v) ==
    Cardinality(LyingOn(ws, v)) =
      IF v = new THEN Cardinality(LyingOn(vs, v)) + 1
      ELSE IF v = vs[i] THEN Cardinality(LyingOn(vs, v)) - 1
      ELSE Cardinality(LyingOn(vs, v))

(* How many instances lie on a coordinate after one of them has moved.     *)
LEMMA CountMoved ==
  ASSUME NEW vs \in Seq(Int), NEW i \in DOMAIN vs, NEW new \in Int, new # vs[i], NEW v \in Int,
         NEW ws, MovedTo(ws, vs, i, new)
  PROVE  Recounts(ws, vs, i, new, v)
  <1> DEFINE S == LyingOn(vs, v)
             T == LyingOn(ws, v)
  <1>1. IsFiniteSet(S) /\ Cardinality(S) \in Nat
    BY LyingFinite
  <1>2. IsFiniteSet(T) /\ Cardinality(T) \in Nat
    <2>1. ws \in Seq(Int)
      BY DEF MovedTo
    <2>2. QED
      BY <2>1, LyingFinite
  <1>3. CASE v = new
    <2>1. i \notin S /\ T = S \cup {i}
      BY <1>3 DEF LyingOn, MovedTo
    <2> HIDE DEF S, T
    <2>2. Cardinality(T) = Cardinality(S) + 1
      BY <2>1, <1>1, FS_AddElement
    <2>3. QED
      BY <1>3, <2>2 DEF S, T, Recounts
  <1>4. CASE v = vs[i]
    <2>1. i \in S /\ T = S \ {i}
      BY <1>4 DEF LyingOn, MovedTo
    <2> HIDE DEF S, T
    <2>2. Cardinality(T) = Cardinality(S) - 1
      BY <2>1, <1>1, FS_RemoveElement
    <2>3. QED
      BY <1>4, <2>2 DEF S, T, Recounts
  <1>5. CASE v # new /\ v # vs[i]
    <2>1. T = S
      BY <1>5 DEF LyingOn, MovedTo
    <2>2. QED
      BY <1>5, <2>1 DEF Recounts
  <1>6. QED
    BY <1>3, <1>4, <1>5

(* The update of one side is its extent after the move, unless the last    *)
(* instance leaves an extreme inwards.                                     *)
LEMMA MovedFits ==
  ASSUME NEW vs \in Seq(Int), NEW i \in DOMAIN vs, NEW new \in Int,
         NEW a \in Axis, AxisFits(a, vs), ~Forced(a, vs[i], new)
  PROVE  /\ MovedAxis(a, vs[i], new) \in Axis
         /\ AxisFits(MovedAxis(a, vs[i], new), [vs EXCEPT ![i] = new])
  <1> DEFINE old == vs[i]
             ws  == [vs EXCEPT ![i] = new]
             b   == MovedAxis(a, old, new)
             on  == [v \in Int |-> Cardinality(LyingOn(vs, v))]
             on2 == [v \in Int |-> Cardinality(LyingOn(ws, v))]
  <1>1. old \in Int /\ a.min \in Int /\ a.max \in Int /\ a.onMin \in Int /\ a.onMax \in Int
    BY DEF Axis
  <1>2. /\ a.min <= old /\ old <= a.max /\ a.onMin = on[a.min] /\ a.onMax = on[a.max]
        /\ a.onMin > 0 /\ a.onMax > 0
    BY <1>1 DEF AxisFits
  <1>3. /\ ws \in Seq(Int) /\ DOMAIN ws = DOMAIN vs /\ ws[i] = new
        /\ \A k \in DOMAIN vs : k # i => ws[k] = vs[k]
    OBVIOUS
  <1>4. \A v \in Int : on[v] \in Nat
    BY LyingFinite
  <1>5. \A v \in Int : new # old =>
            on2[v] = IF v = new THEN on[v] + 1 ELSE IF v = old THEN on[v] - 1 ELSE on[v]
    <2> SUFFICES ASSUME NEW v \in Int, new # vs[i]
                 PROVE  on2[v] = IF v = new THEN on[v] + 1 ELSE IF v = old THEN on[v] - 1 ELSE on[v]
      OBVIOUS
    <2>1. PICK us : us = ws /\ MovedTo(us, vs, i, new)
      BY DEF MovedTo
    <2>2. Recounts(us, vs, i, new, v)
      BY <2>1, CountMoved
    <2>3. QED
      BY <2>1, <2>2 DEF Recounts
  <1>6. \A v \in Int : v < a.min \/ v > a.max => on[v] = 0
    <2> TAKE v \in Int
    <2> HAVE v < a.min \/ v > a.max
    <2>1. LyingOn(vs, v) = {}
      BY <1>1 DEF AxisFits, LyingOn
    <2>2. QED
      BY <2>1, FS_EmptySet
  <1>7. b \in Axis
    BY <1>1 DEF MovedAxis, Axis
  <1> HIDE DEF on, on2
  <1>8. /\ b.min <= new /\ new <= b.max
        /\ b.onMin = on2[b.min] /\ b.onMin > 0
        /\ b.onMax = on2[b.max] /\ b.onMax > 0
        /\ new # old => b.min <= a.min /\ a.max <= b.max
    <2>1. CASE new < old
      <3>1. /\ b.min = IF new < a.min THEN new ELSE a.min
            /\ b.onMin = IF new < a.min THEN 1 ELSE IF new = a.min THEN a.onMin + 1 ELSE a.onMin
            /\ b.max = a.max
            /\ b.onMax = IF old = a.max THEN a.onMax - 1 ELSE a.onMax
        BY <2>1 DEF MovedAxis
      <3>2. ~(old = a.max /\ a.onMax = 1)
        BY <2>1 DEF Forced
      <3>3. b.onMin = on2[b.min] /\ b.onMin > 0
        BY <2>1, <3>1, <1>1, <1>2, <1>4, <1>5, <1>6, SMTT(30)
      <3>4. b.onMax = on2[b.max] /\ b.onMax > 0
        BY <2>1, <3>1, <3>2, <1>1, <1>2, <1>4, <1>5
      <3>5. QED
        BY <2>1, <3>1, <3>3, <3>4, <1>1, <1>2
    <2>2. CASE new > old
      <3>1. /\ b.max = IF new > a.max THEN new ELSE a.max
            /\ b.onMax = IF new > a.max THEN 1 ELSE IF new = a.max THEN a.onMax + 1 ELSE a.onMax
            /\ b.min = a.min
            /\ b.onMin = IF old = a.min THEN a.onMin - 1 ELSE a.onMin
        BY <2>2, <1>1 DEF MovedAxis
      <3>2. ~(old = a.min /\ a.onMin = 1)
        BY <2>2 DEF Forced
      <3>3. b.onMax = on2[b.max] /\ b.onMax > 0
        BY <2>2, <3>1, <1>1, <1>2, <1>4, <1>5, <1>6, SMTT(30)
      <3>4. b.onMin = on2[b.min] /\ b.onMin > 0
        BY <2>2, <3>1, <3>2, <1>1, <1>2, <1>4, <1>5
      <3>5. QED
        BY <2>2, <3>1, <3>3, <3>4, <1>1, <1>2
    <2>3. CASE new = old
      <3>1. b = a /\ ws = vs
        BY <2>3, <1>1 DEF MovedAxis
      <3>2. QED
        BY <2>3, <3>1, <1>2 DEF on, on2
    <2>4. QED
      BY <2>1, <2>2, <2>3, <1>1
  <1>9. b.min \in Int /\ b.max \in Int /\ b.onMin \in Int /\ b.onMax \in Int
    BY <1>7 DEF Axis
  <1>10. ASSUME NEW k \in DOMAIN ws
         PROVE  ws[k] \in b.min..b.max
    <2>1. CASE k = i
      BY <2>1, <1>3, <1>8, <1>9
    <2>2. CASE k # i /\ new # old
      <3>1. vs[k] \in Int /\ a.min <= vs[k] /\ vs[k] <= a.max
        BY <1>1, <1>3 DEF AxisFits
      <3>2. QED
        BY <2>2, <3>1, <1>1, <1>3, <1>8, <1>9, SMTT(30)
    <2>3. CASE new = old
      <3>1. b = a /\ ws = vs
        BY <2>3, <1>1 DEF MovedAxis
      <3>2. QED
        BY <3>1 DEF AxisFits
    <2>4. QED
      BY <2>1, <2>2, <2>3
  <1>11. AxisFits(b, ws)
    BY <1>8, <1>9, <1>10 DEF AxisFits, on2
  <1>12. QED
    BY <1>7, <1>11

(* One side of the box: the update is what would be computed anew.         *)
LEMMA SideIsExact ==
  ASSUME NEW n \in Nat, NEW vs \in Seq(0..(n + 1)), NEW i \in DOMAIN vs, NEW new \in 0..(n + 1),
         ~Forced(ComputedAxis(n, vs), vs[i], new)
  PROVE  MovedAxis(ComputedAxis(n, vs), vs[i], new) = ComputedAxis(n, [vs EXCEPT ![i] = new])
  <1> DEFINE ws == [vs EXCEPT ![i] = new]
  <1>1. /\ ws \in Seq(0..(n + 1)) /\ ws # <<>> /\ vs # <<>>
        /\ ws \in Seq(Int) /\ vs \in Seq(Int) /\ new \in Int
    OBVIOUS
  <1> HIDE DEF ws
  <1>2. ComputedAxis(n, vs) \in Axis /\ AxisFits(ComputedAxis(n, vs), vs)
    BY <1>1, ComputedFits
  <1>3. ComputedAxis(n, ws) \in Axis /\ AxisFits(ComputedAxis(n, ws), ws)
    BY <1>1, ComputedFits
  <1>4. /\ MovedAxis(ComputedAxis(n, vs), vs[i], new) \in Axis
        /\ AxisFits(MovedAxis(ComputedAxis(n, vs), vs[i], new), ws)
    BY <1>1, <1>2, MovedFits DEF ws
  <1>5. QED
    BY <1>1, <1>3, <1>4, FitsUnique DEF ws
-----------------------------------------------------------------------------
(* Where the instances of a net are on a device of the given scale.        *)
Places(scale) == Seq([x : 0..(scale.x + 1), y : 0..(scale.y + 1)])

(* update_bounding_box is exact: the box of a net, updated for the move of *)
(* one instance, is the box compute_bounding_box makes of the new places,  *)
(* whatever was on its sides.  (The box is a net's own: a net that has     *)
(* several instances moved at once is another matter.)                     *)
THEOREM UpdateIsExact ==
  ASSUME NEW scale \in [x : Nat, y : Nat], NEW ps \in Places(scale), NEW i \in DOMAIN ps,
         NEW new \in [x : 0..(scale.x + 1), y : 0..(scale.y + 1)],
         NEW all, all = ComputedBox(scale, [ps EXCEPT ![i] = new])
  PROVE  UpdatedBox(ComputedBox(scale, ps), ps[i], new, all) = all
  <1> DEFINE qs  == [ps EXCEPT ![i] = new]
             xs  == [k \in DOMAIN ps |-> ps[k].x]
             ys  == [k \in DOMAIN ps |-> ps[k].y]
             b   == ComputedBox(scale, ps)
  <1>1. /\ xs \in Seq(0..(scale.x + 1)) /\ ys \in Seq(0..(scale.y + 1))
        /\ DOMAIN xs = DOMAIN ps /\ DOMAIN ys = DOMAIN ps
        /\ xs # <<>> /\ ys # <<>>
        /\ xs[i] = ps[i].x /\ ys[i] = ps[i].y
    <2>1. DOMAIN ps = 1..Len(ps) /\ Len(ps) \in Nat
      BY DEF Places
    <2>2. \A k \in 1..Len(ps) : ps[k].x \in 0..(scale.x + 1) /\ ps[k].y \in 0..(scale.y + 1)
      <3> DEFINE Q == [x : 0..(scale.x + 1), y : 0..(scale.y + 1)]
      <3>1. ps \in Seq(Q)
        BY DEF Places
      <3>2. \A p \in Q : p.x \in 0..(scale.x + 1) /\ p.y \in 0..(scale.y + 1)
        OBVIOUS
      <3> HIDE DEF Q
      <3>3. QED
        BY <3>1, <3>2
    <2>3. /\ xs \in [1..Len(ps) -> 0..(scale.x + 1)]
          /\ ys \in [1..Len(ps) -> 0..(scale.y + 1)]
      BY <2>1, <2>2
    <2>4. xs \in Seq(0..(scale.x + 1)) /\ ys \in Seq(0..(scale.y + 1))
      BY <2>1, <2>3, SeqDef
    <2>5. DOMAIN xs # {} /\ DOMAIN ys # {}
      BY <2>1
    <2>6. QED
      BY <2>1, <2>4, <2>5
  <1>2. /\ [k \in DOMAIN qs |-> qs[k].x] = [xs EXCEPT ![i] = new.x]
        /\ [k \in DOMAIN qs |-> qs[k].y] = [ys EXCEPT ![i] = new.y]
    BY DEF Places
  <1>3. /\ [xs EXCEPT ![i] = new.x] \in Seq(0..(scale.x + 1))
        /\ [ys EXCEPT ![i] = new.y] \in Seq(0..(scale.y + 1))
        /\ [xs EXCEPT ![i] = new.x] # <<>>
        /\ [ys EXCEPT ![i] = new.y] # <<>>
    BY <1>1
  <1>4. /\ b.x = ComputedAxis(scale.x, xs) /\ b.y = ComputedAxis(scale.y, ys)
        /\ all = [x |-> ComputedAxis(scale.x, [xs EXCEPT ![i] = new.x]),
                  y |-> ComputedAxis(scale.y, [ys EXCEPT ![i] = new.y])]
    BY <1>2 DEF ComputedBox
  <1> HIDE DEF xs, ys
  <1>5. ~Forced(b.x, ps[i].x, new.x) => MovedAxis(b.x, ps[i].x, new.x) = all.x
    <2>1. scale.x \in Nat /\ new.x \in 0..(scale.x + 1) /\ i \in DOMAIN xs
      BY <1>1
    <2> HIDE DEF b
    <2>2. all.x = ComputedAxis(scale.x, [xs EXCEPT ![i] = new.x])
      BY <1>4
    <2>3. ~Forced(ComputedAxis(scale.x, xs), xs[i], new.x) =>
            MovedAxis(ComputedAxis(scale.x, xs), xs[i], new.x)
              = ComputedAxis(scale.x, [xs EXCEPT ![i] = new.x])
      <3> DEFINE n == scale.x
                 v == new.x
      <3>1. n \in Nat /\ v \in 0..(n + 1) /\ xs \in Seq(0..(n + 1)) /\ i \in DOMAIN xs
        BY <2>1, <1>1
      <3> HIDE DEF n, v
      <3>2. ~Forced(ComputedAxis(n, xs), xs[i], v) =>
              MovedAxis(ComputedAxis(n, xs), xs[i], v) = ComputedAxis(n, [xs EXCEPT ![i] = v])
        BY <3>1, SideIsExact
      <3>3. QED
        BY <3>2 DEF n, v
    <2>4. QED
      BY <2>2, <2>3, <1>1, <1>4
  <1>6. ~Forced(b.y, ps[i].y, new.y) => MovedAxis(b.y, ps[i].y, new.y) = all.y
    <2>1. scale.y \in Nat /\ new.y \in 0..(scale.y + 1) /\ i \in DOMAIN ys
      BY <1>1
    <2> HIDE DEF b
    <2>2. all.y = ComputedAxis(scale.y, [ys EXCEPT ![i] = new.y])
      BY <1>4
    <2>3. ~Forced(ComputedAxis(scale.y, ys), ys[i], new.y) =>
            MovedAxis(ComputedAxis(scale.y, ys), ys[i], new.y)
              = ComputedAxis(scale.y, [ys EXCEPT ![i] = new.y])
      <3> DEFINE n == scale.y
                 v == new.y
      <3>1. n \in Nat /\ v \in 0..(n + 1) /\ ys \in Seq(0..(n + 1)) /\ i \in DOMAIN ys
        BY <2>1, <1>1
      <3> HIDE DEF n, v
      <3>2. ~Forced(ComputedAxis(n, ys), ys[i], v) =>
              MovedAxis(ComputedAxis(n, ys), ys[i], v) = ComputedAxis(n, [ys EXCEPT ![i] = v])
        BY <3>1, SideIsExact
      <3>3. QED
        BY <3>2 DEF n, v
    <2>4. QED
      BY <2>2, <2>3, <1>1, <1>4
  <1>7. all = [x |-> all.x, y |-> all.y]
    BY <1>4
  <1> HIDE DEF b
  <1>8. UpdatedBox(b, ps[i], new, all) = all
    BY <1>5, <1>6, <1>7 DEF UpdatedBox
  <1>9. QED
    BY <1>8 DEF b
-----------------------------------------------------------------------------
(* What net k adds to a sum over nets, and the sum up to it. *)
Term(cost, k) == IF k \in DOMAIN cost THEN cost[k] ELSE 0

IsTotal(f, cost) ==
    /\ f \in [0..Len(nl.nets) -> Int] /\ f[0] = 0
    /\ \A k \in 1..Len(nl.nets) : f[k] = f[k - 1] + Term(cost, k)

(* The sum is that of the terms up to the last net. *)
LEMMA TotalIs ==
  ASSUME NEW cost, Len(nl.nets) \in Nat, \A k \in DOMAIN cost : cost[k] \in Int
  PROVE  \E f : IsTotal(f, cost) /\ Total(cost) = f[Len(nl.nets)]
  <1> DEFINE N      == Len(nl.nets)
             Up(s, k) == s + (IF k \in DOMAIN cost THEN cost[k] ELSE 0)
             G      == [k \in Nat |-> [s \in Int |-> Up(s, k)]]
             Def(h) == h = [k \in 0..N |-> IF k = 0 THEN 0 ELSE Up(h[k - 1], k)]
             h      == CHOOSE g : Def(g)
  <1>1. N \in Nat
    OBVIOUS
  <1>2. \A k \in Nat : \A s \in Int : Up(s, k) \in Int
    OBVIOUS
  <1>3. Total(cost) = h[N]
    BY DEF Total
  <1>4. \A s, k : Up(s, k) = s + Term(cost, k)
    BY DEF Term
  <1> HIDE DEF Up, N
  <1>5. G \in [Nat -> [Int -> Int]]
    BY <1>2
  <1>6. \E f : Iterates(f, Int, 0, G, N)
    <2>1. 0 \in Int
      OBVIOUS
    <2> HIDE DEF G
    <2>2. QED
      BY <1>1, <1>5, <2>1, IterateExists
  <1>7. PICK f \in [0..N -> Int] : f[0] = 0 /\ \A k \in 1..N : f[k] = Up(f[k - 1], k)
    <2>1. PICK f : Iterates(f, Int, 0, G, N)
      BY <1>6
    <2>2. f \in [0..N -> Int] /\ f[0] = 0 /\ \A k \in 1..N : f[k] = G[k][f[k - 1]]
      BY <2>1 DEF Iterates
    <2>3. \A k \in 1..N : k \in Nat /\ f[k - 1] \in Int
      BY <1>1, <2>2
    <2>4. \A k \in 1..N : f[k] = Up(f[k - 1], k)
      BY <2>2, <2>3
    <2>5. QED
      BY <2>2, <2>4
  <1>8. Def(f)
    <2>1. f = [k \in 0..N |-> f[k]]
      OBVIOUS
    <2>2. \A k \in 0..N : f[k] = IF k = 0 THEN 0 ELSE Up(f[k - 1], k)
      BY <1>1, <1>7
    <2>3. QED
      BY <2>1, <2>2
  <1>9. Def(h)
    BY <1>8
  <1> HIDE DEF h
  <1>10. h[0] = 0 /\ \A k \in 1..N : h[k] = Up(h[k - 1], k)
    BY <1>1, <1>9
  <1>11. h = f
    <2> DEFINE S == {k \in 0..N : h[k] = f[k]}
    <2>1. 0 \in S
      BY <1>1, <1>7, <1>10
    <2>2. \A k \in 1..N : k - 1 \in S => k \in S
      BY <1>1, <1>7, <1>10
    <2>3. 0..N \subseteq S
      <3> HIDE DEF S
      <3> QED
        BY <1>1, <2>1, <2>2, BoundedInduction
    <2>4. h = [k \in 0..N |-> h[k]]
      BY <1>9
    <2>5. QED
      BY <2>3, <2>4
  <1>12. IsTotal(f, cost)
    BY <1>4, <1>7 DEF IsTotal, N
  <1>13. QED
    BY <1>3, <1>11, <1>12 DEF N

(* Sums add up term by term. *)
LEMMA TotalAdds ==
  ASSUME Len(nl.nets) \in Nat, NEW a, NEW b, NEW c,
         \A k \in DOMAIN a : a[k] \in Int, \A k \in DOMAIN b : b[k] \in Int, \A k \in DOMAIN c : c[k] \in Int,
         \A k \in 1..Len(nl.nets) : Term(a, k) = Term(b, k) + Term(c, k)
  PROVE  Total(a) = Total(b) + Total(c)
  <1>1. PICK N \in Nat : N = Len(nl.nets)
    OBVIOUS
  <1>2. PICK f : IsTotal(f, a) /\ Total(a) = f[N]
    BY <1>1, TotalIs
  <1>3. PICK g : IsTotal(g, b) /\ Total(b) = g[N]
    BY <1>1, TotalIs
  <1>4. PICK h : IsTotal(h, c) /\ Total(c) = h[N]
    BY <1>1, TotalIs
  <1> DEFINE S == {k \in 0..N : f[k] = g[k] + h[k]}
  <1>5. 0 \in S
    BY <1>2, <1>3, <1>4 DEF IsTotal
  <1>6. ASSUME NEW k \in 1..N, k - 1 \in S
        PROVE  k \in S
    <2>1. /\ f[k] = f[k - 1] + Term(a, k) /\ g[k] = g[k - 1] + Term(b, k) /\ h[k] = h[k - 1] + Term(c, k)
      BY <1>1, <1>2, <1>3, <1>4 DEF IsTotal
    <2>2. Term(a, k) = Term(b, k) + Term(c, k)
      BY <1>1
    <2>3. Term(b, k) \in Int /\ Term(c, k) \in Int
      BY DEF Term
    <2>4. g[k - 1] \in Int /\ h[k - 1] \in Int
      <3>1. k - 1 \in 0..N
        OBVIOUS
      <3>2. g \in [0..N -> Int] /\ h \in [0..N -> Int]
        BY <1>1, <1>3, <1>4 DEF IsTotal
      <3>3. QED
        BY <3>1, <3>2
    <2>5. QED
      BY <1>6, <2>1, <2>2, <2>3, <2>4
  <1>7. 0..N \subseteq S
    <2> HIDE DEF S
    <2> QED
      BY <1>5, <1>6, BoundedInduction
  <1>8. QED
    BY <1>2, <1>3, <1>4, <1>7
-----------------------------------------------------------------------------
(* A list without repetitions. *)
Distinct(s) == \A j, k \in DOMAIN s : s[j] = s[k] => j = k

(* One more member, unless it is one already. *)
LEMMA DistinctAppend ==
  ASSUME NEW I, NEW s \in Seq(I), Distinct(s), NEW i \in I, i \notin ElemsOf(s)
  PROVE  Distinct(Append(s, i)) /\ Append(s, i) \in Seq(I) /\ Append(s, i) # <<>>
  <1>1. /\ Len(s) \in Nat /\ DOMAIN s = 1..Len(s)
        /\ Append(s, i) \in Seq(I) /\ Len(Append(s, i)) = Len(s) + 1
        /\ Append(s, i)[Len(s) + 1] = i
        /\ \A k \in 1..Len(s) : Append(s, i)[k] = s[k]
    OBVIOUS
  <1>2. \A k \in 1..Len(s) : s[k] # i
    BY <1>1 DEF ElemsOf
  <1>3. DOMAIN Append(s, i) = 1..(Len(s) + 1)
    BY <1>1
  <1>4. Append(s, i) # <<>>
    BY <1>1
  <1>5. PICK t : t = Append(s, i)
    OBVIOUS
  <1>6. ASSUME NEW j \in 1..(Len(s) + 1), NEW k \in 1..(Len(s) + 1), t[j] = t[k]
        PROVE  j = k
    <2>1. CASE j = Len(s) + 1 /\ k # Len(s) + 1
      BY <1>1, <1>2, <1>5, <1>6, <2>1
    <2>2. CASE k = Len(s) + 1 /\ j # Len(s) + 1
      BY <1>1, <1>2, <1>5, <1>6, <2>2
    <2>3. CASE j # Len(s) + 1 /\ k # Len(s) + 1
      <3>1. j \in 1..Len(s) /\ k \in 1..Len(s)
        BY <1>1, <2>3
      <3>2. QED
        BY <1>1, <1>5, <1>6, <3>1 DEF Distinct
    <2>4. QED
      BY <2>1, <2>2, <2>3
  <1>7. QED
    BY <1>1, <1>3, <1>4, <1>5, <1>6 DEF Distinct

(* The instances on a net that counts: each of them once. *)
LEMMA ConnectedFit ==
  ASSUME NEW I, NEW n, n.pins \in Seq([inst : I, name : STRING, source : BOOLEAN]), ~Ignored(n)
  PROVE  ConnectedInsts(n) \in Seq(I) /\ ConnectedInsts(n) # <<>> /\ Distinct(ConnectedInsts(n))
  <1> DEFINE N      == Len(n.pins)
             V      == Seq(I)
             Up(s, k) == IF n.pins[k].inst \in ElemsOf(s) THEN s ELSE Append(s, n.pins[k].inst)
             G      == [k \in Nat |-> [s \in V |-> IF k \in 1..N THEN Up(s, k) ELSE s]]
             Def(h) == h = [k \in 0..N |-> IF k = 0 THEN <<>>
                                           ELSE IF n.pins[k].inst \in ElemsOf(h[k - 1]) THEN h[k - 1]
                                           ELSE Append(h[k - 1], n.pins[k].inst)]
             h      == CHOOSE g : Def(g)
  <1>1. N \in Nat /\ DOMAIN n.pins = 1..N /\ \A k \in 1..N : n.pins[k].inst \in I
    <2> DEFINE R == [inst : I, name : STRING, source : BOOLEAN]
    <2>1. \A p \in R : p.inst \in I
      OBVIOUS
    <2>2. PICK pins : pins = n.pins /\ pins \in Seq(R)
      OBVIOUS
    <2> HIDE DEF R
    <2>3. Len(pins) \in Nat /\ DOMAIN pins = 1..Len(pins) /\ \A k \in 1..Len(pins) : pins[k] \in R
      BY <2>2
    <2>4. QED
      BY <2>1, <2>2, <2>3
  <1>2. N # 0
    <2>1. PICK k \in DOMAIN n.pins : n.pins[k].source
      BY DEF Ignored
    <2>2. QED
      BY <1>1, <2>1
  <1>3. ConnectedInsts(n) = h[N]
    BY DEF ConnectedInsts
  <1>4. \A k \in 1..N : \A s \in V : Up(s, k) \in V
    <2> SUFFICES ASSUME NEW k \in 1..N, NEW s \in V
                 PROVE  Up(s, k) \in V
      OBVIOUS
    <2>1. PICK i \in I : i = n.pins[k].inst
      BY <1>1
    <2>2. Append(s, i) \in Seq(I)
      BY <2>1
    <2>3. QED
      BY <2>1, <2>2
  <1>5. <<>> \in V
    OBVIOUS
  <1>6. \A g : Def(g) <=> g = [k \in 0..N |-> IF k = 0 THEN <<>> ELSE Up(g[k - 1], k)]
    OBVIOUS
  <1> HIDE DEF V, N, Def, Up
  <1>7. G \in [Nat -> [V -> V]] /\ \A k \in 1..N : \A s \in V : G[k][s] = Up(s, k)
    BY <1>1, <1>4
  <1>8. \E f : Iterates(f, V, <<>>, G, N)
    <2> HIDE DEF G
    <2> QED
      BY <1>1, <1>5, <1>7, IterateExists
  <1>9. PICK f : f \in [0..N -> V] /\ f[0] = <<>> /\ \A k \in 1..N : f[k] = Up(f[k - 1], k)
    <2> HIDE DEF G
    <2>1. PICK f : Iterates(f, V, <<>>, G, N)
      BY <1>8
    <2>2. f \in [0..N -> V] /\ f[0] = <<>> /\ \A k \in 1..N : f[k] = G[k][f[k - 1]]
      BY <2>1 DEF Iterates
    <2>3. \A k \in 1..N : f[k - 1] \in V
      BY <1>1, <2>2
    <2>4. \A k \in 1..N : f[k] = Up(f[k - 1], k)
      BY <1>7, <2>2, <2>3
    <2>5. QED
      BY <2>2, <2>4
  <1>10. Def(f)
    <2>1. f = [k \in 0..N |-> f[k]]
      BY <1>9
    <2>2. \A k \in 0..N : f[k] = IF k = 0 THEN <<>> ELSE Up(f[k - 1], k)
      BY <1>1, <1>9
    <2>3. f = [k \in 0..N |-> IF k = 0 THEN <<>> ELSE Up(f[k - 1], k)]
      BY <2>1, <2>2
    <2>4. QED
      BY <1>6, <2>3
  <1>11. Def(h)
    BY <1>10
  <1>12. h = [k \in 0..N |-> IF k = 0 THEN <<>> ELSE Up(h[k - 1], k)]
    BY <1>6, <1>11
  <1> HIDE DEF h
  <1>13. h[0] = <<>> /\ \A k \in 1..N : h[k] = Up(h[k - 1], k)
    <2>1. 0 \in 0..N /\ \A k \in 1..N : k \in 0..N /\ k # 0
      BY <1>1
    <2>2. QED
      BY <1>12, <2>1
  <1> DEFINE S == {k \in 0..N : h[k] \in V /\ Distinct(h[k]) /\ (k # 0 => h[k] # <<>>)}
  <1>14. 0 \in S
    BY <1>1, <1>5, <1>13 DEF Distinct
  <1>15. ASSUME NEW k \in 1..N, k - 1 \in S
         PROVE  k \in S
    <2>1. PICK s \in V : s = h[k - 1] /\ Distinct(s)
      BY <1>15
    <2>2. PICK i \in I : i = n.pins[k].inst
      BY <1>1
    <2>3. h[k] = IF i \in ElemsOf(s) THEN s ELSE Append(s, i)
      BY <1>13, <2>1, <2>2 DEF Up
    <2>4. CASE i \in ElemsOf(s)
      <3>1. s # <<>>
        BY <2>4 DEF ElemsOf
      <3>2. h[k] = s
        BY <2>3, <2>4
      <3>3. k \in 0..N
        BY <1>1
      <3>4. h[k] \in V /\ Distinct(h[k]) /\ h[k] # <<>>
        BY <2>1, <3>1, <3>2
      <3>5. QED
        BY <3>3, <3>4
    <2>5. CASE i \notin ElemsOf(s)
      <3>1. Distinct(Append(s, i)) /\ Append(s, i) \in Seq(I) /\ Append(s, i) # <<>>
        BY <2>1, <2>5, DistinctAppend DEF V
      <3>2. h[k] = Append(s, i)
        BY <2>3, <2>5
      <3>3. k \in 0..N
        BY <1>1
      <3>4. h[k] \in V /\ Distinct(h[k]) /\ h[k] # <<>>
        BY <3>1, <3>2 DEF V
      <3>5. QED
        BY <3>3, <3>4
    <2>6. QED
      BY <2>4, <2>5
  <1>16. 0..N \subseteq S
    <2> HIDE DEF S
    <2> QED
      BY <1>1, <1>14, <1>15, BoundedInduction
  <1>17. N \in S
    BY <1>1, <1>16
  <1>18. QED
    BY <1>2, <1>3, <1>17 DEF V
-----------------------------------------------------------------------------
(* An instance that has a place while the annealing runs.                  *)
Seated(i) == i \in Inst /\ (IsFixed(i) \/ IsMember(i))

(* The nets that have a cost: each joins instances that have a place, and  *)
(* none twice.                                                             *)
Wired ==
    /\ Len(nl.nets) \in Nat /\ DOMAIN nl.nets = 1..Len(nl.nets)
    /\ \A n \in Nets : /\ Insts(n) \in Seq(Inst) /\ Insts(n) # <<>> /\ Distinct(Insts(n))
                       /\ \A k \in DOMAIN Insts(n) : Seated(Insts(n)[k])
    /\ \A p \in Sinks : Seated(SourceInst(p)) /\ Seated(SinkInst(p))

(* The device: where its tiles are, and delays for all distances.          *)
Scaled ==
    /\ Scale \in [x : Nat, y : Nat]
    /\ \A t \in Tile : PhyPos[t] \in [x : 0..(Scale.x + 1), y : 0..(Scale.y + 1)]
    /\ \A a, b \in Nat : TableDelay(a, b) \in Int

(* An index that is capped at the end of a list is one of the list.        *)
LEMMA CappedIndex ==
  ASSUME NEW a \in Nat, NEW len \in Nat \ {0}
  PROVE  Lowest({a + 1, len}) \in 1..len
  <1>1. {a + 1, len} \subseteq Nat /\ {a + 1, len} # {}
    OBVIOUS
  <1>2. /\ Lowest({a + 1, len}) \in {a + 1, len}
        /\ \A v \in {a + 1, len} : Lowest({a + 1, len}) <= v
    BY <1>1, LowestFits
  <1>3. QED
    BY <1>2

(* The device of a design has a place for its tiles and a table of delays. *)
LEMMA DesignScaled ==
  ASSUME NEW d \in Netlists, nl = Prepared(d)
  PROVE  Scaled
  <1>1. PICK dev : dev = nl.device /\ dev = d.device
    BY DEF Prepared
  <1>2. Rows \in Nat /\ Cols \in Nat
    BY DesignFits DEF DeviceFits
  <1>3. Scale \in [x : Nat, y : Nat] /\ Scale.x = Rows /\ Scale.y = Cols
    BY <1>2 DEF Scale
  <1>4. \A t \in Tile : PhyPos[t] \in [x : 0..(Scale.x + 1), y : 0..(Scale.y + 1)]
    BY <1>1, <1>3, PhyAssumption DEF Tile, PhyPos, Rows, Cols
  <1>5. PICK table : table = dev.delays
    OBVIOUS
  <1>6. /\ table \in Seq(Seq(Int)) /\ table # <<>> /\ table[1] # <<>>
        /\ \A r \in DOMAIN table : Len(table[r]) = Len(table[1])
    BY <1>1, <1>5, TableAssumption
  <1>7. ASSUME NEW a \in Nat, NEW b \in Nat
        PROVE  TableDelay(a, b) \in Int
    <2>1. Len(table) \in Nat \ {0} /\ DOMAIN table = 1..Len(table) /\ 1 \in DOMAIN table
      BY <1>6
    <2>2. Lowest({a + 1, Len(table)}) \in DOMAIN table
      BY <2>1, CappedIndex
    <2>3. PICK r \in DOMAIN table : r = Lowest({a + 1, Len(table)})
      BY <2>2
    <2>4. table[r] \in Seq(Int) /\ Len(table[r]) = Len(table[1]) /\ table[1] \in Seq(Int)
      BY <1>6, <2>1, <2>3
    <2>5. Len(table[1]) \in Nat \ {0}
      BY <1>6, <2>4
    <2>6. PICK c \in 1..Len(table[1]) : c = Lowest({b + 1, Len(table[1])})
      BY <2>5, CappedIndex
    <2>7. table[r][c] \in Int
      BY <2>4, <2>6
    <2>8. TableDelay(a, b) = table[r][c]
      BY <1>1, <1>5, <2>3, <2>6 DEF TableDelay
    <2>9. QED
      BY <2>7, <2>8
  <1>8. QED
    BY <1>3, <1>4, <1>7 DEF Scaled

(* The nets of a design.                                                   *)
LEMMA DesignWired ==
  ASSUME NEW d \in Netlists, nl = Prepared(d)
  PROVE  Wired
  <1> DEFINE used == ElemsOf(d.insts)
             R == [inst : used, name : STRING, source : BOOLEAN]
             T == [pins : Seq(R), type : STRING, port : BOOLEAN]
  <1>1. TidyNets(d)
    BY NetsAssumption
  <1>2. /\ nl.nets = d.nets /\ nl.cst = d.cst
        /\ nl.ignored = {n \in DOMAIN d.nets : Ignored(d.nets[n])}
        /\ nl.connected = [n \in DOMAIN d.nets |-> ConnectedInsts(d.nets[n])]
    BY DEF Prepared
  <1>3. d.insts \in Seq(Inst) /\ used \subseteq Inst /\ DOMAIN d.cst \subseteq used
    BY <1>1 DEF TidyNets, ElemsOf
  <1>4. d.nets \in Seq(T)
    BY <1>1 DEF TidyNets
  <1>5. \A t \in T : t.pins \in Seq(R)
    OBVIOUS
  <1>6. \A r \in R : r.inst \in used
    OBVIOUS
  <1>7. \A i \in used : Seated(i)
    BY <1>1, <1>3, MembersAre DEF Seated
  <1> HIDE DEF T, used
  <1>8. /\ Len(nl.nets) \in Nat /\ DOMAIN nl.nets = 1..Len(nl.nets)
        /\ \A n \in DOMAIN nl.nets : nl.nets[n] \in T
    BY <1>2, <1>4
  <1>9. \A n \in Nets : n \in DOMAIN nl.nets /\ ~Ignored(nl.nets[n]) /\ nl.nets[n].pins \in Seq(R)
    BY <1>2, <1>5, <1>8 DEF Nets
  <1>10. ASSUME NEW n \in Nets
         PROVE  /\ Insts(n) \in Seq(Inst) /\ Insts(n) # <<>> /\ Distinct(Insts(n))
                /\ \A k \in DOMAIN Insts(n) : Seated(Insts(n)[k])
    <2>1. PICK t : t = nl.nets[n] /\ ~Ignored(t) /\ t.pins \in Seq(R)
      BY <1>9
    <2>2. Insts(n) = ConnectedInsts(t)
      BY <1>2, <1>9, <2>1 DEF Insts
    <2>3. ConnectedInsts(t) \in Seq(used) /\ ConnectedInsts(t) # <<>> /\ Distinct(ConnectedInsts(t))
      BY <2>1, ConnectedFit
    <2>4. PICK is \in Seq(used) : is = Insts(n)
      BY <2>2, <2>3
    <2>5. is \in Seq(Inst) /\ \A k \in DOMAIN is : is[k] \in used
      BY <1>3, <2>4
    <2>6. QED
      BY <1>7, <2>2, <2>3, <2>4, <2>5
  <1>11. ASSUME NEW p \in Sinks
         PROVE  Seated(SourceInst(p)) /\ Seated(SinkInst(p))
    <2>1. PICK n \in Nets : p \in {n} \X {k \in DOMAIN nl.nets[n].pins : ~nl.nets[n].pins[k].source}
      BY DEF Sinks
    <2>2. PICK pins \in Seq(R) : pins = nl.nets[n].pins
      BY <1>9
    <2>3. p[1] = n /\ p[2] \in DOMAIN pins
      BY <2>1, <2>2
    <2>4. \A k \in DOMAIN pins : pins[k].inst \in used
      <3> HIDE DEF R
      <3> QED
        BY <1>6, <2>2
    <2>5. SinkInst(p) \in used
      BY <2>2, <2>3, <2>4 DEF SinkInst
    <2>6. PICK S : S = {k \in DOMAIN pins : pins[k].source}
      OBVIOUS
    <2>7. S # {}
      BY <1>9, <2>2, <2>6 DEF Ignored
    <2>8. S \subseteq Nat
      <3> HIDE DEF R
      <3> QED
        BY <2>2, <2>6
    <2>9. Lowest(S) \in S
      BY <2>7, <2>8, LowestFits
    <2>10. SourceInst(p) = pins[Lowest(S)].inst
      BY <2>2, <2>3, <2>6 DEF SourceInst
    <2>11. SourceInst(p) \in used
      BY <2>4, <2>6, <2>9, <2>10
    <2>12. QED
      BY <1>7, <2>5, <2>11
  <1>12. QED
    BY <1>8, <1>10, <1>11 DEF Wired
-----------------------------------------------------------------------------
(* All that the nets join is placed.                                       *)
SeatedOn(pl) == \A i : Seated(i) => pl[i] \in Pos

(* Where the instances of net n are.                                       *)
PlacesOf(n, pl) == [k \in DOMAIN Insts(n) |-> PhyOf(pl[Insts(n)[k]])]

(* The coordinates of the instances of a net.                              *)
LEMMA PlacesFit ==
  ASSUME Wired, Scaled, NEW pl, SeatedOn(pl), NEW n \in Nets
  PROVE  /\ PlacesOf(n, pl) \in Places(Scale) /\ PlacesOf(n, pl) # <<>>
         /\ DOMAIN PlacesOf(n, pl) = DOMAIN Insts(n)
         /\ Scale \in [x : Nat, y : Nat]
  <1> DEFINE Q == [x : 0..(Scale.x + 1), y : 0..(Scale.y + 1)]
  <1>1. PICK is \in Seq(Inst) : is = Insts(n)
    BY DEF Wired
  <1>2. is # <<>> /\ \A k \in DOMAIN is : Seated(is[k])
    BY <1>1 DEF Wired
  <1>3. \A k \in DOMAIN is : pl[is[k]] \in Pos
    BY <1>2 DEF SeatedOn
  <1>4. \A p \in Pos : PhyOf(p) \in Q
    BY DEF Scaled, PhyOf, Pos
  <1>5. Scale \in [x : Nat, y : Nat]
    BY DEF Scaled
  <1> HIDE DEF Q
  <1>6. DOMAIN is = 1..Len(is) /\ Len(is) \in Nat
    BY <1>1
  <1>7. [k \in DOMAIN is |-> PhyOf(pl[is[k]])] \in Seq(Q)
    BY <1>3, <1>4, <1>6
  <1>8. [k \in DOMAIN is |-> PhyOf(pl[is[k]])] # <<>>
    <2>1. DOMAIN is # {}
      BY <1>2, <1>6
    <2>2. QED
      BY <2>1
  <1>9. PlacesOf(n, pl) = [k \in DOMAIN is |-> PhyOf(pl[is[k]])]
    BY <1>1 DEF PlacesOf
  <1>10. QED
    BY <1>1, <1>5, <1>7, <1>8, <1>9 DEF Places, Q

(* The box of a net is one.                                                *)
LEMMA BoxFits ==
  ASSUME Wired, Scaled, NEW pl, SeatedOn(pl), NEW n \in Nets
  PROVE  /\ BoxOf(n, pl) \in [x : Axis, y : Axis]
         /\ BoxOf(n, pl) # NULL
         /\ BbCost(BoxOf(n, pl)) \in Int
         /\ AxisFits(BoxOf(n, pl).x, [k \in DOMAIN Insts(n) |-> PhyOf(pl[Insts(n)[k]]).x])
         /\ AxisFits(BoxOf(n, pl).y, [k \in DOMAIN Insts(n) |-> PhyOf(pl[Insts(n)[k]]).y])
  <1> DEFINE Q == [x : 0..(Scale.x + 1), y : 0..(Scale.y + 1)]
  <1>1. PICK ps : ps = PlacesOf(n, pl)
    OBVIOUS
  <1>2. PICK r \in Nat, c \in Nat : Scale.x = r /\ Scale.y = c
    BY DEF Scaled
  <1>3. ps \in Seq(Q) /\ ps # <<>> /\ DOMAIN ps = DOMAIN Insts(n)
    BY <1>1, PlacesFit DEF Places
  <1>4. \A q \in Q : q.x \in 0..(r + 1) /\ q.y \in 0..(c + 1)
    BY <1>2
  <1> HIDE DEF Q
  <1>5. DOMAIN ps = 1..Len(ps) /\ Len(ps) \in Nat /\ DOMAIN ps # {}
    BY <1>3
  <1>6. PICK xs, ys : xs = [k \in DOMAIN ps |-> ps[k].x] /\ ys = [k \in DOMAIN ps |-> ps[k].y]
    OBVIOUS
  <1>7. xs \in Seq(0..(r + 1)) /\ xs # <<>> /\ ys \in Seq(0..(c + 1)) /\ ys # <<>>
    <2>1. \A k \in DOMAIN ps : ps[k] \in Q
      BY <1>3
    <2>2. xs \in [1..Len(ps) -> 0..(r + 1)] /\ ys \in [1..Len(ps) -> 0..(c + 1)]
      BY <1>4, <1>5, <1>6, <2>1
    <2>3. xs \in Seq(0..(r + 1)) /\ ys \in Seq(0..(c + 1))
      BY <1>5, <2>2, SeqDef
    <2>4. DOMAIN xs # {} /\ DOMAIN ys # {}
      BY <1>5, <1>6
    <2>5. QED
      BY <2>3, <2>4
  <1>8. ComputedAxis(r, xs) \in Axis /\ AxisFits(ComputedAxis(r, xs), xs)
    BY <1>7, ComputedFits
  <1>9. ComputedAxis(c, ys) \in Axis /\ AxisFits(ComputedAxis(c, ys), ys)
    BY <1>7, ComputedFits
  <1>10. PICK b : b = [x |-> ComputedAxis(r, xs), y |-> ComputedAxis(c, ys)]
    OBVIOUS
  <1>11. BoxOf(n, pl) = b
    BY <1>1, <1>2, <1>6, <1>10 DEF BoxOf, ComputedBox, PlacesOf
  <1>12. b \in [x : Axis, y : Axis]
    BY <1>8, <1>9, <1>10
  <1>13. b # NULL
    BY <1>12, UnsetAssumption
  <1>14. BbCost(b) \in Int
    BY <1>12 DEF BbCost, Axis
  <1>15. /\ xs = [k \in DOMAIN Insts(n) |-> PhyOf(pl[Insts(n)[k]]).x]
         /\ ys = [k \in DOMAIN Insts(n) |-> PhyOf(pl[Insts(n)[k]]).y]
    BY <1>1, <1>3, <1>6 DEF PlacesOf
  <1>16. AxisFits(b.x, xs) /\ AxisFits(b.y, ys)
    BY <1>8, <1>9, <1>10
  <1>17. QED
    BY <1>11, <1>12, <1>13, <1>14, <1>15, <1>16

(* The box of a net none of whose instances moves.                         *)
LEMMA BoxStays ==
  ASSUME Wired, NEW n \in Nets, NEW pa, NEW po, \A i \in Inst : On(n, i) => po[i] = pa[i]
  PROVE  BoxOf(n, po) = BoxOf(n, pa)
  <1>1. \A k \in DOMAIN Insts(n) : On(n, Insts(n)[k]) /\ Insts(n)[k] \in Inst
    BY DEF On, ElemsOf, Wired, Seated
  <1>2. \A k \in DOMAIN Insts(n) : po[Insts(n)[k]] = pa[Insts(n)[k]]
    BY <1>1
  <1>3. PlacesOf(n, po) = PlacesOf(n, pa)
    BY <1>2 DEF PlacesOf
  <1>4. QED
    BY <1>3 DEF BoxOf, PlacesOf

(* The box of a net with one instance that moves.                          *)
LEMMA BoxMoves ==
  ASSUME Wired, Scaled, NEW n \in Nets, NEW pa, SeatedOn(pa), NEW po, SeatedOn(po),
         NEW i, On(n, i), \A j \in Inst : On(n, j) /\ j # i => po[j] = pa[j]
  PROVE  UpdatedBox(BoxOf(n, pa), PhyOf(pa[i]), PhyOf(po[i]), BoxOf(n, po)) = BoxOf(n, po)
  <1>1. PICK m \in DOMAIN Insts(n) : Insts(n)[m] = i
    BY DEF On, ElemsOf
  <1>2. PICK ps, qs : ps = PlacesOf(n, pa) /\ qs = PlacesOf(n, po)
    OBVIOUS
  <1>3. PICK scale \in [x : Nat, y : Nat] : scale = Scale
    BY PlacesFit
  <1>4. /\ ps \in Places(scale) /\ DOMAIN ps = DOMAIN Insts(n)
        /\ qs \in Places(scale) /\ DOMAIN qs = DOMAIN Insts(n)
    BY <1>2, <1>3, PlacesFit
  <1>5. PICK new \in [x : 0..(scale.x + 1), y : 0..(scale.y + 1)] : new = qs[m]
    <2> DEFINE Q == [x : 0..(scale.x + 1), y : 0..(scale.y + 1)]
    <2>1. qs \in Seq(Q)
      BY <1>4 DEF Places
    <2> HIDE DEF Q
    <2>2. qs[m] \in Q
      BY <1>1, <1>4, <2>1
    <2>3. QED
      BY <2>2 DEF Q
  <1>6. qs = [ps EXCEPT ![m] = new]
    <2>1. ASSUME NEW k \in DOMAIN Insts(n), k # m
          PROVE  qs[k] = ps[k]
      <3>1. Insts(n)[k] # i /\ Insts(n)[k] \in Inst /\ On(n, Insts(n)[k])
        BY <1>1, <2>1 DEF Wired, Distinct, On, ElemsOf, Seated
      <3>2. QED
        BY <1>2, <2>1, <3>1 DEF PlacesOf
    <2>2. qs = [k \in DOMAIN Insts(n) |-> qs[k]] /\ ps = [k \in DOMAIN Insts(n) |-> ps[k]]
      BY <1>2 DEF PlacesOf
    <2>3. QED
      BY <1>1, <1>5, <2>1, <2>2
  <1>7. BoxOf(n, pa) = ComputedBox(scale, ps) /\ BoxOf(n, po) = ComputedBox(scale, qs)
    BY <1>2, <1>3 DEF BoxOf, PlacesOf
  <1>8. PhyOf(pa[i]) = ps[m] /\ PhyOf(po[i]) = new
    BY <1>1, <1>2, <1>5 DEF PlacesOf
  <1>9. PICK all : all = ComputedBox(scale, qs)
    OBVIOUS
  <1>10. UpdatedBox(ComputedBox(scale, ps), ps[m], new, all) = all
    <2>1. m \in DOMAIN ps /\ all = ComputedBox(scale, [ps EXCEPT ![m] = new])
      BY <1>1, <1>4, <1>6, <1>9
    <2>2. ps \in Places(scale)
      BY <1>4
    <2>3. scale \in [x : Nat, y : Nat] /\ new \in [x : 0..(scale.x + 1), y : 0..(scale.y + 1)]
      OBVIOUS
    <2>4. QED
      BY <2>1, <2>2, <2>3, UpdateIsExact
  <1>11. QED
    BY <1>7, <1>8, <1>9, <1>10
-----------------------------------------------------------------------------
(* The list ws is vs with the entries j and k in each other's place.       *)
Swapped(ws, vs, j, k) ==
    ws = [m \in DOMAIN vs |-> IF m = j THEN vs[k] ELSE IF m = k THEN vs[j] ELSE vs[m]]

(* Two coordinates change places.                                          *)
LEMMA SwapFits ==
  ASSUME NEW vs \in Seq(Int), NEW j \in DOMAIN vs, NEW k \in DOMAIN vs, NEW a \in Axis, AxisFits(a, vs),
         NEW ws, Swapped(ws, vs, j, k)
  PROVE  AxisFits(a, ws) /\ ws \in Seq(Int)
  <1>1. PICK v \in Int, w \in Int : v = vs[j] /\ w = vs[k]
    OBVIOUS
  <1>2. PICK us : us = [vs EXCEPT ![j] = w]
    OBVIOUS
  <1>3. us \in Seq(Int) /\ DOMAIN us = DOMAIN vs /\ us[k] = w /\ MovedTo(us, vs, j, w)
    BY <1>1, <1>2 DEF MovedTo
  <1>4. MovedTo(ws, us, k, v) /\ ws \in Seq(Int) /\ DOMAIN ws = DOMAIN vs
    <2>1. ws = [us EXCEPT ![k] = v]
      BY <1>1, <1>2, <1>3 DEF Swapped
    <2>2. QED
      BY <1>3, <2>1 DEF MovedTo
  <1>5. \A c \in Int : Cardinality(LyingOn(vs, c)) \in Nat
    BY LyingFinite
  <1>6. ASSUME NEW c \in Int
        PROVE  Cardinality(LyingOn(ws, c)) = Cardinality(LyingOn(vs, c))
    <2>1. CASE v = w
      <3>1. LyingOn(ws, c) = LyingOn(vs, c)
        BY <1>1, <2>1 DEF Swapped, LyingOn
      <3>2. QED
        BY <3>1
    <2>2. CASE v # w
      <3>1. Recounts(us, vs, j, w, c)
        BY <1>1, <1>3, <2>2, CountMoved
      <3>2. Recounts(ws, us, k, v, c)
        BY <1>3, <1>4, <2>2, CountMoved
      <3>3. CASE c = v
        BY <1>1, <1>3, <1>5, <2>2, <3>1, <3>2, <3>3 DEF Recounts
      <3>4. CASE c = w
        BY <1>1, <1>3, <1>5, <2>2, <3>1, <3>2, <3>4 DEF Recounts
      <3>5. CASE c # v /\ c # w
        BY <1>1, <1>3, <3>1, <3>2, <3>5 DEF Recounts
      <3>6. QED
        BY <3>3, <3>4, <3>5
    <2>3. QED
      BY <2>1, <2>2
  <1>7. a.min \in Int /\ a.max \in Int
    BY DEF Axis
  <1>8. \A m \in DOMAIN ws : ws[m] \in a.min..a.max
    <2>1. \A m \in DOMAIN vs : vs[m] \in a.min..a.max
      BY DEF AxisFits
    <2>2. QED
      BY <2>1 DEF Swapped
  <1>9. QED
    BY <1>4, <1>6, <1>7, <1>8 DEF AxisFits

(* They have the same extent.                                              *)
LEMMA SameExtent ==
  ASSUME NEW n \in Nat, NEW vs \in Seq(0..(n + 1)), NEW j \in DOMAIN vs, NEW k \in DOMAIN vs,
         NEW ws, Swapped(ws, vs, j, k)
  PROVE  ComputedAxis(n, ws) = ComputedAxis(n, vs)
  <1>1. /\ vs \in Seq(Int) /\ vs # <<>>
        /\ ws \in Seq(0..(n + 1)) /\ ws \in Seq(Int) /\ ws # <<>>
    <2>1. DOMAIN vs = 1..Len(vs) /\ Len(vs) \in Nat /\ \A m \in DOMAIN vs : vs[m] \in 0..(n + 1)
      OBVIOUS
    <2>2. ws \in [1..Len(vs) -> 0..(n + 1)]
      BY <2>1 DEF Swapped
    <2>3. ws \in Seq(0..(n + 1)) /\ DOMAIN ws # {}
      BY <2>1, <2>2, SeqDef
    <2>4. QED
      BY <2>3
  <1>2. ComputedAxis(n, vs) \in Axis /\ AxisFits(ComputedAxis(n, vs), vs)
    BY <1>1, ComputedFits
  <1>3. ComputedAxis(n, ws) \in Axis /\ AxisFits(ComputedAxis(n, ws), ws)
    BY <1>1, ComputedFits
  <1>4. AxisFits(ComputedAxis(n, vs), ws)
    BY <1>1, <1>2, SwapFits
  <1>5. QED
    BY <1>1, <1>2, <1>3, <1>4, FitsUnique

(* The box of a net two of whose instances change places.                  *)
LEMMA BoxSwaps ==
  ASSUME Wired, Scaled, NEW n \in Nets, NEW pa, SeatedOn(pa), NEW po,
         NEW i, On(n, i), NEW j, On(n, j), i # j, po[i] = pa[j], po[j] = pa[i],
         \A u \in Inst : On(n, u) /\ u # i /\ u # j => po[u] = pa[u]
  PROVE  BoxOf(n, po) = BoxOf(n, pa)
  <1> DEFINE Q == [x : 0..(Scale.x + 1), y : 0..(Scale.y + 1)]
  <1>1. PICK m \in DOMAIN Insts(n), l \in DOMAIN Insts(n) : Insts(n)[m] = i /\ Insts(n)[l] = j
    BY DEF On, ElemsOf
  <1>2. PICK ps, qs : ps = PlacesOf(n, pa) /\ qs = PlacesOf(n, po)
    OBVIOUS
  <1>3. ps \in Seq(Q) /\ DOMAIN ps = DOMAIN Insts(n)
    BY <1>2, PlacesFit DEF Places
  <1>4. qs = [k \in DOMAIN ps |-> IF k = m THEN ps[l] ELSE IF k = l THEN ps[m] ELSE ps[k]]
    <2>1. qs[m] = ps[l] /\ qs[l] = ps[m]
      BY <1>1, <1>2 DEF PlacesOf
    <2>2. ASSUME NEW k \in DOMAIN Insts(n), k # m, k # l
          PROVE  qs[k] = ps[k]
      <3>1. Insts(n)[k] # i /\ Insts(n)[k] # j /\ Insts(n)[k] \in Inst /\ On(n, Insts(n)[k])
        BY <1>1, <2>2 DEF Wired, Distinct, On, ElemsOf, Seated
      <3>2. QED
        BY <1>2, <2>2, <3>1 DEF PlacesOf
    <2>3. qs = [k \in DOMAIN ps |-> qs[k]]
      BY <1>2, <1>3 DEF PlacesOf
    <2>4. QED
      BY <1>1, <1>3, <2>1, <2>2, <2>3
  <1>5. PICK r \in Nat, c \in Nat : Scale.x = r /\ Scale.y = c
    BY DEF Scaled
  <1>6. \A q \in Q : q.x \in 0..(r + 1) /\ q.y \in 0..(c + 1)
    BY <1>5
  <1> HIDE DEF Q
  <1>7. DOMAIN ps = 1..Len(ps) /\ Len(ps) \in Nat /\ \A k \in DOMAIN ps : ps[k] \in Q
    BY <1>3
  <1>8. PICK xs, ys : xs = [k \in DOMAIN ps |-> ps[k].x] /\ ys = [k \in DOMAIN ps |-> ps[k].y]
    OBVIOUS
  <1>9. PICK us, vs : us = [k \in DOMAIN qs |-> qs[k].x] /\ vs = [k \in DOMAIN qs |-> qs[k].y]
    OBVIOUS
  <1>10. xs \in Seq(0..(r + 1)) /\ ys \in Seq(0..(c + 1))
    <2>1. xs \in [1..Len(ps) -> 0..(r + 1)] /\ ys \in [1..Len(ps) -> 0..(c + 1)]
      BY <1>6, <1>7, <1>8
    <2>2. QED
      BY <1>7, <2>1, SeqDef
  <1>11. Swapped(us, xs, m, l) /\ Swapped(vs, ys, m, l)
    BY <1>1, <1>3, <1>4, <1>8, <1>9 DEF Swapped
  <1>12. m \in DOMAIN xs /\ l \in DOMAIN xs /\ m \in DOMAIN ys /\ l \in DOMAIN ys
    BY <1>1, <1>3, <1>8
  <1>13. ComputedAxis(r, us) = ComputedAxis(r, xs) /\ ComputedAxis(c, vs) = ComputedAxis(c, ys)
    <2>1. ComputedAxis(r, us) = ComputedAxis(r, xs)
      BY <1>10, <1>11, <1>12, SameExtent
    <2>2. ComputedAxis(c, vs) = ComputedAxis(c, ys)
      BY <1>10, <1>11, <1>12, SameExtent
    <2>3. QED
      BY <2>1, <2>2
  <1>14. /\ BoxOf(n, pa) = [x |-> ComputedAxis(r, xs), y |-> ComputedAxis(c, ys)]
         /\ BoxOf(n, po) = [x |-> ComputedAxis(r, us), y |-> ComputedAxis(c, vs)]
    BY <1>2, <1>5, <1>8, <1>9 DEF BoxOf, ComputedBox, PlacesOf
  <1>15. QED
    BY <1>13, <1>14
-----------------------------------------------------------------------------
(* Pair k of the exchange sw has an instance of net n.                     *)
Meets(sw, n, k) ==
    \/ sw[k].from # NULL /\ On(n, sw[k].from)
    \/ sw[k].to # NULL /\ On(n, sw[k].to)

(* No net has instances in two pairs of the exchange.                      *)
OnePairEach(sw) ==
    \A n \in Nets : \A j, k \in DOMAIN sw : Meets(sw, n, j) /\ Meets(sw, n, k) => j = k

(* What an exchange in flight has placed stays placed.                     *)
LEMMA FlyingSeated ==
  ASSUME NullAssumption, NEW m, NEW sw, NEW pa, NEW po, Flying(m, sw, slot, pa, po), SeatedOn(pa)
  PROVE  SeatedOn(po)
  <1> SUFFICES ASSUME NEW i, Seated(i)
               PROVE  po[i] \in Pos
    BY DEF SeatedOn
  <1>1. i \in Inst /\ i # NULL /\ pa[i] \in Pos
    BY NullAssumption DEF Seated, SeatedOn
  <1>2. CASE Moves(sw, i)
    <2>1. PICK k \in 1..m : sw[k].from = i \/ sw[k].to = i
      BY <1>2 DEF Moves, Flying
    <2>2. QED
      BY <1>1, <2>1 DEF Flying
  <1>3. CASE ~Moves(sw, i)
    BY <1>1, <1>3 DEF Flying
  <1>4. QED
    BY <1>2, <1>3

(* The two instances of a pair change places.                              *)
LEMMA PairSwaps ==
  ASSUME NEW m, NEW sw, NEW pa, Agree(slot, pa), NEW po, Flying(m, sw, slot, pa, po), NEW k \in 1..m,
         sw[k].from # NULL, sw[k].to # NULL
  PROVE  sw[k].from # sw[k].to /\ po[sw[k].from] = pa[sw[k].to] /\ po[sw[k].to] = pa[sw[k].from]
  <1>1. PICK f, t, p, q : /\ f = sw[k].from /\ t = sw[k].to
                          /\ p = FromPos(sw, pa, po, k) /\ q = ToPos(sw, pa, po, k)
    OBVIOUS
  <1>2. p = pa[f] /\ q = po[f]
    BY <1>1 DEF FromPos, ToPos
  <1>3. p \in Pos /\ q \in Pos /\ slot[q] = t /\ po[t] = p /\ p # q
    BY <1>1 DEF Flying
  <1>4. pa[t] = q
    BY <1>1, <1>3 DEF Agree
  <1>5. QED
    BY <1>1, <1>2, <1>3, <1>4

(* The instances of a net that an exchange moves are in the pairs it meets. *)
LEMMA MovedMeets ==
  ASSUME NullAssumption, NEW m, NEW sw, NEW pa, NEW po, Flying(m, sw, slot, pa, po), NEW n, NEW u \in Inst, On(n, u)
  PROVE  po[u] = pa[u] \/ \E k \in 1..m : u \in {sw[k].from, sw[k].to} /\ Meets(sw, n, k)
  <1>1. CASE ~Moves(sw, u)
    BY <1>1 DEF Flying
  <1>2. CASE Moves(sw, u)
    <2>1. PICK k \in 1..m : u \in {sw[k].from, sw[k].to}
      BY <1>2 DEF Moves, Flying
    <2>2. QED
      BY <2>1, NullAssumption DEF Meets
  <1>3. QED
    BY <1>1, <1>2

(* An exchange of which a net sees one pair: its box, kept or updated, is   *)
(* that of the new places, and it is saved if they make a difference.      *)
LEMMA NetExchanged ==
  ASSUME Wired, Scaled, NullAssumption, Agree(slot, past), SeatedOn(past),
         NEW m, NEW sw, NEW po, Flying(m, sw, slot, past, po), OnePairEach(sw),
         NEW n \in Nets, box[n] = BoxOf(n, past), saved[n] = NULL
  PROVE  /\ ExchangedBox(sw, n, po) = BoxOf(n, po)
         /\ n \notin Touched(sw) => BoxOf(n, po) = BoxOf(n, past)
  <1>1. SeatedOn(po)
    BY FlyingSeated
  <1>2. DOMAIN sw = 1..m /\ m \in Nat
    BY DEF Flying
  <1>3. \A j, k \in 1..m : Meets(sw, n, j) /\ Meets(sw, n, k) => j = k
    BY <1>2 DEF OnePairEach
  <1>4. \A u \in Inst : On(n, u) => po[u] = past[u] \/ \E k \in 1..m : u \in {sw[k].from, sw[k].to} /\ Meets(sw, n, k)
    BY MovedMeets
  <1>5. n \in Touched(sw) <=> From(sw, n) \/ To(sw, n)
    BY DEF Touched
  <1>6. \A k \in 1..m : Meets(sw, n, k) => From(sw, n) \/ To(sw, n)
    BY <1>2 DEF Meets, From, To
  <1>7. CASE n \notin Touched(sw)
    <2>1. \A u \in Inst : On(n, u) => po[u] = past[u]
      BY <1>4, <1>5, <1>6, <1>7
    <2>2. BoxOf(n, po) = BoxOf(n, past)
      BY <2>1, BoxStays
    <2>3. QED
      BY <1>7, <2>2 DEF ExchangedBox
  <1>8. CASE n \in Touched(sw) /\ Skipped(sw, n)
    <2>1. PICK k \in 1..m : sw[k].from # NULL /\ On(n, sw[k].from)
      BY <1>2, <1>8 DEF Skipped, From
    <2>2. PICK j \in 1..m : sw[j].to # NULL /\ On(n, sw[j].to)
      BY <1>2, <1>8 DEF Skipped, To
    <2>3. j = k
      BY <1>3, <2>1, <2>2 DEF Meets
    <2>4. PICK f, t : f = sw[k].from /\ t = sw[k].to
      OBVIOUS
    <2>5. f # t /\ po[f] = past[t] /\ po[t] = past[f] /\ On(n, f) /\ On(n, t)
      BY <2>1, <2>2, <2>3, <2>4, PairSwaps
    <2>6. \A u \in Inst : On(n, u) /\ u # f /\ u # t => po[u] = past[u]
      BY <1>3, <1>4, <2>1, <2>4 DEF Meets
    <2>7. BoxOf(n, po) = BoxOf(n, past)
      BY <2>5, <2>6, BoxSwaps
    <2>8. QED
      BY <1>8, <2>7 DEF ExchangedBox
  <1>9. CASE n \in Touched(sw) /\ ~Skipped(sw, n)
    <2>1. PICK i : i = CauseInst(sw, n)
      OBVIOUS
    <2>2. PICK k \in 1..m : i \in {sw[k].from, sw[k].to} /\ i # NULL /\ On(n, i)
      <3>1. CASE From(sw, n)
        <4>1. PICK S : S = {k \in DOMAIN sw : sw[k].from # NULL /\ On(n, sw[k].from)}
          OBVIOUS
        <4>2. S \subseteq Nat /\ S # {}
          BY <1>2, <3>1, <4>1 DEF From
        <4>3. Lowest(S) \in S
          BY <4>2, LowestFits
        <4>4. i = sw[Lowest(S)].from
          BY <2>1, <3>1, <4>1 DEF CauseInst
        <4>5. QED
          BY <1>2, <4>1, <4>3, <4>4
      <3>2. CASE ~From(sw, n)
        <4>1. PICK S : S = {k \in DOMAIN sw : sw[k].to # NULL /\ On(n, sw[k].to)}
          OBVIOUS
        <4>2. S \subseteq Nat /\ S # {}
          BY <1>2, <1>5, <1>9, <3>2, <4>1 DEF To
        <4>3. Lowest(S) \in S
          BY <4>2, LowestFits
        <4>4. i = sw[Lowest(S)].to
          BY <2>1, <3>2, <4>1 DEF CauseInst
        <4>5. QED
          BY <1>2, <4>1, <4>3, <4>4
      <3>3. QED
        BY <3>1, <3>2
    <2>3. Meets(sw, n, k)
      BY <2>2 DEF Meets
    <2>4. \A u \in Inst : On(n, u) /\ u # i => po[u] = past[u]
      <3> SUFFICES ASSUME NEW u \in Inst, On(n, u), u # i, po[u] # past[u]
                   PROVE  FALSE
        OBVIOUS
      <3>1. u \in {sw[k].from, sw[k].to} /\ u # NULL
        BY <1>3, <1>4, <2>3, NullAssumption
      <3>2. \/ i = sw[k].from /\ u = sw[k].to
            \/ i = sw[k].to /\ u = sw[k].from
        BY <2>2, <3>1
      <3>3. From(sw, n) /\ To(sw, n)
        BY <1>2, <2>2, <3>1, <3>2 DEF From, To
      <3>4. QED
        BY <1>9, <3>3 DEF Skipped
    <2>5. UpdatedBox(BoxOf(n, past), PhyOf(past[i]), PhyOf(po[i]), BoxOf(n, po)) = BoxOf(n, po)
      BY <1>1, <2>2, <2>4, BoxMoves
    <2>6. ExchangedBox(sw, n, po) = UpdatedBox(box[n], PhyOf(past[i]), PhyOf(po[i]), BoxOf(n, po))
      BY <1>9, <2>1 DEF ExchangedBox
    <2>7. QED
      BY <1>9, <2>5, <2>6
  <1>10. QED
    BY <1>7, <1>8, <1>9
-----------------------------------------------------------------------------
(* The delay of connection p for the positions pl.                         *)
DelayOf(p, pl) == P2PDelay(SourceInst(p), SinkInst(p), pl)

(* Two positions have a distance.                                          *)
LEMMA DistanceFits ==
  ASSUME DeviceFits, NEW a \in Pos, NEW b \in Pos
  PROVE  Abs(a[1][1] - b[1][1]) \in Nat /\ Abs(a[1][2] - b[1][2]) \in Nat
  <1>1. /\ a[1][1] \in Int /\ a[1][2] \in Int
        /\ b[1][1] \in Int /\ b[1][2] \in Int
    BY DEF DeviceFits, Pos
  <1>2. \A i, j \in Int : Abs(i - j) \in Nat
    BY DEF Abs
  <1>3. QED
    BY <1>1, <1>2

(* A connection has a delay.                                               *)
LEMMA DelayFits ==
  ASSUME DeviceFits, Wired, Scaled, NEW pl, SeatedOn(pl), NEW p \in Sinks
  PROVE  DelayOf(p, pl) \in Int /\ DelayOf(p, pl) # NULL
  <1>1. PICK a \in Pos, b \in Pos : a = pl[SourceInst(p)] /\ b = pl[SinkInst(p)]
    BY DEF Wired, SeatedOn
  <1>2. PICK r \in Nat, c \in Nat : r = Abs(a[1][1] - b[1][1]) /\ c = Abs(a[1][2] - b[1][2])
    BY DistanceFits
  <1>3. DelayOf(p, pl) = TableDelay(r, c)
    BY <1>1, <1>2 DEF DelayOf, P2PDelay
  <1>4. DelayOf(p, pl) \in Int
    BY <1>3 DEF Scaled
  <1>5. QED
    BY <1>4, UnsetAssumption

(* What the visits of an exchange have set is the delay after it, and what *)
(* they have not set has not changed.                                      *)
TimesAre(td, pa, po) ==
    \A p \in Sinks :
        IF td[p] = NULL THEN DelayOf(p, po) = DelayOf(p, pa) ELSE td[p] = DelayOf(p, po)

(* A connection one of whose ends moves is visited.                        *)
LEMMA MovedVisited ==
  ASSUME Wired, NullAssumption, NEW p \in Sinks, NEW m, NEW sw, NEW pa, NEW po, Flying(m, sw, slot, pa, po),
         p \notin Visited(sw)
  PROVE  po[SourceInst(p)] = pa[SourceInst(p)] /\ po[SinkInst(p)] = pa[SinkInst(p)]
  <1>1. PICK i, j : i = SourceInst(p) /\ j = SinkInst(p) /\ i \in Inst /\ j \in Inst
    BY DEF Wired, Seated
  <1>2. i # NULL /\ j # NULL
    BY <1>1, NullAssumption
  <1>3. \A target, reference : p \in VisitedFor(target, reference) <=>
            (i = target \/ (j = target /\ i # reference))
    BY <1>1 DEF VisitedFor
  <1>4. \A k \in DOMAIN sw :
          /\ sw[k].from = NULL \/ p \notin VisitedFor(sw[k].from, sw[k].to)
          /\ sw[k].to = NULL \/ p \notin VisitedFor(sw[k].to, sw[k].from)
    BY DEF Visited
  <1>5. \A k \in DOMAIN sw : i # sw[k].from /\ i # sw[k].to
    BY <1>2, <1>3, <1>4
  <1>6. \A k \in DOMAIN sw : j # sw[k].from /\ j # sw[k].to
    BY <1>2, <1>3, <1>4, <1>5
  <1>7. ~Moves(sw, i) /\ ~Moves(sw, j)
    BY <1>5, <1>6 DEF Moves
  <1>8. QED
    BY <1>1, <1>7 DEF Flying

(* The exchange sets the delays of the connections whose ends it moves.    *)
LEMMA DelaysExchanged ==
  ASSUME DeviceFits, Wired, Scaled, NullAssumption, NEW m, NEW sw, NEW po, SeatedOn(past),
         Flying(m, sw, slot, past, po)
  PROVE  TimesAre(Delays(Visited(sw), po), past, po)
  <1> SUFFICES ASSUME NEW p \in Sinks, NEW td, td = Delays(Visited(sw), po)
               PROVE  IF td[p] = NULL THEN DelayOf(p, po) = DelayOf(p, past) ELSE td[p] = DelayOf(p, po)
    BY DEF TimesAre
  <1>1. SeatedOn(po)
    BY FlyingSeated
  <1>2. td[p] = IF p \in Visited(sw) THEN DelayOf(p, po) ELSE NULL
    BY DEF Delays, DelayOf
  <1>3. CASE p \in Visited(sw)
    <2>1. DelayOf(p, po) # NULL
      BY <1>1, DelayFits
    <2>2. QED
      BY <1>2, <1>3, <2>1
  <1>4. CASE p \notin Visited(sw)
    <2>1. po[SourceInst(p)] = past[SourceInst(p)] /\ po[SinkInst(p)] = past[SinkInst(p)]
      BY <1>4, MovedVisited
    <2>2. DelayOf(p, po) = DelayOf(p, past)
      BY <2>1 DEF DelayOf, P2PDelay
    <2>3. QED
      BY <1>2, <1>4, <2>2
  <1>5. QED
    BY <1>3, <1>4
-----------------------------------------------------------------------------
(* What constraints hold is placed, unless one of them cannot be met.      *)
FixedSit(pa, ph) == ph # "error" => \A i \in Inst : IsFixed(i) => pa[i] # NULL

(* Boxes, cost and delays of the positions pl.                             *)
Boxed(bx, pl) == bx = [n \in Nets |-> BoxOf(n, pl)]

CostsOf(cost, pl) == cost = [n \in Nets |-> BbCost(BoxOf(n, pl))]

Summed(bc, pl) == \A cost : CostsOf(cost, pl) => bc = Total(cost)

Timed(dl, pl) == TimingDriven => dl = Delays(Sinks, pl)

(* No exchange has left anything behind.                                   *)
Unsaved(sv, td) == sv = [n \in Nets |-> NULL] /\ td = [p \in Sinks |-> NULL]

(* The boxes saved are those before the exchange; the others are the same. *)
SavedAre(sv, pa, po) ==
    \A n \in Nets : IF sv[n] = NULL THEN BoxOf(n, po) = BoxOf(n, pa) ELSE sv[n] = BoxOf(n, pa)

(* What holds of the cost, for the past positions pa and those now.        *)
CHolds(bx, sv, bc, dl, td, pa, po, ph) ==
    /\ ph \notin {"place", "error"} => Boxed(bx, po) /\ Summed(bc, pa) /\ Timed(dl, pa)
    /\ ph # "decide" => Unsaved(sv, td)
    /\ ph = "decide" => SavedAre(sv, pa, po) /\ (TimingDriven => TimesAre(td, pa, po))

(* The inductive invariant.                                                *)
CInv ==
    /\ FInv /\ Wired /\ Scaled /\ FixedSit(past, phase)
    /\ CHolds(box, saved, bbCost, delay, tempDelay, past, pos, phase)

(* The instances of the nets are placed while the annealing runs.          *)
LEMMA AllSeated ==
  ASSUME FInv, FixedSit(past, phase), phase \notin {"place", "error"}
  PROVE  SeatedOn(past)
  <1> SUFFICES ASSUME NEW i, Seated(i)
               PROVE  past[i] \in Pos
    BY DEF SeatedOn
  <1>1. /\ ObjectsFit /\ Agree(slot, past) /\ Ready(avail, next, objs, past)
        /\ next = Len(nl.objects) + 1
    BY AnnealingFits
  <1>2. PlacedAre(next, past) /\ Len(nl.objects) \in Nat /\ DOMAIN nl.objects = 1..Len(nl.objects)
    BY <1>1 DEF Ready, ObjectsFit
  <1>3. past[i] # NULL
    <2>1. CASE IsFixed(i)
      BY <2>1 DEF FixedSit, Seated
    <2>2. CASE IsMember(i)
      <3>1. PICK o \in DOMAIN nl.objects : \E k \in DOMAIN InstsOf(o) : InstsOf(o)[k] = i
        BY <2>2 DEF IsMember, ElemsOf
      <3>2. o \in 1..(next - 1)
        BY <1>1, <1>2
      <3>3. QED
        BY <1>2, <3>1, <3>2 DEF PlacedAre
    <2>3. QED
      BY <2>1, <2>2 DEF Seated
  <1>4. QED
    BY <1>1, <1>3 DEF Agree, Seated

(* An instance that a constraint holds is in no object and keeps its place. *)
LEMMA FixedStays ==
  ASSUME FInv, phase = "place", next \in DOMAIN nl.objects, NEW ps, PutOn(InstsOf(next), ps), FixedSit(past, phase)
  PROVE  FixedSit(past', phase')
  <1>1. /\ phase' = phase /\ past' = pos' /\ pos = past /\ ObjectsFit
        /\ pos' = [i \in Inst |-> IF \E k \in DOMAIN InstsOf(next) : InstsOf(next)[k] = i
                     THEN ps[CHOOSE k \in DOMAIN InstsOf(next) : InstsOf(next)[k] = i] ELSE pos[i]]
    BY DEF PutOn, FInv, Holds, Ready
  <1>2. ASSUME NEW i \in Inst, IsFixed(i)
        PROVE  past'[i] = past[i]
    <2>1. ~\E k \in DOMAIN InstsOf(next) : InstsOf(next)[k] = i
      BY <1>1, <1>2 DEF ObjectsFit
    <2>2. QED
      BY <1>1, <2>1
  <1>3. QED
    BY <1>1, <1>2 DEF FixedSit

(* Nor does an exchange take it from anyone.                               *)
LEMMA FixedSits ==
  ASSUME FInv, FInv', [Next]_vars, FixedSit(past, phase)
  PROVE  nl' = nl /\ FixedSit(past', phase')
  <1>1. CASE PlaceChain
    <2>1. \E ps : PutOn(InstsOf(next), ps)
      BY <1>1 DEF PlaceChain
    <2>2. phase = "place" /\ next \in DOMAIN nl.objects
      BY <1>1 DEF PlaceChain, Placing
    <2>3. QED
      BY <2>1, <2>2, FixedStays DEF PutOn
  <1>2. CASE PlaceLut6
    <2>1. \E ps : PutOn(InstsOf(next), ps)
      BY <1>2 DEF PlaceLut6
    <2>2. phase = "place" /\ next \in DOMAIN nl.objects
      BY <1>2 DEF PlaceLut6, Placing
    <2>3. QED
      BY <2>1, <2>2, FixedStays DEF PutOn
  <1>3. CASE PlaceSite
    <2>1. \E ps : PutOn(InstsOf(next), ps)
      BY <1>3 DEF PlaceSite
    <2>2. phase = "place" /\ next \in DOMAIN nl.objects
      BY <1>3 DEF PlaceSite, Placing
    <2>3. QED
      BY <2>1, <2>2, FixedStays DEF PutOn
  <1>4. CASE Keep
    <2>1. phase = "decide" /\ phase' = "idle" /\ nl' = nl /\ past' = pos
      BY <1>4 DEF Keep, EndSwap
    <2>2. Flying(Len(swaps), swaps, slot, past, pos) /\ NULL \notin Pos
      BY <2>1, AnnealingFits, SearchFits DEF InAir, DeviceFits
    <2>3. ASSUME NEW i \in Inst, IsFixed(i)
          PROVE  pos[i] # NULL
      <3>1. CASE Moves(swaps, i)
        <4>1. PICK k \in 1..Len(swaps) : swaps[k].from = i \/ swaps[k].to = i
          BY <2>2, <3>1 DEF Moves, Flying
        <4>2. i # NULL
          BY NullAssumption
        <4>3. pos[i] \in Pos
          BY <2>2, <4>1, <4>2 DEF Flying
        <4>4. QED
          BY <2>2, <4>3
      <3>2. CASE ~Moves(swaps, i)
        BY <2>1, <2>2, <2>3, <3>2 DEF Flying, FixedSit
      <3>3. QED
        BY <3>1, <3>2
    <2>4. QED
      BY <2>1, <2>3 DEF FixedSit
  <1>5. CASE Resting
    <2>1. nl' = nl /\ past' = past
      BY <1>5, RestingRests, PlacedIs
    <2>2. phase = "error" => phase' = "error"
      BY <1>5 DEF Resting, PlaceChainFails, PlaceLut6Hangs, PlaceSiteFails, StartAnnealing, PickObject, NoObject,
                  GiveUp, Refuse, Exchange, Undo, NextTemperature, Finish, Stopped, Fail, Placing, vars
    <2>3. QED
      BY <2>1, <2>2 DEF FixedSit
  <1>6. CASE UNCHANGED vars
    BY <1>6 DEF vars, FixedSit
  <1>7. QED
    BY <1>1, <1>2, <1>3, <1>4, <1>5, <1>6 DEF Next, Resting

(* What is said of the next state by its values is said of that state.     *)
LEMMA DesignStays ==
  ASSUME nl' = nl
  PROVE  /\ Nets' = Nets /\ Sinks' = Sinks /\ Wired' = Wired /\ Scaled' = Scaled
         /\ TimingDriven' = TimingDriven
         /\ \A i : IsFixed(i)' = IsFixed(i)
  <1>1. Nets' = Nets /\ (\A n : Insts(n)' = Insts(n)) /\ (\A i : IsFixed(i)' = IsFixed(i))
        /\ TimingDriven' = TimingDriven
    BY DEF Nets, Insts, IsFixed, TimingDriven
  <1>2. Sinks' = Sinks
    BY <1>1 DEF Sinks
  <1>3. \A i : Seated(i)' = Seated(i)
    BY DEF Seated, IsFixed, IsMember, InstsOf
  <1>4. \A p : SourceInst(p)' = SourceInst(p) /\ SinkInst(p)' = SinkInst(p)
    BY DEF SourceInst, SinkInst
  <1>5. Wired' = Wired
    BY <1>1, <1>2, <1>3, <1>4 DEF Wired
  <1>6. Scaled' = Scaled
    BY DEF Scaled, Scale, Rows, Cols, Tile, PhyPos, TableDelay
  <1>7. QED
    BY <1>1, <1>2, <1>5, <1>6

(* The same of the cost.                                                   *)
LEMMA CostStays ==
  ASSUME nl' = nl, NEW bx, bx = box', NEW sv, sv = saved', NEW bc, bc = bbCost', NEW dl, dl = delay',
         NEW td, td = tempDelay', NEW pa, pa = past', NEW po, po = pos', NEW ph, ph = phase',
         CHolds(bx, sv, bc, dl, td, pa, po, ph)
  PROVE  CHolds(box, saved, bbCost, delay, tempDelay, past, pos, phase)'
  <1>1. Nets' = Nets /\ Sinks' = Sinks /\ TimingDriven' = TimingDriven
    BY DesignStays
  <1>2. \A n : BoxOf(n, past)' = BoxOf(n, pa) /\ BoxOf(n, pos)' = BoxOf(n, po)
    BY DEF BoxOf, Insts, PhyOf, PhyPos, Scale, Rows, Cols
  <1>3. \A p : DelayOf(p, past)' = DelayOf(p, pa) /\ DelayOf(p, pos)' = DelayOf(p, po)
    BY DEF DelayOf, P2PDelay, SourceInst, SinkInst, TableDelay
  <1>4. Delays(Sinks, past)' = Delays(Sinks, pa)
    BY <1>1, <1>3 DEF Delays, DelayOf
  <1>5. \A cost : Total(cost)' = Total(cost)
    BY DEF Total
  <1>6. \A cost : CostsOf(cost, past)' <=> CostsOf(cost, pa)
    BY <1>1, <1>2 DEF CostsOf
  <1>7. ASSUME ph \notin {"place", "error"}
        PROVE  Boxed(box, pos)' /\ Summed(bbCost, past)' /\ Timed(delay, past)'
    <2>1. Boxed(bx, po) /\ Summed(bc, pa) /\ Timed(dl, pa)
      BY <1>7 DEF CHolds
    <2>2. Boxed(box, pos)'
      BY <1>1, <1>2, <2>1 DEF Boxed
    <2>3. Summed(bbCost, past)'
      BY <1>5, <1>6, <2>1 DEF Summed
    <2>4. Timed(delay, past)'
      BY <1>1, <1>4, <2>1 DEF Timed
    <2>5. QED
      BY <2>2, <2>3, <2>4
  <1>8. ph # "decide" => Unsaved(saved, tempDelay)'
    BY <1>1 DEF CHolds, Unsaved
  <1>9. ASSUME ph = "decide"
         PROVE  SavedAre(saved, past, pos)' /\ (TimingDriven' => TimesAre(tempDelay, past, pos)')
    <2>1. SavedAre(sv, pa, po) /\ (TimingDriven => TimesAre(td, pa, po))
      BY <1>9 DEF CHolds
    <2>2. SavedAre(saved, past, pos)'
      BY <1>1, <1>2, <2>1 DEF SavedAre
    <2>3. TimingDriven => TimesAre(tempDelay, past, pos)'
      BY <1>1, <1>3, <2>1 DEF TimesAre
    <2>4. QED
      BY <1>1, <2>2, <2>3
  <1>10. QED
    BY <1>7, <1>8, <1>9 DEF CHolds
-----------------------------------------------------------------------------
(* The exchange in flight after one is tried.                              *)
LEMMA TriedFlies ==
  ASSUME FInv, FInv', Exchange
  PROVE  Flying(Len(swaps'), swaps', slot, past, pos')
  <1>1. PICK sw, po, m : sw = swaps' /\ po = pos' /\ m = Len(sw)
    OBVIOUS
  <1>2. phase' = "decide" /\ nl' = nl /\ slot' = slot /\ past' = past
    BY DEF Exchange
  <1>3. InAir(next, swaps, slot, past, pos)'
    BY <1>2 DEF FInv, Holds
  <1>4. Pos' = Pos
    BY <1>2 DEF Pos, Tile, Z, NumSlices
  <1>5. Flying(m, sw, slot, past, po)
    BY <1>1, <1>2, <1>3, <1>4 DEF InAir, Flying, FromPos, ToPos, Moves
  <1>6. QED
    BY <1>1, <1>5

(* A net of the next state's exchange is one of this state's design.       *)
LEMMA OnePairStays ==
  ASSUME nl' = nl, NEW sw, sw = swaps', OnePairEach(swaps)'
  PROVE  OnePairEach(sw)
  <1>1. Nets' = Nets /\ \A n, i : On(n, i)' = On(n, i)
    BY DEF Nets, On, Insts
  <1>2. QED
    BY <1>1 DEF OnePairEach, Meets

(* Steps of the floorplan alone.                                           *)
LEMMA FloorplanCost ==
  ASSUME CInv, FInv', FloorplanStep
  PROVE  CHolds(box', saved', bbCost', delay', tempDelay', past', pos', phase')
  <1>1. /\ box' = box /\ saved' = saved /\ bbCost' = bbCost /\ delay' = delay /\ tempDelay' = tempDelay
        /\ CHolds(box, saved, bbCost, delay, tempDelay, past, pos, phase)
    BY DEF FloorplanStep, costVars, CInv
  <1>2. CASE PlaceChain \/ PlaceLut6 \/ PlaceSite
    <2>1. phase = "place" /\ phase' = "place"
      BY <1>2 DEF PlaceChain, PlaceLut6, PlaceSite, Placing, PutOn
    <2>2. QED
      BY <1>1, <2>1 DEF CHolds
  <1>3. CASE PlaceLut6Hangs \/ Stopped
    <2>1. past' = past /\ pos' = pos /\ phase' = phase
      BY <1>3 DEF PlaceLut6Hangs, Stopped, vars
    <2>2. QED
      BY <1>1, <2>1
  <1>4. CASE PlaceChainFails \/ PlaceSiteFails
    <2>1. phase' = "error" /\ phase = "place"
      BY <1>4 DEF PlaceChainFails, PlaceSiteFails, Fail, Placing
    <2>2. QED
      BY <1>1, <2>1 DEF CHolds
  <1>5. CASE PickObject \/ NoObject \/ GiveUp \/ Refuse \/ Finish
    <2>1. /\ past' = past /\ pos' = pos
          /\ phase \notin {"place", "error", "decide"} /\ phase' # "decide"
      BY <1>5 DEF PickObject, NoObject, GiveUp, Refuse, Finish
    <2>2. QED
      BY <1>1, <2>1 DEF CHolds
  <1>6. QED
    BY <1>2, <1>3, <1>4, <1>5 DEF FloorplanStep

(* The boxes that are those of the positions have their cost.              *)
LEMMA CostOfBoxes ==
  ASSUME NEW bs, NEW pl, Boxed(bs, pl)
  PROVE  Summed(RecomputedCost(bs), pl)
  <1>1. PICK cs : cs = [n \in Nets |-> BbCost(bs[n])]
    OBVIOUS
  <1>2. RecomputedCost(bs) = Total(cs)
    BY <1>1 DEF RecomputedCost
  <1>3. ASSUME NEW cost, CostsOf(cost, pl)
        PROVE  cost = cs
    BY <1>1, <1>3 DEF CostsOf, Boxed
  <1>4. QED
    BY <1>2, <1>3 DEF Summed

(* The annealing begins with boxes, cost and delays of the placement.      *)
LEMMA StartCost ==
  ASSUME CInv, FInv', PStartAnnealing
  PROVE  CHolds(box', saved', bbCost', delay', tempDelay', past', pos', phase')
  <1>1. /\ phase = "place" /\ phase' \in {"idle", "done"} /\ pos' = pos /\ past' = past
        /\ saved' = saved /\ tempDelay' = tempDelay /\ nl' = nl
    BY DEF PStartAnnealing, StartAnnealing
  <1>2. pos = past
    BY <1>1 DEF CInv, FInv, Holds
  <1>3. Unsaved(saved, tempDelay)
    BY <1>1 DEF CInv, CHolds
  <1>4. PICK bs : bs = box'
    OBVIOUS
  <1>5. Boxed(bs, pos)
    BY <1>4 DEF PStartAnnealing, Boxed
  <1>6. bbCost' = RecomputedCost(bs)
    <2>1. Nets' = Nets
      BY <1>1 DEF Nets
    <2>2. bbCost' = RecomputedCost(box')
      BY DEF PStartAnnealing
    <2>3. QED
      BY <1>4, <2>2
  <1>7. Summed(bbCost', past)
    BY <1>2, <1>5, <1>6, CostOfBoxes
  <1>8. Timed(delay', past)
    BY <1>2 DEF PStartAnnealing, ComputeTCost, Timed
  <1>9. QED
    BY <1>1, <1>2, <1>3, <1>4, <1>5, <1>7, <1>8 DEF CHolds

(* The same where the cost is summed up anew.                              *)
LEMMA TemperatureCost ==
  ASSUME CInv, FInv', PNextTemperature
  PROVE  CHolds(box', saved', bbCost', delay', tempDelay', past', pos', phase')
  <1>1. /\ phase = "idle" /\ phase' = phase /\ pos' = pos /\ past' = past
        /\ box' = box /\ saved' = saved /\ tempDelay' = tempDelay
    BY DEF PNextTemperature, NextTemperature
  <1>2. pos = past
    BY <1>1 DEF CInv, FInv, Holds
  <1>3. /\ Unsaved(saved, tempDelay) /\ Boxed(box, pos) /\ Summed(bbCost, past) /\ Timed(delay, past)
    BY <1>1 DEF CInv, CHolds
  <1>4. Summed(bbCost', past)
    BY <1>2, <1>3, CostOfBoxes DEF PNextTemperature
  <1>5. Timed(delay', past)
    BY <1>2, <1>3 DEF PNextTemperature, ComputeTCost, Timed
  <1>6. QED
    BY <1>1, <1>2, <1>3, <1>4, <1>5 DEF CHolds

(* An exchange is tried: the boxes and the delays follow it.               *)
LEMMA TriedCost ==
  ASSUME CInv, FInv', PExchange, OnePairEach(swaps)'
  PROVE  CHolds(box', saved', bbCost', delay', tempDelay', past', pos', phase')
  <1>1. /\ phase = "find" /\ phase' = "decide" /\ past' = past /\ nl' = nl /\ Exchange
        /\ bbCost' = bbCost /\ delay' = delay
    BY DEF PExchange, Exchange
  <1>2. PICK sw, po, m : sw = swaps' /\ po = pos' /\ m = Len(sw)
    OBVIOUS
  <1>3. Flying(m, sw, slot, past, po)
    BY <1>1, <1>2, TriedFlies DEF CInv
  <1>4. OnePairEach(sw)
    BY <1>1, <1>2, OnePairStays
  <1>5. /\ FInv /\ Wired /\ Scaled /\ FixedSit(past, phase)
        /\ CHolds(box, saved, bbCost, delay, tempDelay, past, pos, phase)
    BY DEF CInv
  <1>6. SeatedOn(past)
    BY <1>1, <1>5, AllSeated
  <1>7. DeviceFits /\ NullAssumption /\ Agree(slot, past) /\ pos = past
    BY <1>1, <1>5, AnnealingFits
  <1>8. Boxed(box, past) /\ Summed(bbCost, past) /\ Timed(delay, past) /\ Unsaved(saved, tempDelay)
    BY <1>1, <1>5, <1>7 DEF CHolds
  <1>9. /\ box' = [n \in Nets |-> ExchangedBox(sw, n, po)]
        /\ saved' = [n \in Nets |-> IF n \in Touched(sw) THEN box[n] ELSE saved[n]]
        /\ TimingDriven => tempDelay' = Delays(Visited(sw), po)
    BY <1>2 DEF PExchange
  <1>10. ASSUME NEW n \in Nets
         PROVE  /\ ExchangedBox(sw, n, po) = BoxOf(n, po)
                /\ n \notin Touched(sw) => BoxOf(n, po) = BoxOf(n, past)
                /\ box[n] = BoxOf(n, past) /\ saved[n] = NULL
    <2>1. box[n] = BoxOf(n, past) /\ saved[n] = NULL
      BY <1>8 DEF Boxed, Unsaved
    <2>2. ExchangedBox(sw, n, po) = BoxOf(n, po)
      BY <1>3, <1>4, <1>5, <1>6, <1>7, <2>1, NetExchanged
    <2>3. n \notin Touched(sw) => BoxOf(n, po) = BoxOf(n, past)
      BY <1>3, <1>4, <1>5, <1>6, <1>7, <2>1, NetExchanged
    <2>4. QED
      BY <2>1, <2>2, <2>3
  <1>11. Boxed(box', po)
    BY <1>9, <1>10 DEF Boxed
  <1>12. PICK sv : sv = saved'
    OBVIOUS
  <1>13. SavedAre(sv, past, po)
    <2> SUFFICES ASSUME NEW n \in Nets
                 PROVE  IF sv[n] = NULL THEN BoxOf(n, po) = BoxOf(n, past) ELSE sv[n] = BoxOf(n, past)
      BY DEF SavedAre
    <2>1. sv[n] = IF n \in Touched(sw) THEN box[n] ELSE saved[n]
      BY <1>9, <1>12
    <2>2. CASE n \in Touched(sw)
      <3>1. BoxOf(n, past) # NULL
        BY <1>5, <1>6, BoxFits
      <3>2. sv[n] = BoxOf(n, past)
        BY <1>10, <2>1, <2>2
      <3>3. QED
        BY <3>1, <3>2
    <2>3. CASE n \notin Touched(sw)
      <3>1. BoxOf(n, po) = BoxOf(n, past) /\ sv[n] = NULL
        BY <1>10, <2>1, <2>3
      <3>2. QED
        BY <3>1
    <2>4. QED
      BY <2>2, <2>3
  <1>14. PICK td : td = tempDelay'
    OBVIOUS
  <1>15. TimingDriven => TimesAre(td, past, po)
    BY <1>3, <1>5, <1>6, <1>7, <1>9, <1>14, DelaysExchanged
  <1>16. CHolds(box', sv, bbCost, delay, td, past, po, "decide")
    BY <1>8, <1>11, <1>13, <1>15 DEF CHolds
  <1>17. QED
    BY <1>1, <1>2, <1>12, <1>14, <1>16
-----------------------------------------------------------------------------
(* The exchange in flight leads from placed instances to placed instances. *)
LEMMA DecideFits ==
  ASSUME CInv, phase = "decide"
  PROVE  /\ SeatedOn(past) /\ SeatedOn(pos) /\ Wired /\ Scaled
         /\ Boxed(box, pos) /\ Summed(bbCost, past) /\ Timed(delay, past)
         /\ SavedAre(saved, past, pos) /\ (TimingDriven => TimesAre(tempDelay, past, pos))
  <1>1. /\ FInv /\ Wired /\ Scaled /\ FixedSit(past, phase)
        /\ CHolds(box, saved, bbCost, delay, tempDelay, past, pos, phase)
    BY DEF CInv
  <1>2. SeatedOn(past)
    BY <1>1, AllSeated
  <1>3. Flying(Len(swaps), swaps, slot, past, pos) /\ NullAssumption
    BY <1>1, SearchFits, AnnealingFits DEF InAir
  <1>4. SeatedOn(pos)
    BY <1>2, <1>3, FlyingSeated
  <1>5. QED
    BY <1>1, <1>2, <1>4 DEF CHolds

(* A kept exchange adds the difference of the boxes that were saved.       *)
LEMMA DeltaAdds ==
  ASSUME CInv, phase = "decide"
  PROVE  Summed(bbCost + Delta, pos)
  <1>1. /\ SeatedOn(past) /\ SeatedOn(pos) /\ Wired /\ Scaled
        /\ Boxed(box, pos) /\ Summed(bbCost, past) /\ SavedAre(saved, past, pos)
    BY DecideFits
  <1>2. PICK cp, cq, cd : /\ cp = [n \in Nets |-> BbCost(BoxOf(n, past))]
                          /\ cq = [n \in Nets |-> BbCost(BoxOf(n, pos))]
                          /\ cd = [n \in {m \in Nets : saved[m] # NULL} |-> BbCost(box[n]) - BbCost(saved[n])]
    OBVIOUS
  <1>3. Delta = Total(cd) /\ bbCost = Total(cp)
    BY <1>1, <1>2 DEF Delta, Summed, CostsOf
  <1>4. ASSUME NEW n \in Nets
        PROVE  /\ cp[n] \in Int /\ cq[n] \in Int
               /\ IF saved[n] = NULL THEN cq[n] = cp[n] ELSE cd[n] = cq[n] - cp[n]
    <2>1. cp[n] = BbCost(BoxOf(n, past)) /\ cq[n] = BbCost(BoxOf(n, pos)) /\ box[n] = BoxOf(n, pos)
      BY <1>1, <1>2 DEF Boxed
    <2>2. BbCost(BoxOf(n, past)) \in Int
      BY <1>1, BoxFits
    <2>3. BbCost(BoxOf(n, pos)) \in Int
      BY <1>1, BoxFits
    <2>4. CASE saved[n] = NULL
      <3>1. BoxOf(n, pos) = BoxOf(n, past)
        BY <1>1, <2>4 DEF SavedAre
      <3>2. QED
        BY <2>1, <2>2, <2>4, <3>1
    <2>5. CASE saved[n] # NULL
      <3>1. saved[n] = BoxOf(n, past)
        BY <1>1, <2>5 DEF SavedAre
      <3>2. cd[n] = BbCost(box[n]) - BbCost(saved[n])
        BY <1>2, <2>5
      <3>3. QED
        BY <2>1, <2>2, <2>3, <2>5, <3>1, <3>2
    <2>6. QED
      BY <2>4, <2>5
  <1>5. /\ DOMAIN cp = Nets /\ DOMAIN cq = Nets /\ DOMAIN cd = {m \in Nets : saved[m] # NULL}
    BY <1>2
  <1>6. \A n \in DOMAIN cd : cd[n] \in Int
    <2> SUFFICES ASSUME NEW n \in DOMAIN cd
                 PROVE  cd[n] \in Int
      OBVIOUS
    <2>1. n \in Nets /\ saved[n] # NULL
      BY <1>5
    <2>2. cd[n] = cq[n] - cp[n] /\ cp[n] \in Int /\ cq[n] \in Int
      BY <1>4, <2>1
    <2>3. QED
      BY <2>2
  <1>7. \A n \in DOMAIN cp : cp[n] \in Int
    BY <1>4, <1>5
  <1>8. \A n \in DOMAIN cq : cq[n] \in Int
    BY <1>4, <1>5
  <1>9. ASSUME NEW k \in 1..Len(nl.nets)
        PROVE  Term(cq, k) = Term(cp, k) + Term(cd, k)
    <2>1. CASE k \notin Nets
      <3>1. Term(cq, k) = 0 /\ Term(cp, k) = 0 /\ Term(cd, k) = 0
        BY <1>5, <2>1 DEF Term
      <3>2. QED
        BY <3>1
    <2>2. CASE k \in Nets /\ saved[k] = NULL
      <3>1. Term(cq, k) = cq[k] /\ Term(cp, k) = cp[k] /\ Term(cd, k) = 0
        BY <1>5, <2>2 DEF Term
      <3>2. cq[k] = cp[k] /\ cp[k] \in Int
        BY <1>4, <2>2
      <3>3. QED
        BY <3>1, <3>2
    <2>3. CASE k \in Nets /\ saved[k] # NULL
      <3>1. Term(cq, k) = cq[k] /\ Term(cp, k) = cp[k] /\ Term(cd, k) = cd[k]
        BY <1>5, <2>3 DEF Term
      <3>2. cd[k] = cq[k] - cp[k] /\ cp[k] \in Int /\ cq[k] \in Int
        BY <1>4, <2>3
      <3>3. QED
        BY <3>1, <3>2
    <2>4. QED
      BY <2>1, <2>2, <2>3
  <1>10. Len(nl.nets) \in Nat
    BY <1>1 DEF Wired
  <1>11. Total(cq) = Total(cp) + Total(cd)
    BY <1>6, <1>7, <1>8, <1>9, <1>10, TotalAdds
  <1>12. \A cost : CostsOf(cost, pos) => cost = cq
    BY <1>2 DEF CostsOf
  <1>13. QED
    BY <1>3, <1>11, <1>12 DEF Summed

(* The exchange is kept.                                                   *)
LEMMA KeptCost ==
  ASSUME CInv, FInv', PKeep
  PROVE  CHolds(box', saved', bbCost', delay', tempDelay', past', pos', phase')
  <1>1. /\ phase = "decide" /\ phase' = "idle" /\ pos' = pos /\ past' = pos
        /\ box' = box /\ bbCost' = bbCost + Delta
    BY DEF PKeep, Keep, EndSwap
  <1>2. /\ Boxed(box, pos) /\ Timed(delay, past) /\ (TimingDriven => TimesAre(tempDelay, past, pos))
    BY <1>1, DecideFits
  <1>3. Summed(bbCost + Delta, pos)
    BY <1>1, DeltaAdds
  <1>4. Unsaved(saved', tempDelay')
    BY DEF PKeep, Unsaved
  <1>5. PICK dl : dl = delay'
    OBVIOUS
  <1>6. ASSUME TimingDriven
        PROVE  dl = Delays(Sinks, pos)
    <2>1. dl = [p \in Sinks |-> IF tempDelay[p] # NULL THEN tempDelay[p] ELSE delay[p]]
      BY <1>5 DEF PKeep
    <2>2. ASSUME NEW p \in Sinks
          PROVE  (IF tempDelay[p] # NULL THEN tempDelay[p] ELSE delay[p]) = DelayOf(p, pos)
      <3>1. delay[p] = DelayOf(p, past)
        BY <1>2, <1>6 DEF Timed, Delays, DelayOf
      <3>2. IF tempDelay[p] = NULL THEN DelayOf(p, pos) = DelayOf(p, past) ELSE tempDelay[p] = DelayOf(p, pos)
        BY <1>2, <1>6 DEF TimesAre
      <3>3. QED
        BY <3>1, <3>2
    <2>3. dl = [p \in Sinks |-> DelayOf(p, pos)]
      BY <2>1, <2>2
    <2>4. QED
      BY <2>3 DEF Delays, DelayOf
  <1>7. Timed(delay', pos)
    BY <1>5, <1>6 DEF Timed
  <1>8. QED
    BY <1>1, <1>2, <1>3, <1>4, <1>7 DEF CHolds

(* The exchange is undone.                                                 *)
LEMMA UndoneCost ==
  ASSUME CInv, FInv', PUndo
  PROVE  CHolds(box', saved', bbCost', delay', tempDelay', past', pos', phase')
  <1>1. /\ phase = "decide" /\ phase' = "idle" /\ past' = pos' /\ bbCost' = bbCost /\ delay' = delay
    BY DEF PUndo, Undo, EndSwap
  <1>2. past' = past
    BY UndoPast DEF PUndo, CInv
  <1>3. /\ Boxed(box, pos) /\ Timed(delay, past) /\ Summed(bbCost, past) /\ SavedAre(saved, past, pos)
    BY <1>1, DecideFits
  <1>4. Unsaved(saved', tempDelay')
    BY DEF PUndo, Unsaved
  <1>5. ASSUME NEW n \in Nets
        PROVE  Restored(n) = BoxOf(n, past)
    <2>1. box[n] = BoxOf(n, pos)
      BY <1>3 DEF Boxed
    <2>2. IF saved[n] = NULL THEN BoxOf(n, pos) = BoxOf(n, past) ELSE saved[n] = BoxOf(n, past)
      BY <1>3 DEF SavedAre
    <2>3. QED
      BY <2>1, <2>2 DEF Restored
  <1>6. Boxed(box', past)
    BY <1>5 DEF PUndo, Boxed
  <1>7. QED
    BY <1>1, <1>2, <1>3, <1>4, <1>6 DEF CHolds

(* No step loses the cost, unless a net meets two pairs of an exchange.    *)
LEMMA NextCost ==
  ASSUME CInv, [PNext]_<<vars, costVars>>, OnePairEach(swaps)'
  PROVE  CInv'
  <1>1. [Next]_vars
    <2>1. CASE UNCHANGED <<vars, costVars>>
      BY <2>1
    <2>2. CASE PNext
      BY <2>2 DEF PNext, FloorplanStep, PStartAnnealing, PExchange, PKeep, PUndo, PNextTemperature, Next
    <2>3. QED
      BY <2>1, <2>2
  <1>2. /\ FInv /\ Wired /\ Scaled /\ FixedSit(past, phase)
        /\ CHolds(box, saved, bbCost, delay, tempDelay, past, pos, phase)
    BY DEF CInv
  <1>3. FInv'
    BY <1>1, <1>2, NextFits
  <1>4. nl' = nl /\ FixedSit(past', phase')
    BY <1>1, <1>2, <1>3, FixedSits
  <1>5. CHolds(box', saved', bbCost', delay', tempDelay', past', pos', phase')
    <2>1. CASE UNCHANGED <<vars, costVars>>
      BY <1>2, <2>1 DEF vars, costVars
    <2>2. CASE PNext
      BY <1>3, <2>2, FloorplanCost, StartCost, TriedCost, KeptCost, UndoneCost, TemperatureCost DEF PNext
    <2>3. QED
      BY <2>1, <2>2
  <1>6. PICK bx, sv, bc, dl, td, pa, po, ph :
          /\ bx = box' /\ sv = saved' /\ bc = bbCost' /\ dl = delay' /\ td = tempDelay'
          /\ pa = past' /\ po = pos' /\ ph = phase'
    OBVIOUS
  <1>7. CHolds(bx, sv, bc, dl, td, pa, po, ph)
    BY <1>5, <1>6
  <1>8. CHolds(box, saved, bbCost, delay, tempDelay, past, pos, phase)'
    BY <1>4, <1>6, <1>7, CostStays
  <1>9. Wired' /\ Scaled'
    BY <1>2, <1>4, DesignStays
  <1>10. FixedSit(past, phase)'
    <2>1. FixedSit(pa, ph)
      BY <1>4, <1>6
    <2>2. \A i : IsFixed(i)' = IsFixed(i)
      BY <1>4, DesignStays
    <2>3. QED
      BY <1>6, <2>1, <2>2 DEF FixedSit
  <1>11. QED
    BY <1>3, <1>8, <1>9, <1>10 DEF CInv

(* The first state.                                                        *)
LEMMA InitCost ==
  ASSUME PInit
  PROVE  CInv
  <1>1. Init /\ FInv
    BY InitFits DEF PInit
  <1>2. PICK d \in Netlists : nl = Prepared(d)
    BY <1>1 DEF Init
  <1>3. Wired /\ Scaled
    BY <1>2, DesignWired, DesignScaled
  <1>4. FixedSit(past, phase)
    <2> SUFFICES ASSUME phase # "error", NEW i \in Inst, IsFixed(i)
                 PROVE  past[i] # NULL
      BY DEF FixedSit
    <2>1. ~IsIllegal /\ past = pos /\ pos = [j \in Inst |-> IF IsFixed(j) /\ ~IsIllegal THEN nl.cst[j] ELSE NULL]
      BY <1>1 DEF Init
    <2>2. nl.cst[i] \in Pos
      BY <2>1 DEF IsIllegal, IllegalConstraint, Pos, Tile, Z, NumSlices, IsFixed
    <2>3. NULL \notin Pos
      BY <1>1 DEF FInv, DeviceFits
    <2>4. QED
      BY <2>1, <2>2, <2>3
  <1>5. CHolds(box, saved, bbCost, delay, tempDelay, past, pos, phase)
    <2>1. phase \in {"place", "error"}
      BY <1>1 DEF Init
    <2>2. Unsaved(saved, tempDelay)
      BY DEF PInit, Unsaved
    <2>3. QED
      BY <2>1, <2>2 DEF CHolds
  <1>6. QED
    BY <1>1, <1>3, <1>4, <1>5 DEF CInv

(* What the invariant says of the cost.                                    *)
LEMMA CInvCurrent ==
  ASSUME CInv
  PROVE  CostIsCurrent
  <1>1. /\ FInv /\ Wired /\ Scaled /\ FixedSit(past, phase)
        /\ CHolds(box, saved, bbCost, delay, tempDelay, past, pos, phase)
    BY DEF CInv
  <1>2. CASE ~Annealing
    BY <1>2 DEF CostIsCurrent, BoxesCurrent, CostIsSum, DelaysCurrent
  <1>3. CASE Annealing
    <2>1. phase \notin {"place", "error"}
      BY <1>3 DEF Annealing
    <2>2. SeatedOn(past) /\ Boxed(box, pos) /\ Summed(bbCost, past) /\ Timed(delay, past)
      BY <1>1, <2>1, AllSeated DEF CHolds
    <2>3. phase # "decide" => pos = past
      BY <1>1 DEF FInv, Holds
    <2>4. SeatedOn(pos)
      <3>1. CASE phase = "decide"
        BY <3>1, DecideFits
      <3>2. CASE phase # "decide"
        BY <2>2, <2>3, <3>2
      <3>3. QED
        BY <3>1, <3>2
    <2>5. BoxesCurrent
      <3> SUFFICES ASSUME NEW n \in Nets
                   PROVE  /\ AxisFits(box[n].x, [k \in DOMAIN Insts(n) |-> PhyOf(pos[Insts(n)[k]]).x])
                          /\ AxisFits(box[n].y, [k \in DOMAIN Insts(n) |-> PhyOf(pos[Insts(n)[k]]).y])
        BY DEF BoxesCurrent
      <3>1. box[n] = BoxOf(n, pos)
        BY <2>2 DEF Boxed
      <3>2. AxisFits(BoxOf(n, pos).x, [k \in DOMAIN Insts(n) |-> PhyOf(pos[Insts(n)[k]]).x])
        BY <1>1, <2>4, BoxFits
      <3>3. AxisFits(BoxOf(n, pos).y, [k \in DOMAIN Insts(n) |-> PhyOf(pos[Insts(n)[k]]).y])
        BY <1>1, <2>4, BoxFits
      <3>4. QED
        BY <3>1, <3>2, <3>3
    <2>6. CostIsSum
      <3> SUFFICES ASSUME phase # "decide"
                   PROVE  bbCost = Total([n \in Nets |-> BbCost(BoxOf(n, pos))])
        BY DEF CostIsSum
      <3>1. PICK cost : cost = [n \in Nets |-> BbCost(BoxOf(n, pos))]
        OBVIOUS
      <3>2. bbCost = Total(cost)
        BY <2>2, <2>3, <3>1 DEF Summed, CostsOf
      <3>3. QED
        BY <3>1, <3>2
    <2>7. DelaysCurrent
      <3>1. Placed = past
        BY <1>1, PlacedIs
      <3>2. QED
        BY <2>2, <3>1 DEF DelaysCurrent, Timed
    <2>8. QED
      BY <2>5, <2>6, <2>7 DEF CostIsCurrent
  <1>4. QED
    BY <1>2, <1>3

(* The cost the annealing goes by is that of the placement, as long as no  *)
(* exchange moves a net in two pairs at once.                              *)
THEOREM CostFollows == PSpec /\ []OnePairEach(swaps) => []CostIsCurrent
  <1>1. PInit => CInv
    BY InitCost
  <1>2. CInv /\ [PNext]_<<vars, costVars>> /\ OnePairEach(swaps)' => CInv'
    BY NextCost
  <1>3. CInv => CostIsCurrent
    BY CInvCurrent
  <1>4. QED
    BY <1>1, <1>2, <1>3, PTL DEF PSpec
-----------------------------------------------------------------------------
(* The design has neither chains nor pairs.                                *)
SingleSites == \A o \in DOMAIN nl.objects : TypeOf(o) = "SITE"

(* Then every exchange has one pair.                                       *)
LEMMA SitesSwapOne ==
  ASSUME FInv, SingleSites, DOMAIN swaps \subseteq {1}, [Next]_vars
  PROVE  (SingleSites /\ DOMAIN swaps \subseteq {1})'
  <1>1. nl' = nl
    BY DEF Next, PlaceChain, PlaceLut6, PlaceSite, PlaceChainFails, PlaceLut6Hangs, PlaceSiteFails, StartAnnealing,
           PickObject, NoObject, GiveUp, Refuse, Exchange, Keep, Undo, NextTemperature, Finish, Stopped,
           Fail, PutOn, EndSwap, vars
  <1>2. SingleSites'
    BY <1>1 DEF SingleSites, TypeOf
  <1>3. CASE Exchange
    <2>1. phase = "find"
      BY <1>3 DEF Exchange
    <2>2. from \in DOMAIN nl.objects
      BY <2>1, SearchFits
    <2>3. TypeOf(from) = "SITE"
      BY <2>2 DEF SingleSites
    <2>4. \A i : ~IsMacro(i)
      <3> SUFFICES ASSUME NEW i
                   PROVE  SwapType(i) = "SITE"
        BY DEF IsMacro
      <3>1. CASE \E o \in DOMAIN nl.objects : i \in ElemsOf(InstsOf(o))
        <4>1. SwapType(i) = TypeOf(CHOOSE o \in DOMAIN nl.objects : i \in ElemsOf(InstsOf(o)))
          BY <3>1 DEF SwapType
        <4>2. (CHOOSE o \in DOMAIN nl.objects : i \in ElemsOf(InstsOf(o))) \in DOMAIN nl.objects
          BY <3>1
        <4>3. QED
          BY <4>1, <4>2 DEF SingleSites
      <3>2. CASE ~\E o \in DOMAIN nl.objects : i \in ElemsOf(InstsOf(o))
        BY <3>2 DEF SwapType
      <3>3. QED
        BY <3>1, <3>2
    <2>5. \A t : MacroType(t) = "SITE"
      BY <2>4 DEF MacroType
    <2>6. PICK u, ex : /\ ex \in Exchanges(from, u)
                       /\ swaps' = [k \in DOMAIN ex |-> [from |-> ex[k].from, to |-> ex[k].to]]
      BY <1>3 DEF Exchange
    <2>7. ex \in SiteExchanges(from, u)
      BY <2>3, <2>6 DEF Exchanges
    <2>8. PICK p : ex = <<p>>
      <3>1. MacroType(u) = "SITE"
        BY <2>5
      <3>2. \/ ex \in {<<Pair(InstsOf(from)[1], NULL, pos[InstsOf(from)[1]], <<u, UnoccZ(u)>>)>>}
            \/ ex \in {<<Pair(InstsOf(from)[1], j, pos[InstsOf(from)[1]], pos[j])>> : j \in {k \in Occupants(u) : ~IsFixed(k)}}
        BY <2>7, <3>1 DEF SiteExchanges
      <3>3. QED
        BY <3>2
    <2>9. DOMAIN swaps' = {1}
      BY <2>6, <2>8
    <2>10. QED
      BY <1>2, <2>9
  <1>4. CASE ~Exchange
    <2>1. swaps' = swaps \/ swaps' = <<>>
      BY <1>4 DEF Next, PlaceChain, PlaceLut6, PlaceSite, PlaceChainFails, PlaceLut6Hangs, PlaceSiteFails, StartAnnealing,
             PickObject, NoObject, GiveUp, Refuse, Keep, Undo, NextTemperature, Finish, Stopped,
             Fail, PutOn, EndSwap, vars
    <2>2. DOMAIN swaps' \subseteq {1}
      BY <2>1
    <2>3. QED
      BY <1>2, <2>2
  <1>5. QED
    BY <1>3, <1>4

(* For a design of single slices the cost follows without condition.       *)
THEOREM SitesCostFollows == PSpec /\ SingleSites => []CostIsCurrent
  <1> DEFINE Inv == FInv /\ CInv /\ SingleSites /\ DOMAIN swaps \subseteq {1}
  <1>1. PInit /\ SingleSites => Inv
    <2> SUFFICES ASSUME PInit, SingleSites
                 PROVE  Inv
      OBVIOUS
    <2>1. swaps = <<>>
      BY DEF PInit, Init
    <2>2. DOMAIN swaps \subseteq {1}
      BY <2>1
    <2>3. CInv /\ FInv
      BY InitCost DEF CInv
    <2>4. QED
      BY <2>2, <2>3
  <1>2. Inv /\ [PNext]_<<vars, costVars>> => Inv'
    <2> SUFFICES ASSUME Inv, [PNext]_<<vars, costVars>>
                 PROVE  Inv'
      OBVIOUS
    <2>1. [Next]_vars
      <3>1. CASE UNCHANGED <<vars, costVars>>
        BY <3>1
      <3>2. CASE PNext
        BY <3>2 DEF PNext, FloorplanStep, PStartAnnealing, PExchange, PKeep, PUndo, PNextTemperature, Next
      <3>3. QED
        BY <3>1, <3>2
    <2>2. SingleSites' /\ DOMAIN swaps' \subseteq {1}
      BY <2>1, SitesSwapOne
    <2>3. OnePairEach(swaps)'
      BY <2>2 DEF OnePairEach
    <2>4. CInv'
      BY <2>3, NextCost
    <2>5. QED
      BY <2>2, <2>4 DEF CInv
  <1>3. Inv => CostIsCurrent
    BY CInvCurrent
  <1>4. QED
    BY <1>1, <1>2, <1>3, PTL DEF PSpec
=============================================================================
