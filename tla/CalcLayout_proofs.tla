--------------------------- MODULE CalcLayout_proofs ---------------------------
(***************************************************************************)
(* Proofs about what a run of CalcPoints hands on: the points of a fit and *)
(* the rows of a training, and first about the order of time they are in.  *)
(***************************************************************************)
EXTENDS CalcPoints_proofs

-----------------------------------------------------------------------------
(***************************************************************************)
(* A finite set of time stamps has exactly one order.                      *)
(***************************************************************************)

Rising(f, S) ==
  /\ f \in [1..Cardinality(S) -> S]
  /\ \A i, j \in 1..Cardinality(S) : i < j => f[i] < f[j]

LEMMA RisingEmpty ==
  ASSUME NEW S, Cardinality(S) = 0
  PROVE  \E f : Rising(f, S)
<1> DEFINE f == [i \in 1..Cardinality(S) |-> 0]
<1>1. 1..Cardinality(S) = {}
  OBVIOUS
<1>2. f \in [1..Cardinality(S) -> S]
  BY <1>1
<1> HIDE DEF f
<1> QED
  BY <1>1, <1>2 DEF Rising

\* The least element goes before the order of the others.
LEMMA RisingAdd ==
  ASSUME NEW S \in SUBSET Nat, IsFiniteSet(S), S # {}, NEW f, Rising(f, S \ {Min(S)})
  PROVE  \E g : Rising(g, S)
<1> DEFINE m == Min(S)
           R == S \ {m}
           n == Cardinality(S)
           g == [i \in 1..n |-> IF i = 1 THEN m ELSE f[i - 1]]
<1>1. m \in S /\ m \in Nat /\ \A s \in S : m <= s
  BY LeastExists
<1>2. Cardinality(R) = n - 1 /\ n \in Nat /\ n - 1 \in Nat
  <2>1. n \in Nat /\ n # 0
    BY FS_CardinalityType, FS_EmptySet
  <2>2. Cardinality(R) = n - 1
    BY <1>1, FS_RemoveElement
  <2> QED
    BY <2>1, <2>2
<1>3. f \in [1..(n - 1) -> R] /\ \A i, j \in 1..(n - 1) : i < j => f[i] < f[j]
  BY <1>2 DEF Rising
<1> HIDE DEF m, n
<1>4. \A i \in 1..n : i = 1 \/ i - 1 \in 1..(n - 1)
  BY <1>2
<1>5. \A i \in 1..(n - 1) : f[i] \in S /\ f[i] \in Nat /\ m < f[i]
  <2> SUFFICES ASSUME NEW i \in 1..(n - 1) PROVE f[i] \in S /\ f[i] \in Nat /\ m < f[i]
    OBVIOUS
  <2>1. f[i] \in S /\ f[i] # m
    BY <1>3
  <2>2. m <= f[i] /\ f[i] \in Nat /\ m \in Nat
    BY <1>1, <2>1
  <2> QED
    BY <2>1, <2>2
<1>6. g \in [1..n -> S]
  BY <1>1, <1>4, <1>5
<1>7. ASSUME NEW i \in 1..n, NEW j \in 1..n, i < j PROVE g[i] < g[j]
  <2>1. j # 1 /\ j - 1 \in 1..(n - 1) /\ g[j] = f[j - 1]
    BY <1>2, <1>7
  <2>2. CASE i = 1
    BY <1>5, <2>1, <2>2
  <2>3. CASE i # 1
    <3>1. i - 1 \in 1..(n - 1) /\ g[i] = f[i - 1] /\ i - 1 < j - 1
      BY <1>2, <1>7, <2>3
    <3> QED
      BY <1>3, <2>1, <3>1
  <2> QED
    BY <2>2, <2>3
<1> QED
  BY <1>6, <1>7 DEF Rising, n

LEMMA RisingExists ==
  ASSUME NEW S \in SUBSET Nat, IsFiniteSet(S)
  PROVE  \E f : Rising(f, S)
<1> DEFINE Without(n) == \E T \in SUBSET Nat : /\ IsFiniteSet(T) /\ Cardinality(T) = n
                                            /\ ~ \E f : Rising(f, T)
           Bad == {n \in Nat : Without(n)}
<1>1. ASSUME Bad # {} PROVE FALSE
  <2> HIDE DEF Without
  <2>1. Min(Bad) \in Bad /\ \A n \in Bad : Min(Bad) <= n
    BY <1>1, LeastExists
  <2> DEFINE least == Min(Bad)
  <2>2. least \in Nat /\ Without(least) /\ \A n \in Nat : n < least => ~Without(n)
    BY <2>1
  <2> HIDE DEF least, Bad
  <2>3. PICK T \in SUBSET Nat : /\ IsFiniteSet(T) /\ Cardinality(T) = least
                               /\ ~ \E f : Rising(f, T)
    BY <2>2 DEF Without
  <2>4. T # {} /\ least # 0
    BY <2>3, RisingEmpty, FS_EmptySet
  <2> DEFINE R == T \ {Min(T)}
  <2>5. Min(T) \in T
    BY <2>4, LeastExists
  <2>6. /\ IsFiniteSet(R) /\ Cardinality(R) = least - 1 /\ R \in SUBSET Nat
        /\ least - 1 \in Nat /\ least - 1 < least
    <3>1. IsFiniteSet(R) /\ Cardinality(R) = Cardinality(T) - 1
      BY <2>3, <2>5, FS_RemoveElement
    <3>2. least \in Nat /\ least # 0
      BY <2>2, <2>4
    <3>3. least - 1 \in Nat /\ least - 1 < least
      BY <3>2
    <3>4. R \in SUBSET Nat
      OBVIOUS
    <3> HIDE DEF R
    <3> QED
      BY <2>3, <3>1, <3>3, <3>4
  <2>7. \E f : Rising(f, R)
    BY <2>2, <2>6 DEF Without
  <2> QED
    BY <2>3, <2>4, <2>7, RisingAdd
<1>2. Cardinality(S) \in Nat
  BY FS_CardinalityType
<1> QED
  BY <1>1, <1>2

\* InTime is such an order, and it leaves no time stamp out.
LEMMA InTimeRises ==
  ASSUME NEW S \in SUBSET Nat, IsFiniteSet(S)
  PROVE  /\ Cardinality(S) \in Nat
         /\ Rising(InTime(S), S)
         /\ DOMAIN InTime(S) = 1..Cardinality(S)
<1>1. \E f \in [1..Cardinality(S) -> S] : \A i, j \in DOMAIN f : i < j => f[i] < f[j]
  BY RisingExists DEF Rising
<1>2. /\ InTime(S) \in [1..Cardinality(S) -> S]
      /\ \A i, j \in DOMAIN InTime(S) : i < j => InTime(S)[i] < InTime(S)[j]
  BY <1>1 DEF InTime
<1> QED
  BY <1>2, FS_CardinalityType DEF Rising

-----------------------------------------------------------------------------
(***************************************************************************)
(* What is left after the filter, as the loops over it see it.             *)
(***************************************************************************)

\* A time stamp that is left has one point for each index row, in their order.
LEMMA FullRows ==
  ASSUME PointsInv, phase \in {"prepare", "fit", "done"}
  PROVE  /\ DOMAIN listPoints = KeptTimes
         /\ KeptTimes \in SUBSET Nat /\ IsFiniteSet(KeptTimes)
         /\ \A t \in KeptTimes :
              /\ listPoints[t] \in Seq(Point) /\ Len(listPoints[t]) = Len(input.indexes)
              /\ \A j \in DOMAIN input.indexes : listPoints[t][j] = IndexPoint(j, t)
<1>1. DOMAIN listPoints = KeptTimes /\ RowsInv /\ LocalsInv
  BY DEF PointsInv, KeptInv
<1>2. KeptTimes \subseteq Times
  BY DEF KeptTimes
<1>3. KeptTimes \in SUBSET Nat /\ IsFiniteSet(KeptTimes)
  BY <1>2, PointsAssumption, FS_Subset
<1>4. Rows = Len(input.indexes) /\ DOMAIN input.indexes = 1..Rows
  BY <1>1, RowsTyped DEF Rows
<1>5. ASSUME NEW t \in KeptTimes
      PROVE  /\ listPoints[t] \in Seq(Point) /\ Len(listPoints[t]) = Rows
             /\ \A j \in 1..Rows : listPoints[t][j] = IndexPoint(j, t)
  <2>1. \A j \in 1..Rows : HasValue(IAnswer(j), t)
    BY <1>4 DEF KeptTimes, Kept, IAnswer
  <2> QED
    BY <1>1, <2>1 DEF RowsInv
<1> QED
  BY <1>1, <1>3, <1>4, <1>5

\* So the last point of an order, which the loops take, is the only one, and it was
\* measured.
LEMMA CoordinateIsValue ==
  ASSUME PointsInv, phase \in {"prepare", "fit", "done"}, OneOfEachOrder,
         NEW t \in KeptTimes, NEW k \in 0..(Len(input.indexes) - 1)
  PROVE  Coordinate(listPoints[t], k) = ValueOf(k, t)
<1> DEFINE points == listPoints[t]
           of == {i \in DOMAIN points : points[i].order = k}
<1>1. /\ points \in Seq(Point) /\ Len(points) = Len(input.indexes)
      /\ \A j \in DOMAIN input.indexes : points[j] = IndexPoint(j, t)
  BY FullRows
<1>2. PICK j \in DOMAIN input.indexes : \A l \in DOMAIN input.indexes : input.indexes[l].order = k <=> l = j
  BY DEF OneOfEachOrder
<1>3. LocalsInv /\ input.indexes \in Seq(Index)
  BY RowsTyped DEF PointsInv
<1>4. DOMAIN points = DOMAIN input.indexes /\ j \in Nat
  BY <1>1, <1>3
<1> HIDE DEF points
<1>5. of = {j}
  <2>1. \A l \in DOMAIN points : points[l].order = input.indexes[l].order
    <3>1. \A l \in DOMAIN input.indexes : IndexPoint(l, t).order = input.indexes[l].order
      BY DEF IndexPoint
    <3> QED
      BY <1>1, <1>4, <3>1
  <2> QED
    BY <1>2, <1>4, <2>1
<1>6. Max({j}) = j
  BY <1>4 DEF Max
<1>7. Coordinate(points, k) = points[j].value
  BY <1>5, <1>6 DEF Coordinate
<1>8. points[j].value = input.indexes[j].answer.values[t]
  <2>1. IndexPoint(j, t).value = input.indexes[j].answer.values[t]
    BY DEF IndexPoint, IAnswer
  <2>2. points[j] = IndexPoint(j, t)
    BY <1>1
  <2> QED
    BY <2>1, <2>2
<1>9. (CHOOSE l \in DOMAIN input.indexes : input.indexes[l].order = k) = j
  BY <1>2
<1> QED
  BY <1>7, <1>8, <1>9 DEF ValueOf, points

LEMMA CurveIsLaidOut ==
  ASSUME PointsInv, phase \in {"prepare", "fit", "done"}, OneOfEachOrder,
         NEW k \in 1..(Len(input.indexes) - 1)
  PROVE  GetInputPoint(k) = CurvePoints(k)
<1>1. DOMAIN listPoints = KeptTimes /\ KeptTimes \in SUBSET Nat /\ IsFiniteSet(KeptTimes)
  BY FullRows
<1> DEFINE at == InTime(KeptTimes)
<1>2. \A i \in DOMAIN at : at[i] \in KeptTimes
  BY <1>1, InTimeRises DEF Rising
<1>3. k \in 0..(Len(input.indexes) - 1) /\ 0 \in 0..(Len(input.indexes) - 1)
  BY RowsTyped DEF PointsInv
<1>4. \A i \in DOMAIN at : /\ Coordinate(listPoints[at[i]], k) = ValueOf(k, at[i])
                           /\ Coordinate(listPoints[at[i]], 0) = ValueOf(0, at[i])
  BY <1>2, <1>3, CoordinateIsValue
<1> HIDE DEF at
<1>5. GetInputPoint(k) = [i \in DOMAIN at |-> [x |-> Coordinate(listPoints[at[i]], k),
                                              y |-> Coordinate(listPoints[at[i]], 0)]]
  BY <1>1 DEF GetInputPoint, at
<1>6. CurvePoints(k) = [i \in DOMAIN at |-> [x |-> ValueOf(k, at[i]), y |-> ValueOf(0, at[i])]]
  BY DEF CurvePoints, at
<1> QED
  BY <1>4, <1>5, <1>6

LEMMA SurfaceIsLaidOut ==
  ASSUME PointsInv, phase \in {"prepare", "fit", "done"}, OneOfEachOrder, Len(input.indexes) = 3
  PROVE  GetInputPoint3D = SurfacePoints
<1>1. DOMAIN listPoints = KeptTimes /\ KeptTimes \in SUBSET Nat /\ IsFiniteSet(KeptTimes)
  BY FullRows
<1>2. {t \in DOMAIN listPoints : Len(listPoints[t]) = 3} = KeptTimes
  BY <1>1, FullRows
<1> DEFINE at == InTime(KeptTimes)
<1>3. \A i \in DOMAIN at : at[i] \in KeptTimes
  BY <1>1, InTimeRises DEF Rising
<1>4. 0..(Len(input.indexes) - 1) = 0..2
  OBVIOUS
<1>5. \A i \in DOMAIN at : /\ Coordinate(listPoints[at[i]], 1) = ValueOf(1, at[i])
                           /\ Coordinate(listPoints[at[i]], 2) = ValueOf(2, at[i])
                           /\ Coordinate(listPoints[at[i]], 0) = ValueOf(0, at[i])
  BY <1>3, <1>4, CoordinateIsValue
<1> HIDE DEF at
<1>6. GetInputPoint3D = [i \in DOMAIN at |-> [x |-> Coordinate(listPoints[at[i]], 1),
                                             y |-> Coordinate(listPoints[at[i]], 2),
                                             z |-> Coordinate(listPoints[at[i]], 0)]]
  BY <1>2 DEF GetInputPoint3D, at
<1>7. SurfacePoints = [i \in DOMAIN at |-> [x |-> ValueOf(1, at[i]), y |-> ValueOf(2, at[i]),
                                           z |-> ValueOf(0, at[i])]]
  BY DEF SurfacePoints, at
<1> QED
  BY <1>5, <1>6, <1>7

-----------------------------------------------------------------------------
(***************************************************************************)
(* Lists one after the other.  FlattenSeq is recursive: that its recursion *)
(* defines a function is shown for one list more at a time.                *)
(***************************************************************************)

Joins(f, seqs, n) == f = [i \in 1..n |-> IF i = 1 THEN seqs[i] ELSE f[i - 1] \o seqs[i]]

LEMMA JoinOneMore ==
  ASSUME NEW seqs, NEW n \in Nat, NEW f, Joins(f, seqs, n)
  PROVE  \E g : Joins(g, seqs, n + 1)
<1> DEFINE g == [i \in 1..(n + 1) |->
                  IF i <= n THEN f[i] ELSE IF i = 1 THEN seqs[i] ELSE f[i - 1] \o seqs[i]]
<1>1. \A i \in 1..n : f[i] = IF i = 1 THEN seqs[i] ELSE f[i - 1] \o seqs[i]
  BY DEF Joins
<1>2. ASSUME NEW i \in 1..(n + 1)
      PROVE  g[i] = IF i = 1 THEN seqs[i] ELSE g[i - 1] \o seqs[i]
  <2>1. CASE i = 1
    BY <1>1, <2>1
  <2>2. CASE i # 1
    <3>1. g[i - 1] = f[i - 1]
      BY <2>2
    <3>2. CASE i <= n
      <4>1. i \in 1..n /\ g[i] = f[i]
        BY <3>2
      <4> QED
        BY <1>1, <2>2, <3>1, <4>1
    <3>3. CASE ~(i <= n)
      BY <2>2, <3>1, <3>3
    <3> QED
      BY <3>2, <3>3
  <2> QED
    BY <2>1, <2>2
<1>3. g = [i \in 1..(n + 1) |-> g[i]]
  OBVIOUS
<1> HIDE DEF g
<1>4. g = [i \in 1..(n + 1) |-> IF i = 1 THEN seqs[i] ELSE g[i - 1] \o seqs[i]]
  BY <1>2, <1>3
<1> QED
  BY <1>4 DEF Joins

LEMMA JoinExists ==
  ASSUME NEW seqs, NEW n \in Nat
  PROVE  \E f : Joins(f, seqs, n)
<1> DEFINE Bad == {m \in Nat : ~ \E f : Joins(f, seqs, m)}
<1>1. ASSUME Bad # {} PROVE FALSE
  <2>1. Min(Bad) \in Bad /\ \A m \in Bad : Min(Bad) <= m
    BY <1>1, LeastExists
  <2> DEFINE least == Min(Bad)
  <2> HIDE DEF least
  <2>2. least \in Nat /\ (~ \E f : Joins(f, seqs, least))
        /\ \A m \in Nat : m < least => \E f : Joins(f, seqs, m)
    BY <2>1 DEF least
  <2>3. CASE least = 0
    <3> DEFINE f == [i \in 1..0 |-> 0]
    <3>1. f = [i \in 1..0 |-> IF i = 1 THEN seqs[i] ELSE f[i - 1] \o seqs[i]]
      OBVIOUS
    <3> HIDE DEF f
    <3> QED
      BY <2>2, <2>3, <3>1 DEF Joins
  <2>4. CASE least # 0
    <3>1. least - 1 \in Nat /\ least - 1 < least /\ (least - 1) + 1 = least
      BY <2>2, <2>4
    <3>2. PICK f : Joins(f, seqs, least - 1)
      BY <2>2, <3>1
    <3> QED
      BY <2>2, <3>1, <3>2, JoinOneMore
  <2> QED
    BY <2>3, <2>4
<1> QED
  BY <1>1

\* FlattenSeq starts with the first list and appends the others one by one.
LEMMA FlattenIsJoined ==
  ASSUME NEW seqs, Len(seqs) \in Nat \ {0}
  PROVE  \E f : Joins(f, seqs, Len(seqs)) /\ FlattenSeq(seqs) = f[Len(seqs)]
<1> DEFINE n == Len(seqs)
           flatten == CHOOSE f : f = [i \in 1..n |-> IF i = 1 THEN seqs[i] ELSE f[i - 1] \o seqs[i]]
<1>1. \E f : f = [i \in 1..n |-> IF i = 1 THEN seqs[i] ELSE f[i - 1] \o seqs[i]]
  BY JoinExists DEF Joins
<1>2. flatten = [i \in 1..n |-> IF i = 1 THEN seqs[i] ELSE flatten[i - 1] \o seqs[i]]
  BY <1>1
<1>3. FlattenSeq(seqs) = flatten[n]
  BY DEF FlattenSeq
<1> HIDE DEF flatten
<1> QED
  BY <1>2, <1>3 DEF Joins

LEMMA ConcatIs ==
  ASSUME NEW S, NEW s \in Seq(S), NEW t \in Seq(S)
  PROVE  /\ s \o t \in Seq(S) /\ Len(s \o t) = Len(s) + Len(t)
         /\ \A p \in 1..Len(s) : (s \o t)[p] = s[p]
         /\ \A p \in 1..Len(t) : (s \o t)[Len(s) + p] = t[p]
<1>1. s \o t \in Seq(S) /\ Len(s \o t) = Len(s) + Len(t)
  OBVIOUS
<1>2. \A p \in 1..Len(s) : (s \o t)[p] = s[p]
  OBVIOUS
<1>3. \A p \in 1..Len(t) : (s \o t)[Len(s) + p] = t[p]
  OBVIOUS
<1> QED
  BY <1>1, <1>2, <1>3

\* Where the first m lists have the same length, each element is at its place.
Placed(f, seqs, m, width) ==
  /\ f[m] \in Seq(Nat) /\ Len(f[m]) = m * width
  /\ \A i \in 1..m, j \in 1..width : f[m][(i - 1) * width + j] = seqs[i][j]

LEMMA PlacedOneMore ==
  ASSUME NEW f, NEW seqs \in Seq(Seq(Nat)), NEW width \in Nat, NEW m \in 1..(Len(seqs) - 1),
         \A i \in 1..Len(seqs) : Len(seqs[i]) = width,
         f[m + 1] = f[m] \o seqs[m + 1], Placed(f, seqs, m, width)
  PROVE  Placed(f, seqs, m + 1, width)
<1> DEFINE old == f[m]
           new == f[m + 1]
           last == seqs[m + 1]
<1>1. /\ m \in Nat /\ old \in Seq(Nat) /\ Len(old) = m * width
      /\ \A i \in 1..m, j \in 1..width : old[(i - 1) * width + j] = seqs[i][j]
  BY DEF Placed
<1>2. last \in Seq(Nat) /\ Len(last) = width /\ new = old \o last
  OBVIOUS
<1>3. /\ new \in Seq(Nat) /\ Len(new) = Len(old) + Len(last)
      /\ \A p \in 1..Len(old) : new[p] = old[p]
      /\ \A p \in 1..Len(last) : new[Len(old) + p] = last[p]
  <2> HIDE DEF old, new, last
  <2>1. /\ old \o last \in Seq(Nat) /\ Len(old \o last) = Len(old) + Len(last)
        /\ \A p \in 1..Len(old) : (old \o last)[p] = old[p]
        /\ \A p \in 1..Len(last) : (old \o last)[Len(old) + p] = last[p]
    <3>1. old \in Seq(Nat) /\ last \in Seq(Nat)
      BY <1>1, <1>2
    <3> QED
      BY <3>1, ConcatIs
  <2>2. new = old \o last
    BY <1>2
  <2> QED
    BY <2>1, <2>2
<1> HIDE DEF old, new, last
<1>4. m * width \in Nat /\ (m + 1) * width = m * width + width
  BY <1>1
<1>5. ASSUME NEW i \in 1..m, NEW j \in 1..width PROVE (i - 1) * width + j \in 1..(m * width)
  <2>1. i * width <= m * width
    BY <1>1
  <2>2. i * width = (i - 1) * width + width /\ (i - 1) * width \in Nat
    BY <1>1
  <2>3. i \in Nat /\ width \in Nat /\ j \in Nat /\ 1 <= j /\ j <= width
    OBVIOUS
  <2> DEFINE before == (i - 1) * width
             here == i * width
             all == m * width
  <2> HIDE DEF before, here, all
  <2>4. here <= all /\ here = before + width /\ before \in Nat /\ all \in Nat
    BY <1>4, <2>1, <2>2 DEF before, here, all
  <2>5. before + j \in 1..all
    BY <2>3, <2>4
  <2> QED
    BY <2>5 DEF before, all
<1>6. ASSUME NEW i \in 1..(m + 1), NEW j \in 1..width
      PROVE  new[(i - 1) * width + j] = seqs[i][j]
  <2>1. CASE i \in 1..m
    BY <1>1, <1>3, <1>5, <2>1
  <2>2. CASE i = m + 1
    <3>1. i - 1 = m /\ (i - 1) * width = Len(old)
      BY <1>1, <2>2
    <3>2. j \in 1..Len(last)
      BY <1>2
    <3>3. new[Len(old) + j] = last[j]
      BY <1>3, <3>2
    <3> QED
      BY <2>2, <3>1, <3>3 DEF last
  <2> QED
    BY <1>1, <2>1, <2>2
<1> QED
  BY <1>1, <1>2, <1>3, <1>4, <1>6 DEF Placed, new

LEMMA FlattenIsPlaced ==
  ASSUME NEW seqs \in Seq(Seq(Nat)), NEW width \in Nat,
         \A i \in 1..Len(seqs) : Len(seqs[i]) = width
  PROVE  /\ Len(FlattenSeq(seqs)) = Len(seqs) * width
         /\ \A i \in 1..Len(seqs), j \in 1..width :
              FlattenSeq(seqs)[(i - 1) * width + j] = seqs[i][j]
<1> DEFINE n == Len(seqs)
<1>1. n \in Nat
  OBVIOUS
<1>2. CASE n = 0
  <2>1. FlattenSeq(seqs) = seqs
    BY <1>2 DEF FlattenSeq
  <2> QED
    BY <1>2, <2>1
<1>3. CASE n # 0
  <2>1. PICK f : Joins(f, seqs, n) /\ FlattenSeq(seqs) = f[n]
    BY <1>1, <1>3, FlattenIsJoined
  <2>2. \A i \in 1..n : f[i] = IF i = 1 THEN seqs[i] ELSE f[i - 1] \o seqs[i]
    BY <2>1 DEF Joins
  <2> HIDE DEF n
  <2> DEFINE Bad == {m \in 1..n : ~Placed(f, seqs, m, width)}
  <2>3. ASSUME Bad # {} PROVE FALSE
    <3>1. Bad \in SUBSET Nat
      OBVIOUS
    <3>2. Min(Bad) \in Bad /\ \A m \in Bad : Min(Bad) <= m
      BY <2>3, <3>1, LeastExists
    <3> DEFINE least == Min(Bad)
    <3> HIDE DEF least
    <3>3. /\ least \in 1..n /\ ~Placed(f, seqs, least, width)
          /\ \A m \in 1..n : m < least => Placed(f, seqs, m, width)
      <4>1. least \in Bad /\ \A m \in Bad : least <= m
        BY <3>2 DEF least
      <4>2. ASSUME NEW m \in 1..n, m < least PROVE Placed(f, seqs, m, width)
        <5>1. m \notin Bad
          BY <1>1, <4>1, <4>2 DEF n
        <5> QED
          BY <5>1
      <4> QED
        BY <4>1, <4>2
    <3>4. CASE least = 1
      <4>1. f[1] = seqs[1] /\ seqs[1] \in Seq(Nat) /\ Len(seqs[1]) = width
        BY <1>1, <2>2, <3>3, <3>4 DEF n
      <4>2. Placed(f, seqs, 1, width)
        BY <4>1 DEF Placed
      <4> QED
        BY <3>3, <3>4, <4>2
    <3>5. CASE least # 1
      <4>1. least - 1 \in 1..(n - 1) /\ least - 1 < least /\ (least - 1) + 1 = least
            /\ least - 1 \in 1..n
        BY <1>1, <3>3, <3>5
      <4>2. f[least] = f[least - 1] \o seqs[least]
        BY <2>2, <3>3, <3>5
      <4>3. Placed(f, seqs, least - 1, width)
        BY <3>3, <4>1
      <4>4. Placed(f, seqs, (least - 1) + 1, width)
        BY <4>1, <4>2, <4>3, PlacedOneMore DEF n
      <4> QED
        BY <3>3, <4>1, <4>4
    <3> QED
      BY <3>4, <3>5
  <2>4. Placed(f, seqs, n, width)
    BY <1>1, <1>3, <2>3
  <2> QED
    BY <2>1, <2>4 DEF Placed, n
<1> QED
  BY <1>2, <1>3

-----------------------------------------------------------------------------
(***************************************************************************)
(* What a run hands on: the consequents of FitInputs and TrainingRows,     *)
(* from the step that computes them to the end of the run.                 *)
(***************************************************************************)

AllCurves == [k \in 1..(Len(input.indexes) - 1) |-> CurvePoints(k)]
FitLaidOut ==
  /\ Len(input.indexes) \in {2, 4} => prepared = AllCurves
  /\ Len(input.indexes) = 3 => prepared = <<SurfacePoints>>
  /\ Len(input.indexes) \notin {2, 3, 4} => prepared = <<>>

RowsLaidOut ==
  LET at == InTime(KeptTimes)
      columns == Len(input.indexes)
  IN /\ Len(prepared) = Len(at) * columns
     /\ \A i \in DOMAIN at, j \in 1..columns :
          prepared[(i - 1) * columns + j] = input.indexes[j].answer.values[at[i]]

LayoutInv ==
  /\ phase \in {"count", "divide"} => input.type = 3
  /\ phase = "prepare" => input.type # 3
  /\ phase = "fit" => input.type \notin {4, 5}
  /\ phase \in {"fit", "done"} /\ input.type \in {1, 2} /\ OneOfEachOrder => FitLaidOut
  /\ phase = "done" /\ input.type \in {4, 5} => RowsLaidOut

LEMMA ListDataIsRows ==
  ASSUME PointsInv, phase = "prepare"
  PROVE  LET at == InTime(KeptTimes)
             columns == Len(input.indexes)
         IN /\ Len(ListData) = Len(at) * columns
            /\ \A i \in DOMAIN at, j \in 1..columns :
                 ListData[(i - 1) * columns + j] = input.indexes[j].answer.values[at[i]]
<1> DEFINE at == InTime(KeptTimes)
           columns == Len(input.indexes)
           row(t) == [i \in DOMAIN listPoints[t] |-> listPoints[t][i].value]
           rows == [i \in DOMAIN at |-> row(at[i])]
<1>1. DOMAIN listPoints = KeptTimes /\ KeptTimes \in SUBSET Nat /\ IsFiniteSet(KeptTimes)
  BY FullRows
<1>2. Cardinality(KeptTimes) \in Nat /\ DOMAIN at = 1..Cardinality(KeptTimes)
  BY <1>1, InTimeRises
<1>3. at \in [1..Cardinality(KeptTimes) -> KeptTimes]
  BY <1>1, InTimeRises DEF Rising
<1> HIDE DEF at
<1>4. columns \in Nat /\ DOMAIN input.indexes = 1..columns
  BY RowsTyped DEF PointsInv
<1>5. ASSUME NEW t \in KeptTimes
      PROVE  /\ row(t) \in Seq(Nat) /\ Len(row(t)) = columns
             /\ \A j \in 1..columns : row(t)[j] = input.indexes[j].answer.values[t]
  <2>1. /\ listPoints[t] \in Seq(Point) /\ Len(listPoints[t]) = columns
        /\ \A j \in 1..columns : listPoints[t][j] = IndexPoint(j, t)
    BY <1>4, FullRows
  <2>2. DOMAIN listPoints[t] = 1..columns
    BY <2>1
  <2>3. \A j \in 1..columns : listPoints[t][j].value \in Nat
    <3>1. \A j \in 1..columns : listPoints[t][j] \in Point
      BY <2>1, <2>2
    <3> QED
      BY <3>1 DEF Point, Values
  <2>4. \A j \in 1..columns : IndexPoint(j, t).value = input.indexes[j].answer.values[t]
    BY DEF IndexPoint, IAnswer
  <2>5. row(t) \in [1..columns -> Nat] /\ \A j \in 1..columns : row(t)[j] = listPoints[t][j].value
    BY <2>2, <2>3
  <2> HIDE DEF row, columns
  <2>6. row(t) \in Seq(Nat) /\ Len(row(t)) = columns
    BY <1>4, <2>5
  <2> QED
    BY <2>1, <2>4, <2>5, <2>6
<1> HIDE DEF row, columns
<1>6. rows \in [1..Cardinality(KeptTimes) -> Seq(Nat)]
  BY <1>2, <1>3, <1>5
<1>7. rows \in Seq(Seq(Nat)) /\ Len(rows) = Cardinality(KeptTimes)
  BY <1>2, <1>6
<1>8. \A i \in 1..Len(rows) : rows[i] = row(at[i]) /\ at[i] \in KeptTimes
  BY <1>2, <1>3, <1>7
<1>9. Len(at) = Len(rows) /\ DOMAIN at = 1..Len(rows)
  BY <1>2, <1>3, <1>7
<1>10. ListData = FlattenSeq(rows)
  BY <1>1 DEF ListData, at, row
<1> HIDE DEF rows
<1>11. \A i \in 1..Len(rows) : Len(rows[i]) = columns
  BY <1>5, <1>8
<1>12. /\ Len(FlattenSeq(rows)) = Len(rows) * columns
       /\ \A i \in 1..Len(rows), j \in 1..columns : FlattenSeq(rows)[(i - 1) * columns + j] = rows[i][j]
  BY <1>4, <1>7, <1>11, FlattenIsPlaced
<1>13. ASSUME NEW i \in DOMAIN at, NEW j \in 1..columns
       PROVE  ListData[(i - 1) * columns + j] = input.indexes[j].answer.values[at[i]]
  <2>1. i \in 1..Len(rows) /\ rows[i] = row(at[i]) /\ at[i] \in KeptTimes
    BY <1>8, <1>9
  <2>2. row(at[i])[j] = input.indexes[j].answer.values[at[i]]
    BY <1>5, <2>1
  <2>3. ListData[(i - 1) * columns + j] = rows[i][j]
    BY <1>10, <1>12, <2>1
  <2> QED
    BY <2>1, <2>2, <2>3
<1> QED
  BY <1>9, <1>10, <1>12, <1>13 DEF at, columns

LEMMA PrepareLayout ==
  ASSUME PointsInv, LayoutInv, Prepare
  PROVE  LayoutInv'
<1>1. phase = "prepare" /\ input' = input /\ input.type # 3
      /\ phase' = IF input.type \in {4, 5} THEN "done" ELSE "fit"
  BY DEF Prepare, LayoutInv
<1>2. KeptTimes' = KeptTimes
  BY <1>1, InputFixed
<1>3. ASSUME input.type \in {1, 2}, OneOfEachOrder PROVE FitLaidOut'
  <2>1. Len(input.indexes) \in Nat
    BY RowsTyped DEF PointsInv
  <2>2. AllCurves' = AllCurves /\ SurfacePoints' = SurfacePoints
    BY <1>1, <1>2 DEF AllCurves, CurvePoints, SurfacePoints, ValueOf
  <2>3. CASE Len(input.indexes) = 2
    <3>1. prepared' = <<GetInputPoint(1)>> /\ 1 \in 1..(Len(input.indexes) - 1)
      BY <1>3, <2>3 DEF Prepare
    <3>2. GetInputPoint(1) = CurvePoints(1)
      BY <1>1, <1>3, <3>1, CurveIsLaidOut
    <3>3. <<CurvePoints(1)>> = AllCurves
      BY <2>3 DEF AllCurves
    <3> QED
      BY <1>1, <2>2, <2>3, <3>1, <3>2, <3>3 DEF FitLaidOut
  <2>4. CASE Len(input.indexes) = 4
    <3>1. prepared' = [k \in 1..3 |-> GetInputPoint(k)]
      BY <1>3, <2>4 DEF Prepare
    <3>2. \A k \in 1..3 : GetInputPoint(k) = CurvePoints(k)
      BY <1>1, <1>3, <2>4, CurveIsLaidOut
    <3>3. prepared' = AllCurves
      BY <2>4, <3>1, <3>2 DEF AllCurves
    <3> QED
      BY <1>1, <2>2, <2>4, <3>3 DEF FitLaidOut
  <2>5. CASE Len(input.indexes) = 3
    <3>1. prepared' = <<GetInputPoint3D>>
      BY <1>3, <2>5 DEF Prepare
    <3>2. GetInputPoint3D = SurfacePoints
      BY <1>1, <1>3, <2>5, SurfaceIsLaidOut
    <3> QED
      BY <1>1, <2>2, <2>5, <3>1, <3>2 DEF FitLaidOut
  <2>6. CASE Len(input.indexes) \notin {2, 3, 4}
    <3>1. prepared' = <<>>
      BY <1>3, <2>6 DEF Prepare
    <3> QED
      BY <1>1, <2>6, <3>1 DEF FitLaidOut
  <2> QED
    BY <2>3, <2>4, <2>5, <2>6
<1>4. ASSUME input.type \in {4, 5} PROVE RowsLaidOut'
  <2>1. prepared' = ListData
    BY <1>4 DEF Prepare
  <2> QED
    BY <1>1, <1>2, <2>1, ListDataIsRows DEF RowsLaidOut
<1>5. OneOfEachOrder' = OneOfEachOrder
  BY <1>1 DEF OneOfEachOrder
<1> QED
  BY <1>1, <1>3, <1>4, <1>5 DEF LayoutInv

LEMMA LayoutKept ==
  ASSUME LayoutInv, input' = input, prepared' = prepared,
         phase' \in {"fit", "done"} => phase' = phase \/ phase \in {"fit", "divide"},
         phase' \in {"count", "divide"} => input.type = 3,
         phase' = "prepare" => input.type # 3,
         phase' = "fit" => phase = "fit"
  PROVE  LayoutInv'
<1>1. KeptTimes' = KeptTimes
  BY InputFixed
<1>2. AllCurves' = AllCurves /\ SurfacePoints' = SurfacePoints
  BY <1>1 DEF AllCurves, CurvePoints, SurfacePoints, ValueOf
<1>3. FitLaidOut' = FitLaidOut /\ RowsLaidOut' = RowsLaidOut /\ OneOfEachOrder' = OneOfEachOrder
  BY <1>1, <1>2 DEF FitLaidOut, RowsLaidOut, OneOfEachOrder
<1> QED
  BY <1>3 DEF LayoutInv

LEMMA LayoutStep ==
  ASSUME PointsInv, LayoutInv, [PointsNext]_pointsVars
  PROVE  LayoutInv'
<1> USE DEF fitVars
<1>1. CASE FetchCondtion \/ EndCondtions \/ FetchIndex \/ EndIndexes \/ Filter
  <2>1. input' = input /\ prepared' = prepared /\ phase' \in {"condtions", "indexes", "filter"}
    BY <1>1 DEF FetchCondtion, EndCondtions, FetchIndex, EndIndexes, Filter
  <2> QED
    BY <2>1, LayoutKept
<1>2. CASE EndFilter
  BY <1>2, LayoutKept DEF EndFilter
<1>3. CASE Prepare
  BY <1>3, PrepareLayout
<1>4. CASE Fit
  BY <1>4, LayoutKept DEF Fit
<1>5. CASE CountLoad \/ EndCount \/ Divide \/ EndDivide
  BY <1>5, LayoutKept DEF CountLoad, EndCount, Divide, EndDivide, LayoutInv
<1>6. CASE UNCHANGED pointsVars
  BY <1>6, LayoutKept DEF pointsVars, LayoutInv
<1> QED
  BY <1>1, <1>2, <1>3, <1>4, <1>5, <1>6 DEF PointsNext, Done

LEMMA LayoutInvariant == PointsSpec => []LayoutInv
<1>1. PointsInit => LayoutInv
  BY DEF PointsInit, LayoutInv
<1>2. PointsInv /\ LayoutInv /\ [PointsNext]_pointsVars => LayoutInv'
  BY LayoutStep
<1> QED
  BY <1>1, <1>2, PointsInvariant, PTL DEF PointsSpec

\* Whatever points have values when, a fit gets one point for each time stamp that is
\* kept, in the order of time, with the values measured then (capacitymonitor.cpp:693).
THEOREM FitInputsAreRight == PointsSpec => []FitInputs
<1>1. LayoutInv => FitInputs
  BY DEF LayoutInv, FitInputs, FitLaidOut, AllCurves
<1> QED
  BY <1>1, LayoutInvariant, PTL

\* The list of values the Python server is sent falls into rows of one value for each
\* column, in the order of the columns and of time (capacitymonitor.cpp:400).
THEOREM TrainingRowsAreRight == PointsSpec => []TrainingRows
<1>1. LayoutInv => TrainingRows
  BY DEF LayoutInv, TrainingRows, RowsLaidOut
<1> QED
  BY <1>1, LayoutInvariant, PTL

-----------------------------------------------------------------------------
(***************************************************************************)
(* The systems of equations.  Each entry is the sum, over the points, of a *)
(* product of two terms; that the sums are taken at the same places is a   *)
(* matter of the summed functions, and only the number of points has to be *)
(* counted.                                                                *)
(***************************************************************************)

INPUT_POINT == [x : Nat, y : Nat]
INPUT_POINT3D == [x : Nat, y : Nat, z : Nat]

\* The sum of n ones: the recursion of the fold has one solution on the sets 1..m.
LEMMA OnesAddUp ==
  ASSUME NEW n \in Nat
  PROVE  SumOf([i \in 1..n |-> 1]) = n
<1> DEFINE D == 1..n
           ones == [i \in D |-> 1]
           Adds(f) == f = [s \in SUBSET D |-> IF s = {} THEN 0 ELSE f[s \ {Max(s)}] + ones[Max(s)]]
           iter == CHOOSE f : Adds(f)
<1>1. SumOf(ones) = iter[D]
  BY DEF SumOf, FoldLeft, MapThenFoldSet
<1>2. \E f : Adds(f)
  <2> DEFINE f == [s \in SUBSET D |-> Cardinality(s)]
  <2>1. ASSUME NEW s \in SUBSET D, s # {}
        PROVE  f[s] = f[s \ {Max(s)}] + ones[Max(s)]
    <3>1. IsFiniteSet(D)
      BY FS_Interval
    <3>2. IsFiniteSet(s)
      BY <3>1, FS_Subset
    <3>3. Max(s) \in s
      BY <2>1, <3>2, GreatestExists
    <3>4. Cardinality(s) \in Nat /\ Cardinality(s \ {Max(s)}) = Cardinality(s) - 1
      BY <3>2, <3>3, FS_RemoveElement, FS_CardinalityType
    <3>5. ones[Max(s)] = 1 /\ s \ {Max(s)} \in SUBSET D
      BY <3>3
    <3> QED
      BY <3>4, <3>5
  <2>2. f[{}] = 0
    BY FS_EmptySet
  <2>3. Adds(f)
    <3>1. \A s \in SUBSET D : f[s] = IF s = {} THEN 0 ELSE f[s \ {Max(s)}] + ones[Max(s)]
      BY <2>1, <2>2
    <3>2. f = [s \in SUBSET D |-> f[s]]
      OBVIOUS
    <3> HIDE DEF f
    <3> QED
      BY <3>1, <3>2
  <2> QED
    BY <2>3
<1>3. Adds(iter)
  BY <1>2
<1> HIDE DEF iter
<1>4. \A s \in SUBSET D : iter[s] = IF s = {} THEN 0 ELSE iter[s \ {Max(s)}] + ones[Max(s)]
  BY <1>3
<1> DEFINE Bad == {m \in 0..n : iter[1..m] # m}
<1>5. ASSUME Bad # {} PROVE FALSE
  <2>1. Bad \in SUBSET Nat
    OBVIOUS
  <2>2. Min(Bad) \in Bad /\ \A m \in Bad : Min(Bad) <= m
    BY <1>5, <2>1, LeastExists
  <2> DEFINE least == Min(Bad)
  <2> HIDE DEF least
  <2>3. least \in 0..n /\ iter[1..least] # least /\ \A m \in 0..n : m < least => iter[1..m] = m
    <3>1. least \in Bad /\ \A m \in Bad : least <= m
      BY <2>2 DEF least
    <3>2. least \in 0..n /\ iter[1..least] # least
      BY <3>1
    <3>3. ASSUME NEW m \in 0..n, m < least PROVE iter[1..m] = m
      <4>1. m \notin Bad
        BY <3>1, <3>2, <3>3
      <4> QED
        BY <4>1
    <3> QED
      BY <3>2, <3>3
  <2> HIDE DEF Bad
  <2>4. CASE least = 0
    <3>1. 1..least = {} /\ {} \in SUBSET D
      BY <2>4
    <3>2. iter[{}] = 0
      BY <1>4, <3>1
    <3> QED
      BY <2>3, <2>4, <3>1, <3>2
  <2>5. CASE least # 0
    <3> DEFINE s == 1..least
    <3>1. /\ least \in 1..n /\ s \in SUBSET D /\ s # {} /\ least \in s
          /\ \A m \in s : m <= least
      <4>1. least \in 1..n
        BY <2>3, <2>5
      <4> QED
        BY <4>1
    <3>2. Max(s) = least
      <4>1. s \in SUBSET Nat /\ IsFiniteSet(s)
        BY <3>1, FS_Interval
      <4>2. Max(s) \in s /\ \A m \in s : m <= Max(s)
        BY <3>1, <4>1, GreatestExists
      <4>3. Max(s) \in Nat /\ Max(s) <= least /\ least <= Max(s)
        BY <3>1, <4>1, <4>2
      <4> HIDE DEF s
      <4> QED
        BY <3>1, <4>3
    <3>3. s \ {least} = 1..(least - 1)
      BY <3>1
    <3>4. iter[1..(least - 1)] = least - 1
      BY <2>3, <3>1
    <3>5. ones[least] = 1
      BY <3>1
    <3>6. iter[s] = iter[s \ {Max(s)}] + ones[Max(s)]
      BY <1>4, <3>1
    <3>7. iter[s] = (least - 1) + 1
      BY <3>2, <3>3, <3>4, <3>5, <3>6
    <3> QED
      BY <2>3, <3>1, <3>7
  <2> QED
    BY <2>4, <2>5
<1>6. iter[1..n] = n
  BY <1>5
<1> QED
  BY <1>1, <1>6

\* U'U and U'Y of polyfit are the sums a fit of degree 2 asks for.
LEMMA CurveIsNormal ==
  ASSUME NEW points \in Seq(INPUT_POINT)
  PROVE  polyfit(points) = CurveEquations(points)
<1> DEFINE T == CurveTerms(points)
           at == DOMAIN points
           MatrixOf(a(_, _)) == [i \in 1..3 |-> [j \in 1..3 |-> SumOf([m \in at |-> a(i, m) * a(j, m)])]]
           RightOf(a(_, _)) == [i \in 1..3 |-> SumOf([m \in at |-> a(i, m) * points[m].y])]
           Pow(i, m) == Power(points[m].x, i - 1)
           Term(i, m) == T[i][points[m]]
<1>7. \A m \in at : points[m] \in INPUT_POINT
  OBVIOUS
<1>1. DOMAIN T = 1..3
  BY DEF CurveTerms
<1>2. polyfit(points) = [matrix |-> MatrixOf(Pow), right |-> RightOf(Pow)]
  BY DEF polyfit, Columns, SumOver
<1>3. CurveEquations(points) = [matrix |-> MatrixOf(Term), right |-> RightOf(Term)]
  BY <1>1 DEF CurveEquations, Normal, SumOver
<1>4. ASSUME NEW i \in 1..3, NEW m \in at PROVE Pow(i, m) = Term(i, m)
  <2>1. points[m] \in [x : Nat, y : Nat]
    BY <1>7 DEF INPUT_POINT
  <2>2. points[m] \in ToSet(points)
    BY DEF ToSet
  <2>3. i = 1 \/ i = 2 \/ i = 3
    OBVIOUS
  <2> QED
    BY <2>1, <2>2, <2>3 DEF CurveTerms, Power
<1> HIDE DEF T, Pow, Term
<1>5. MatrixOf(Pow) = MatrixOf(Term)
  BY <1>4
<1>6. RightOf(Pow) = RightOf(Term)
  BY <1>4
<1> QED
  BY <1>2, <1>3, <1>5, <1>6

LEMMA Powers ==
  ASSUME NEW v \in Nat
  PROVE  /\ \A n \in 0..4 : Power(v, n) \in Nat
         /\ \A a, b \in 0..2 : Power(v, a) * Power(v, b) = Power(v, a + b)
<1>1. /\ Power(v, 0) = 1 /\ Power(v, 1) = v /\ Power(v, 2) = v * v
      /\ Power(v, 3) = v * v * v /\ Power(v, 4) = v * v * v * v
  BY DEF Power
<1>2. v * v \in Nat /\ v * v * v \in Nat /\ v * v * v * v \in Nat
  OBVIOUS
<1>3. ASSUME NEW n \in 0..4 PROVE Power(v, n) \in Nat
  <2>1. n = 0 \/ n = 1 \/ n = 2 \/ n = 3 \/ n = 4
    OBVIOUS
  <2> QED
    BY <1>1, <1>2, <2>1
<1>4. ASSUME NEW a \in 0..2, NEW b \in 0..2 PROVE Power(v, a) * Power(v, b) = Power(v, a + b)
  <2>1. a = 0 \/ a = 1 \/ a = 2
    OBVIOUS
  <2>2. b = 0 \/ b = 1 \/ b = 2
    OBVIOUS
  <2>3. (v * v) * (v * v) = v * v * v * v /\ v * (v * v) = v * v * v
    OBVIOUS
  <2> QED
    BY <1>1, <1>2, <2>1, <2>2, <2>3
<1> QED
  BY <1>3, <1>4

\* The matrix of the surface that is written out by hand has the sums in their places.
LEMMA SurfaceIsNormal ==
  ASSUME NEW points \in Seq(INPUT_POINT3D)
  PROVE  Calculation(points) = SurfaceEquations(points)
<1> DEFINE T == SurfaceTerms(points)
           at == DOMAIN points
           X(i, m) == Power(points[m].x, i)
           Y(i, m) == Power(points[m].y, i)
           S(i, j) == SumOf([m \in at |-> X(i, m) * Y(j, m)])
           Z(i, j) == SumOf([m \in at |-> points[m].z * X(i, m) * Y(j, m)])
           ofX == <<2, 0, 1, 1, 0, 0>>
           ofY == <<0, 2, 1, 0, 1, 0>>
<1>1. DOMAIN T = 1..6
  BY DEF SurfaceTerms
<1>2. \A m \in at : points[m] \in INPUT_POINT3D
  OBVIOUS
<1>3. \A m \in at : points[m] \in ToSet(points)
  BY DEF ToSet
<1>4. ASSUME NEW m \in at
      PROVE  /\ points[m].x \in Nat /\ points[m].y \in Nat /\ points[m].z \in Nat
             /\ \A i \in 0..4 : X(i, m) \in Nat /\ Y(i, m) \in Nat
             /\ \A i, j \in 0..2 : X(i, m) * X(j, m) = X(i + j, m) /\ Y(i, m) * Y(j, m) = Y(i + j, m)
  <2>1. points[m].x \in Nat /\ points[m].y \in Nat /\ points[m].z \in Nat
    BY <1>2 DEF INPUT_POINT3D
  <2> QED
    BY <2>1, Powers
<1>5. \A i \in 1..6 : ofX[i] \in 0..2 /\ ofY[i] \in 0..2 /\ ofX[i] \in 0..4 /\ ofY[i] \in 0..4
  OBVIOUS
<1>6. ASSUME NEW m \in at, NEW i \in 1..6
      PROVE  T[i][points[m]] = X(ofX[i], m) * Y(ofY[i], m)
  <2>1. /\ points[m].x \in Nat /\ points[m].y \in Nat
        /\ points[m] \in ToSet(points)
    BY <1>3, <1>4
  <2>2. i = 1 \/ i = 2 \/ i = 3 \/ i = 4 \/ i = 5 \/ i = 6
    OBVIOUS
  <2>3. /\ T[1][points[m]] = points[m].x * points[m].x
        /\ T[2][points[m]] = points[m].y * points[m].y
        /\ T[3][points[m]] = points[m].x * points[m].y
        /\ T[4][points[m]] = points[m].x
        /\ T[5][points[m]] = points[m].y
        /\ T[6][points[m]] = 1
    BY <2>1 DEF SurfaceTerms
  <2>4. /\ X(0, m) = 1 /\ X(1, m) = points[m].x /\ X(2, m) = points[m].x * points[m].x
        /\ Y(0, m) = 1 /\ Y(1, m) = points[m].y /\ Y(2, m) = points[m].y * points[m].y
    BY DEF Power
  <2> DEFINE x == points[m].x
             y == points[m].y
  <2>5. /\ x * x = (x * x) * 1 /\ y * y = 1 * (y * y)
        /\ x = x * 1 /\ y = 1 * y /\ 1 = 1 * 1
    BY <2>1
  <2> HIDE DEF T, X, Y
  <2>6. /\ T[1][points[m]] = X(2, m) * Y(0, m) /\ T[2][points[m]] = X(0, m) * Y(2, m)
        /\ T[3][points[m]] = X(1, m) * Y(1, m) /\ T[4][points[m]] = X(1, m) * Y(0, m)
        /\ T[5][points[m]] = X(0, m) * Y(1, m) /\ T[6][points[m]] = X(0, m) * Y(0, m)
    BY <2>3, <2>4, <2>5
  <2> QED
    BY <2>2, <2>6
<1>7. S(0, 0) = Len(points)
  <2>1. \A m \in at : X(0, m) * Y(0, m) = 1
    BY DEF Power
  <2>2. at = 1..Len(points) /\ Len(points) \in Nat
    OBVIOUS
  <2>3. [m \in at |-> X(0, m) * Y(0, m)] = [i \in 1..Len(points) |-> 1]
    BY <2>1, <2>2
  <2> QED
    BY <2>2, <2>3, OnesAddUp
<1>8. Calculation(points) =
        [matrix |->
        << <<S(4,0), S(2,2), S(3,1), S(3,0), S(2,1), S(2,0)>>,
           <<S(2,2), S(0,4), S(1,3), S(1,2), S(0,3), S(0,2)>>,
           <<S(3,1), S(1,3), S(2,2), S(2,1), S(1,2), S(1,1)>>,
           <<S(3,0), S(1,2), S(2,1), S(2,0), S(1,1), S(1,0)>>,
           <<S(2,1), S(0,3), S(1,2), S(1,1), S(0,2), S(0,1)>>,
           <<S(2,0), S(0,2), S(1,1), S(1,0), S(0,1), S(0,0)>> >>,
         right |-> <<Z(2,0), Z(0,2), Z(1,1), Z(1,0), Z(0,1), Z(0,0)>>]
  BY <1>7 DEF Calculation, SumOver
<1>9. SurfaceEquations(points) =
        [matrix |-> [i \in 1..6 |-> [j \in 1..6 |->
                       SumOf([m \in at |-> T[i][points[m]] * T[j][points[m]]])]],
         right |-> [i \in 1..6 |-> SumOf([m \in at |-> T[i][points[m]] * points[m].z])]]
  BY <1>1 DEF SurfaceEquations, Normal, SumOver
<1> HIDE DEF T, X, Y
<1>10. ASSUME NEW i \in 1..6, NEW j \in 1..6
       PROVE  SumOf([m \in at |-> T[i][points[m]] * T[j][points[m]]])
                = S(ofX[i] + ofX[j], ofY[i] + ofY[j])
  <2>1. ASSUME NEW m \in at
        PROVE  T[i][points[m]] * T[j][points[m]]
                 = X(ofX[i] + ofX[j], m) * Y(ofY[i] + ofY[j], m)
    <3> DEFINE a == X(ofX[i], m)
               b == Y(ofY[i], m)
               c == X(ofX[j], m)
               d == Y(ofY[j], m)
    <3>1. T[i][points[m]] = a * b /\ T[j][points[m]] = c * d
      BY <1>6
    <3>2. a \in Nat /\ b \in Nat /\ c \in Nat /\ d \in Nat
      BY <1>4, <1>5
    <3>3. a * c = X(ofX[i] + ofX[j], m) /\ b * d = Y(ofY[i] + ofY[j], m)
      BY <1>4, <1>5
    <3> HIDE DEF a, b, c, d
    <3>4. (a * b) * (c * d) = (a * c) * (b * d)
      BY <3>2
    <3> QED
      BY <3>1, <3>3, <3>4
  <2> QED
    BY <2>1
<1>11. ASSUME NEW i \in 1..6
       PROVE  SumOf([m \in at |-> T[i][points[m]] * points[m].z]) = Z(ofX[i], ofY[i])
  <2>1. ASSUME NEW m \in at
        PROVE  T[i][points[m]] * points[m].z = points[m].z * X(ofX[i], m) * Y(ofY[i], m)
    <3> DEFINE a == X(ofX[i], m)
               b == Y(ofY[i], m)
               z == points[m].z
    <3>1. T[i][points[m]] = a * b
      BY <1>6
    <3>2. a \in Nat /\ b \in Nat /\ z \in Nat
      BY <1>4, <1>5
    <3> HIDE DEF a, b, z
    <3>3. (a * b) * z = z * a * b
      BY <3>2
    <3> QED
      BY <3>1, <3>3 DEF a, b, z
  <2> QED
    BY <2>1
<1> HIDE DEF S, Z
<1>12. [i \in 1..6 |-> [j \in 1..6 |-> S(ofX[i] + ofX[j], ofY[i] + ofY[j])]] =
        << <<S(4,0), S(2,2), S(3,1), S(3,0), S(2,1), S(2,0)>>,
           <<S(2,2), S(0,4), S(1,3), S(1,2), S(0,3), S(0,2)>>,
           <<S(3,1), S(1,3), S(2,2), S(2,1), S(1,2), S(1,1)>>,
           <<S(3,0), S(1,2), S(2,1), S(2,0), S(1,1), S(1,0)>>,
           <<S(2,1), S(0,3), S(1,2), S(1,1), S(0,2), S(0,1)>>,
           <<S(2,0), S(0,2), S(1,1), S(1,0), S(0,1), S(0,0)>> >>
  <2> DEFINE E(i, j) == S(ofX[i] + ofX[j], ofY[i] + ofY[j])
             row(i) == <<E(i, 1), E(i, 2), E(i, 3), E(i, 4), E(i, 5), E(i, 6)>>
  <2>1. row(1) = <<S(4,0), S(2,2), S(3,1), S(3,0), S(2,1), S(2,0)>>
    OBVIOUS
  <2>2. row(2) = <<S(2,2), S(0,4), S(1,3), S(1,2), S(0,3), S(0,2)>>
    OBVIOUS
  <2>3. row(3) = <<S(3,1), S(1,3), S(2,2), S(2,1), S(1,2), S(1,1)>>
    OBVIOUS
  <2>4. row(4) = <<S(3,0), S(1,2), S(2,1), S(2,0), S(1,1), S(1,0)>>
    OBVIOUS
  <2>5. row(5) = <<S(2,1), S(0,3), S(1,2), S(1,1), S(0,2), S(0,1)>>
    OBVIOUS
  <2>6. row(6) = <<S(2,0), S(0,2), S(1,1), S(1,0), S(0,1), S(0,0)>>
    OBVIOUS
  <2> HIDE DEF E
  <2>7. ASSUME NEW i \in 1..6 PROVE [j \in 1..6 |-> E(i, j)] = row(i)
    OBVIOUS
  <2> HIDE DEF row
  <2>8. [i \in 1..6 |-> [j \in 1..6 |-> E(i, j)]] = [i \in 1..6 |-> row(i)]
    BY <2>7
  <2>9. [i \in 1..6 |-> row(i)] = <<row(1), row(2), row(3), row(4), row(5), row(6)>>
    OBVIOUS
  <2> QED
    BY <2>1, <2>2, <2>3, <2>4, <2>5, <2>6, <2>8, <2>9 DEF E
<1>13. [i \in 1..6 |-> Z(ofX[i], ofY[i])] = <<Z(2,0), Z(0,2), Z(1,1), Z(1,0), Z(0,1), Z(0,0)>>
  OBVIOUS
<1>14. [i \in 1..6 |-> [j \in 1..6 |->
                       SumOf([m \in at |-> T[i][points[m]] * T[j][points[m]]])]]
        = [i \in 1..6 |-> [j \in 1..6 |-> S(ofX[i] + ofX[j], ofY[i] + ofY[j])]]
  BY <1>10
<1>15. [i \in 1..6 |-> SumOf([m \in at |-> T[i][points[m]] * points[m].z])]
        = [i \in 1..6 |-> Z(ofX[i], ofY[i])]
  BY <1>11
<1> QED
  BY <1>8, <1>9, <1>12, <1>13, <1>14, <1>15

-----------------------------------------------------------------------------
(***************************************************************************)
(* The fits of a run: the consequent of Fitted.                            *)
(***************************************************************************)

FitsSolve ==
  LET n == Len(input.indexes) IN
  /\ n \in {2, 4} =>
       fits = [k \in {i \in 1..(n - 1) : KeptTimes # {}} |-> CurveEquations(CurvePoints(k))]
  /\ n = 3 => fits = <<SurfaceEquations(SurfacePoints)>>
FitsInv == phase = "done" /\ input.type \in {1, 2} /\ OneOfEachOrder => FitsSolve

\* What was measured is a number.
LEMMA ValueOfTyped ==
  ASSUME PointsInv, OneOfEachOrder, NEW t \in KeptTimes, NEW k \in 0..(Len(input.indexes) - 1)
  PROVE  ValueOf(k, t) \in Nat
<1>1. PICK j \in DOMAIN input.indexes : \A l \in DOMAIN input.indexes : input.indexes[l].order = k <=> l = j
  BY DEF OneOfEachOrder
<1>2. (CHOOSE l \in DOMAIN input.indexes : input.indexes[l].order = k) = j
  BY <1>1
<1>3. ValueOf(k, t) = input.indexes[j].answer.values[t]
  BY <1>2 DEF ValueOf
<1>4. HasValue(IAnswer(j), t) /\ t \in Times
  BY DEF KeptTimes, Kept, IAnswer
<1>5. IAnswer(j) \in Answer
  BY RowsTyped DEF PointsInv
<1> QED
  BY <1>3, <1>4, <1>5, ValueTyped DEF IAnswer

LEMMA PointsToFit ==
  ASSUME PointsInv, OneOfEachOrder, Len(input.indexes) >= 2
  PROVE  /\ \A k \in 1..(Len(input.indexes) - 1) :
              /\ CurvePoints(k) \in Seq(INPUT_POINT)
              /\ CurvePoints(k) # <<>> <=> KeptTimes # {}
         /\ Len(input.indexes) = 3 => SurfacePoints \in Seq(INPUT_POINT3D)
<1> DEFINE at == InTime(KeptTimes)
           n == Cardinality(KeptTimes)
           last == Len(input.indexes) - 1
<1>1. KeptTimes \in SUBSET Nat /\ IsFiniteSet(KeptTimes)
  <2>1. KeptTimes \subseteq Times
    BY DEF KeptTimes
  <2> QED
    BY <2>1, PointsAssumption, FS_Subset
<1>2. n \in Nat /\ at \in [1..n -> KeptTimes] /\ DOMAIN at = 1..n
  BY <1>1, InTimeRises DEF Rising
<1>3. n = 0 <=> KeptTimes = {}
  BY <1>1, FS_EmptySet
<1> HIDE DEF at, n
<1>4. last \in Nat /\ 0 \in 0..last /\ \A k \in 1..last : k \in 0..last
  BY RowsTyped DEF PointsInv
<1>5. \A k \in 0..last, i \in 1..n : ValueOf(k, at[i]) \in Nat
  BY <1>2, ValueOfTyped
<1>6. ASSUME NEW k \in 1..last
      PROVE  CurvePoints(k) \in Seq(INPUT_POINT) /\ (CurvePoints(k) # <<>> <=> KeptTimes # {})
  <2>1. CurvePoints(k) = [i \in 1..n |-> [x |-> ValueOf(k, at[i]), y |-> ValueOf(0, at[i])]]
    BY <1>2 DEF CurvePoints, at
  <2>2. CurvePoints(k) \in [1..n -> INPUT_POINT]
    BY <1>4, <1>5, <2>1 DEF INPUT_POINT
  <2>3. CurvePoints(k) \in Seq(INPUT_POINT)
    BY <1>2, <2>2
  <2>4. DOMAIN CurvePoints(k) = 1..n
    BY <2>2
  <2>5. CurvePoints(k) = <<>> <=> n = 0
    <3>1. Len(CurvePoints(k)) = n
      BY <1>2, <2>3, <2>4
    <3> QED
      BY <2>3, <3>1
  <2> QED
    BY <1>3, <2>3, <2>5
<1>7. ASSUME Len(input.indexes) = 3 PROVE SurfacePoints \in Seq(INPUT_POINT3D)
  <2>1. SurfacePoints = [i \in 1..n |-> [x |-> ValueOf(1, at[i]), y |-> ValueOf(2, at[i]),
                                         z |-> ValueOf(0, at[i])]]
    BY <1>2 DEF SurfacePoints, at
  <2>2. 0 \in 0..last /\ 1 \in 0..last /\ 2 \in 0..last
    BY <1>7
  <2>3. SurfacePoints \in [1..n -> INPUT_POINT3D]
    BY <1>5, <2>1, <2>2 DEF INPUT_POINT3D
  <2> QED
    BY <1>2, <2>3
<1> QED
  BY <1>6, <1>7

LEMMA FitSolves ==
  ASSUME PointsInv, LayoutInv, Fit, input.type \in {1, 2}, OneOfEachOrder
  PROVE  FitsSolve'
<1> DEFINE n == Len(input.indexes)
<1>1. phase = "fit" /\ input' = input /\ FitLaidOut
  BY DEF Fit, LayoutInv
<1>2. KeptTimes' = KeptTimes
  BY <1>1, InputFixed
<1>3. SurfacePoints' = SurfacePoints /\ \A k : CurvePoints(k)' = CurvePoints(k)
  BY <1>1, <1>2 DEF CurvePoints, SurfacePoints, ValueOf
<1>4. CASE n \in {2, 4}
  <2>1. prepared = AllCurves
    BY <1>1, <1>4 DEF FitLaidOut
  <2>2. DOMAIN prepared = 1..(n - 1) /\ \A k \in 1..(n - 1) : prepared[k] = CurvePoints(k)
    BY <2>1 DEF AllCurves
  <2>3. \A k \in 1..(n - 1) : /\ CurvePoints(k) \in Seq(INPUT_POINT)
                              /\ CurvePoints(k) # <<>> <=> KeptTimes # {}
    BY <1>4, PointsToFit
  <2>4. ASSUME NEW k \in 1..(n - 1)
        PROVE  /\ prepared[k] # <<>> <=> KeptTimes # {}
               /\ polyfit(prepared[k]) = CurveEquations(CurvePoints(k))
    <3>1. polyfit(CurvePoints(k)) = CurveEquations(CurvePoints(k))
      BY <2>3, CurveIsNormal
    <3> QED
      BY <2>2, <2>3, <3>1
  <2>5. {i \in DOMAIN prepared : prepared[i] # <<>>} = {i \in 1..(n - 1) : KeptTimes # {}}
    BY <2>2, <2>4
  <2>6. fits' = [k \in {i \in DOMAIN prepared : prepared[i] # <<>>} |-> polyfit(prepared[k])]
    <3>1. Len(input.indexes) # 3
      BY <1>4
    <3> HIDE DEF n
    <3> QED
      BY <3>1, Zenon DEF Fit
  <2>7. fits' = [k \in {i \in 1..(n - 1) : KeptTimes # {}} |-> CurveEquations(CurvePoints(k))]
    <3> DEFINE S == {i \in 1..(n - 1) : KeptTimes # {}}
    <3>1. fits' = [k \in S |-> polyfit(prepared[k])]
      BY <2>5, <2>6
    <3>2. \A k \in S : polyfit(prepared[k]) = CurveEquations(CurvePoints(k))
      BY <2>4
    <3> HIDE DEF S
    <3>3. fits' = [k \in S |-> CurveEquations(CurvePoints(k))]
      BY <3>1, <3>2
    <3> QED
      BY <3>3 DEF S
  <2> QED
    <3> DEFINE Curves == [k \in {i \in 1..(n - 1) : KeptTimes # {}} |-> CurveEquations(CurvePoints(k))]
    <3>1. Curves' = Curves
      BY <1>1, <1>2, <1>3
    <3>2. fits' = Curves'
      BY <2>7, <3>1
    <3>3. Len(input'.indexes) # 3
      BY <1>1, <1>4
    <3> QED
      BY <3>2, <3>3 DEF FitsSolve
<1>5. CASE n = 3
  <2>1. prepared[1] = SurfacePoints
    BY <1>1, <1>5 DEF FitLaidOut
  <2>2. SurfacePoints \in Seq(INPUT_POINT3D)
    BY <1>5, PointsToFit
  <2>3. fits' = <<Calculation(SurfacePoints)>>
    BY <1>5, <2>1 DEF Fit
  <2>4. fits' = <<SurfaceEquations(SurfacePoints)>>
    BY <2>2, <2>3, SurfaceIsNormal
  <2> QED
    BY <1>1, <1>3, <1>5, <2>4 DEF FitsSolve
<1>6. CASE n \notin {2, 3, 4}
  BY <1>1, <1>6 DEF FitsSolve
<1> QED
  BY <1>4, <1>5, <1>6

LEMMA FitsKept ==
  ASSUME FitsInv, input' = input, fits' = fits,
         phase' = "done" => phase = "done" \/ input.type \notin {1, 2}
  PROVE  FitsInv'
<1>1. KeptTimes' = KeptTimes
  BY InputFixed
<1>2. SurfacePoints' = SurfacePoints /\ \A k : CurvePoints(k)' = CurvePoints(k)
  BY <1>1 DEF CurvePoints, SurfacePoints, ValueOf
<1>3. FitsSolve' = FitsSolve /\ OneOfEachOrder' = OneOfEachOrder
  BY <1>1, <1>2 DEF FitsSolve, OneOfEachOrder
<1> QED
  BY <1>3 DEF FitsInv

LEMMA FitsStep ==
  ASSUME PointsInv, LayoutInv, FitsInv, [PointsNext]_pointsVars
  PROVE  FitsInv'
<1> USE DEF fitVars
<1>1. CASE FetchCondtion \/ EndCondtions \/ FetchIndex \/ EndIndexes \/ Filter \/ EndFilter
  <2>1. input' = input /\ fits' = fits /\ phase' # "done"
    BY <1>1 DEF FetchCondtion, EndCondtions, FetchIndex, EndIndexes, Filter, EndFilter
  <2> QED
    BY <2>1, FitsKept
<1>2. CASE Prepare
  BY <1>2, FitsKept DEF Prepare
<1>3. CASE Fit
  <2>1. OneOfEachOrder' = OneOfEachOrder /\ input' = input
    BY <1>3 DEF Fit, OneOfEachOrder
  <2> QED
    BY <1>3, <2>1, FitSolves DEF FitsInv
<1>4. CASE CountLoad \/ EndCount \/ Divide \/ EndDivide
  <2>1. input' = input /\ fits' = fits /\ input.type = 3
    BY <1>4 DEF CountLoad, EndCount, Divide, EndDivide, LayoutInv
  <2> QED
    BY <2>1, FitsKept
<1>5. CASE UNCHANGED pointsVars
  BY <1>5, FitsKept DEF pointsVars
<1> QED
  BY <1>1, <1>2, <1>3, <1>4, <1>5 DEF PointsNext, Done

\* For every number of points, polyfit and Calculation set up the equations of a least
\* squares fit to the points of the time stamps that are kept (LeastSquaresCurve.cpp:27,
\* LeastSquareSurface.cpp:20).
THEOREM FittedIsRight == PointsSpec => []Fitted
<1>1. PointsInit => FitsInv
  BY DEF PointsInit, FitsInv
<1>2. PointsInv /\ LayoutInv /\ FitsInv /\ [PointsNext]_pointsVars => FitsInv'
  BY FitsStep
<1>3. FitsInv => Fitted
  BY DEF FitsInv, FitsSolve, Fitted
<1> QED
  BY <1>1, <1>2, <1>3, PointsInvariant, LayoutInvariant, PTL DEF PointsSpec
=================================================================================
