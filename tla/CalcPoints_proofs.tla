--------------------------- MODULE CalcPoints_proofs ---------------------------
(***************************************************************************)
(* Proofs about CalcPoints, for every set of points and time stamps and    *)
(* every input of a run: what the loops have collected so far, what the    *)
(* filter leaves, and that the histogram is counted and divided right.     *)
(***************************************************************************)
EXTENDS CalcPoints, FiniteSetTheorems, TLAPS

Phases == {"condtions", "indexes", "filter", "prepare", "fit", "count", "divide", "done"}

CName(i) == input.condtions[i].name
CAnswer(i) == input.condtions[i].answer
CondtionPoint(i, t) == [name |-> CName(i), value |-> CAnswer(i).values[t], order |-> 0]
IName(j) == input.indexes[j].name
IAnswer(j) == input.indexes[j].answer
IndexPoint(j, t) ==
  [name |-> IName(j), value |-> IAnswer(j).values[t], order |-> input.indexes[j].order]

\* The conditions whose points were read so far, those that were stored, and of
\* these those that were not replaced by a later one on the same point.
Fetched == IF phase = "condtions" THEN 1..(next - 1) ELSE Read
Stored == IF phase = "condtions" THEN 1..(next - 1) ELSE Tried
Latest(i) == \A j \in Stored : j > i => CName(j) # CName(i)

\* How many index rows a complete time stamp has points of.
Rows == CASE phase = "condtions" -> 0
          [] phase = "indexes"   -> next - 1
          [] OTHER               -> Len(input.indexes)

LocalsInv ==
  /\ input \in Input
  /\ phase \in Phases
  /\ next \in Nat \ {0}
  /\ phase = "condtions" => next <= Len(input.condtions) + 1 /\ 1..(next - 1) \subseteq Read
  /\ phase = "indexes" => next <= Len(input.indexes) + 1

\* mapTfnlCondtion holds the last condition stored for each point.
CondtionsInv ==
  /\ \A c \in DOMAIN mapCondtion : mapCondtion[c] \in Condtion
  /\ \A i \in Stored : Latest(i) => /\ CName(i) \in DOMAIN mapCondtion
                                    /\ mapCondtion[CName(i)] = input.condtions[i]

\* mapListCondtionPointInfo holds the values of the points read, and no others.
FilterPointsInv ==
  /\ DOMAIN listCondtion = {t \in Times : \E i \in Fetched : HasValue(CAnswer(i), t)}
  /\ \A t \in DOMAIN listCondtion :
       /\ listCondtion[t] \in Seq(Point)
       /\ \A k \in DOMAIN listCondtion[t] :
            \E i \in Fetched : HasValue(CAnswer(i), t) /\ listCondtion[t][k] = CondtionPoint(i, t)
       /\ \A i \in Fetched : HasValue(CAnswer(i), t) =>
            \E k \in DOMAIN listCondtion[t] : listCondtion[t][k] = CondtionPoint(i, t)

\* A time stamp has as many points as index rows were read exactly if every index
\* has a value there, and then they lie in the order of the rows.
RowsInv ==
  \A t \in DOMAIN listPoints :
    /\ t \in Times
    /\ listPoints[t] \in Seq(Point) \ {<<>>}
    /\ Len(listPoints[t]) <= Rows
    /\ Len(listPoints[t]) = Rows <=> \A j \in 1..Rows : HasValue(IAnswer(j), t)
    /\ Len(listPoints[t]) = Rows => \A j \in 1..Rows : listPoints[t][j] = IndexPoint(j, t)

\* Nothing that is complete is missing; what the filter has visited is kept.
KeptInv ==
  /\ phase = "condtions" => DOMAIN listPoints = {}
  /\ phase = "indexes" =>
       \A t \in Times : next > 1 /\ (\A j \in 1..(next - 1) : HasValue(IAnswer(j), t))
                          => t \in DOMAIN listPoints
  /\ phase = "filter" => /\ todo \subseteq DOMAIN listPoints
                         /\ DOMAIN listPoints \ todo \subseteq KeptTimes
                         /\ KeptTimes \subseteq DOMAIN listPoints
  /\ phase \in {"prepare", "fit", "count", "divide", "done"} => DOMAIN listPoints = KeptTimes

\* The histogram.
BarsInv ==
  /\ loads \in Seq(Nat)
  /\ DOMAIN percent \in SUBSET Nat
  /\ \A b \in DOMAIN percent : percent[b] \in Nat \X (Nat \ {0})
  /\ DOMAIN percent # {} => phase \in {"count", "divide", "done"} /\ loads # <<>> /\ 1 \in Read

TodoInv ==
  /\ phase \in {"condtions", "indexes", "prepare", "fit", "done"} => todo = {}
  /\ phase = "count" => todo \subseteq DOMAIN listCondtion
  /\ phase = "divide" => todo \subseteq DOMAIN percent

PointsInv ==
  /\ LocalsInv /\ CondtionsInv /\ FilterPointsInv /\ RowsInv /\ KeptInv /\ BarsInv /\ TodoInv

-----------------------------------------------------------------------------
(***************************************************************************)
(* Least elements, the rows of an input, and what PushBack does.           *)
(***************************************************************************)

\* A set of natural numbers that is not empty has a least element (the QMap is
\* visited from it) ...
LEMMA LeastExists ==
  ASSUME NEW S \in SUBSET Nat, S # {}
  PROVE  Min(S) \in S /\ \A m \in S : Min(S) <= m
<1> DEFINE R == {p \in Nat \X Nat : p[1] < p[2]}
<1>1. IsWellFoundedOn(R, Nat)
  BY NatLessThanWellFounded DEF OpToRel
<1> HIDE DEF R
<1>2. PICK x \in S : \A y \in S : ~ (<<y, x>> \in R)
  BY <1>1, WFMin
<1>3. ASSUME NEW y \in S PROVE x <= y
  <2>1. x \in Nat /\ y \in Nat
    OBVIOUS
  <2>2. CASE y < x
    <3>1. <<y, x>> \in R
      BY <2>1, <2>2 DEF R
    <3> QED
      BY <1>2, <3>1
  <2> QED
    BY <2>1, <2>2
<1> QED
  BY <1>3 DEF Min

\* ... and, if it is bounded, a greatest one (a later point replaces an earlier).
LEMMA GreatestExists ==
  ASSUME NEW S \in SUBSET Nat, S # {}, NEW n \in Nat, \A m \in S : m <= n
  PROVE  Max(S) \in S /\ \A m \in S : Max(S) >= m
<1> DEFINE B == {b \in Nat : \A m \in S : m <= b}
<1>1. B # {} /\ B \in SUBSET Nat
  OBVIOUS
<1>2. Min(B) \in B /\ \A b \in B : Min(B) <= b
  BY <1>1, LeastExists
<1> DEFINE g == Min(B)
<1> HIDE DEF B
<1>3. g \in Nat /\ \A m \in S : m <= g
  BY <1>2 DEF B
<1>4. g \in S
  <2> SUFFICES ASSUME g \notin S PROVE FALSE
    OBVIOUS
  <2>1. \A m \in S : m \in Nat /\ m <= g - 1
    BY <1>3
  <2>2. g - 1 \in B
    <3>1. PICK m \in S : TRUE
      OBVIOUS
    <3> HIDE DEF g
    <3> QED
      BY <1>3, <2>1, <3>1 DEF B
  <2> QED
    BY <1>2, <1>3, <2>2
<1> HIDE DEF g
<1> QED
  BY <1>3, <1>4 DEF Max

\* The rows of an input are well formed.
LEMMA RowsTyped ==
  ASSUME LocalsInv
  PROVE  /\ input.condtions \in Seq(Condtion) /\ input.indexes \in Seq(Index)
         /\ \A i \in DOMAIN input.condtions :
              /\ input.condtions[i] \in Condtion
              /\ CName(i) \in Tags /\ CAnswer(i) \in Answer
         /\ \A j \in DOMAIN input.indexes :
              /\ input.indexes[j] \in Index
              /\ IName(j) \in Tags /\ input.indexes[j].order \in Nat /\ IAnswer(j) \in Answer
         /\ input.type \in 1..5
         /\ Read \subseteq Tried /\ Tried \subseteq DOMAIN input.condtions
<1>1. /\ input.condtions \in Seq(Condtion) /\ input.indexes \in Seq(Index)
      /\ input.type \in 1..5
  BY DEF LocalsInv, Input
<1>2. \A i \in DOMAIN input.condtions : input.condtions[i] \in Condtion
  BY <1>1
<1>3. \A j \in DOMAIN input.indexes : input.indexes[j] \in Index
  BY <1>1
<1> QED
  BY <1>1, <1>2, <1>3 DEF Condtion, Index, CName, IName, CAnswer, IAnswer, Read, Tried

\* A row is read if every row up to it gave values.
LEMMA ReadUpTo ==
  ASSUME LocalsInv
  PROVE  /\ Read = {i \in DOMAIN input.condtions : \A j \in 1..i : GetHisValue(CAnswer(j)) # {}}
         /\ Tried = {i \in DOMAIN input.condtions : \A j \in 1..(i - 1) : GetHisValue(CAnswer(j)) # {}}
<1> DEFINE has(j) == GetHisValue(CAnswer(j)) # {}
<1>1. Tried = {i \in DOMAIN input.condtions : \A j \in 1..(i - 1) : has(j)}
  BY DEF Tried, CAnswer
<1>2. Read \subseteq DOMAIN input.condtions /\ DOMAIN input.condtions \subseteq Nat \ {0}
  BY RowsTyped
<1>3. Read = {i \in Tried : has(i)}
  BY DEF Read, CAnswer
<1> HIDE DEF has
<1>4. ASSUME NEW i \in DOMAIN input.condtions
      PROVE  i \in Read <=> \A j \in 1..i : has(j)
  <2>1. i \in Nat /\ 1..i = (1..(i - 1)) \cup {i}
    BY <1>2
  <2> QED
    BY <1>1, <1>3, <2>1
<1>5. Read = {i \in DOMAIN input.condtions : \A j \in 1..i : has(j)}
  BY <1>2, <1>4
<1> QED
  BY <1>1, <1>5 DEF has

\* The points are read from the first row on.
LEMMA FirstRead ==
  ASSUME LocalsInv, NEW i \in Read
  PROVE  1 \in Read
<1>1. i \in 1..Len(input.condtions) /\ input.condtions \in Seq(Condtion)
  BY RowsTyped
<1>2. 1 \in DOMAIN input.condtions /\ 1..1 \subseteq 1..i
  BY <1>1
<1> QED
  BY <1>2, ReadUpTo

\* A value the historian gives is a natural number.
LEMMA ValueTyped ==
  ASSUME NEW answer \in Answer, NEW t, HasValue(answer, t)
  PROVE  t \in Times /\ answer.values[t] \in Nat
BY PointsAssumption DEF HasValue, GetHisValue, Answer, Values

\* The list new has one point more than list wherever the row has a value.
OldPoints(list, t) == IF t \in DOMAIN list THEN list[t] ELSE <<>>
NewPoint(row, order, t) == [name |-> row.name, value |-> row.answer.values[t], order |-> order]
Pushed(list, new, row, order) ==
  /\ DOMAIN new = DOMAIN list \cup GetHisValue(row.answer)
  /\ \A t \in GetHisValue(row.answer) :
       /\ NewPoint(row, order, t) \in Point
       /\ new[t] = Append(OldPoints(list, t), NewPoint(row, order, t))
       /\ new[t] \in Seq(Point) \ {<<>>}
  /\ \A t \in DOMAIN list : t \notin GetHisValue(row.answer) => new[t] = list[t]

LEMMA PushBackIs ==
  ASSUME NEW list, NEW row, row.name \in Tags, row.answer \in Answer, NEW order \in Nat,
         \A t \in DOMAIN list : list[t] \in Seq(Point)
  PROVE  Pushed(list, PushBack(list, row, order), row, order)
<1> DEFINE point(t) == NewPoint(row, order, t)
           old(t) == OldPoints(list, t)
           has == GetHisValue(row.answer)
           new == [t \in DOMAIN list \cup has |->
                     IF HasValue(row.answer, t) THEN Append(old(t), point(t)) ELSE old(t)]
<1>1. PushBack(list, row, order) = new
  BY DEF PushBack, OldPoints, NewPoint
<1>2. \A t : t \in has <=> HasValue(row.answer, t)
  BY DEF HasValue
<1>3. \A t \in has : point(t) \in Point
  BY <1>2, ValueTyped DEF Point, Values, NewPoint
<1>4. \A t \in has : old(t) \in Seq(Point)
  BY DEF OldPoints
<1>5. \A t \in has : Append(old(t), point(t)) \in Seq(Point) \ {<<>>}
  BY <1>3, <1>4
<1> HIDE DEF has
<1> QED
  BY <1>1, <1>2, <1>3, <1>5 DEF Pushed, OldPoints, NewPoint, has

-----------------------------------------------------------------------------
(***************************************************************************)
(* The inductive invariant, one lemma for each action.                     *)
(***************************************************************************)

\* What is said of the input alone does not change, for the input does not.
LEMMA InputFixed ==
  ASSUME input' = input
  PROVE  /\ Read' = Read /\ Tried' = Tried /\ KeptTimes' = KeptTimes
         /\ \A i : CName(i)' = CName(i) /\ IName(i)' = IName(i)
         /\ \A i : CAnswer(i)' = CAnswer(i) /\ IAnswer(i)' = IAnswer(i)
         /\ \A i, t : CondtionPoint(i, t)' = CondtionPoint(i, t) /\ IndexPoint(i, t)' = IndexPoint(i, t)
<1>1. Read' = Read /\ Tried' = Tried
  BY DEF Read, Tried
<1>2. KeptTimes' = KeptTimes
  BY <1>1 DEF KeptTimes, Kept, Filtered, Governs
<1>3. \A i : CName(i)' = CName(i) /\ IName(i)' = IName(i)
  BY DEF CName, IName
<1>4. \A i : CAnswer(i)' = CAnswer(i) /\ IAnswer(i)' = IAnswer(i)
  BY DEF CAnswer, IAnswer
<1>5. \A i, t : CondtionPoint(i, t)' = CondtionPoint(i, t) /\ IndexPoint(i, t)' = IndexPoint(i, t)
  BY DEF CondtionPoint, IndexPoint, CName, IName, CAnswer, IAnswer
<1> QED
  BY <1>1, <1>2, <1>3, <1>4, <1>5

LEMMA PointsInvInit == PointsInit => PointsInv
<1> SUFFICES ASSUME PointsInit PROVE PointsInv
  OBVIOUS
<1> USE DEF PointsInit, EmptyMap
<1>1. input \in Input
  BY PointsAssumption
<1>2. LocalsInv
  BY <1>1 DEF LocalsInv, Phases, Input
<1>3. Fetched = {} /\ Stored = {} /\ Rows = 0
  BY DEF Fetched, Stored, Rows
<1>4. CondtionsInv /\ FilterPointsInv
  BY <1>3 DEF CondtionsInv, FilterPointsInv
<1>5. RowsInv /\ KeptInv
  BY DEF RowsInv, KeptInv
<1>6. BarsInv /\ TodoInv
  BY DEF BarsInv, TodoInv
<1> QED
  BY <1>2, <1>4, <1>5, <1>6 DEF PointsInv

\* What a step that fetches no condition keeps.
LEMMA CondtionsFixed ==
  ASSUME PointsInv, UNCHANGED <<input, mapCondtion, listCondtion>>,
         Fetched' = Fetched, Stored' = Stored
  PROVE  CondtionsInv' /\ FilterPointsInv'
<1> USE InputFixed
<1>1. \A i : Latest(i)' = Latest(i)
  BY DEF Latest
<1>2. CondtionsInv'
  BY <1>1 DEF PointsInv, CondtionsInv
<1>3. FilterPointsInv'
  BY DEF PointsInv, FilterPointsInv
<1> QED
  BY <1>2, <1>3

LEMMA FetchCondtionInv == PointsInv /\ FetchCondtion => PointsInv'
<1> SUFFICES ASSUME PointsInv, FetchCondtion PROVE PointsInv'
  OBVIOUS
<1> DEFINE c == input.condtions[next]
           tag == CName(next)
<1>1. /\ LocalsInv /\ CondtionsInv /\ FilterPointsInv /\ RowsInv /\ KeptInv /\ BarsInv /\ TodoInv
  BY DEF PointsInv
<1>2. /\ input' = input /\ phase = "condtions" /\ next \in 1..Len(input.condtions)
      /\ mapCondtion' = Insert(mapCondtion, tag, c)
      /\ listCondtion' = PushBack(listCondtion, c, 0)
      /\ UNCHANGED <<todo, listPoints, loads, percent>>
  BY <1>1 DEF FetchCondtion, CName, fitVars, countVars, LocalsInv
<1>3. /\ c.name \in Tags /\ c \in Condtion /\ next \in DOMAIN input.condtions
      /\ input.condtions \in Seq(Condtion) /\ c.answer \in Answer
      /\ tag = c.name /\ CAnswer(next) = c.answer
  BY <1>1, <1>2, RowsTyped DEF CName, CAnswer
<1>4. \/ GetHisValue(c.answer) = {} /\ phase' = "indexes" /\ next' = 1
      \/ GetHisValue(c.answer) # {} /\ phase' = phase /\ next' = next + 1
  BY DEF FetchCondtion
<1>5. Fetched = 1..(next - 1) /\ Stored = 1..(next - 1) /\ 1..(next - 1) \subseteq Read
  BY <1>1, <1>2 DEF Fetched, Stored, LocalsInv
<1>6. \A i \in Read : \A j \in 1..i : GetHisValue(CAnswer(j)) # {}
  BY <1>1, ReadUpTo
<1>7. \A i \in Fetched : GetHisValue(CAnswer(i)) # {}
  BY <1>3, <1>5, <1>6, RowsTyped, <1>1
<1>8. Fetched' = IF GetHisValue(c.answer) = {} THEN Fetched ELSE Fetched \cup {next}
  <2>1. CASE GetHisValue(c.answer) = {}
    <3>1. Read = 1..(next - 1)
      <4>1. ASSUME NEW i \in Read PROVE i \in 1..(next - 1)
        <5>1. i \in 1..Len(input.condtions) /\ next \in Nat
          BY <1>1, <1>2, <1>3, RowsTyped
        <5>2. CASE i >= next
          <6>1. next \in 1..i
            BY <1>2, <5>1, <5>2
          <6> QED
            BY <1>3, <1>6, <2>1, <6>1
        <5> QED
          BY <5>1, <5>2
      <4> QED
        BY <1>5, <4>1
    <3> QED
      BY <1>2, <1>4, <1>5, <2>1, <3>1, InputFixed DEF Fetched
  <2>2. CASE GetHisValue(c.answer) # {}
    <3>1. next' = next + 1 /\ phase' = "condtions"
      BY <1>2, <1>4, <2>2
    <3>2. (next + 1) - 1 = next /\ 1..next = (1..(next - 1)) \cup {next}
      BY <1>2
    <3>3. Fetched' = 1..next
      BY <3>1, <3>2 DEF Fetched
    <3> QED
      BY <1>5, <2>2, <3>2, <3>3
  <2> QED
    BY <2>1, <2>2
<1>9a. Stored' = Stored \cup {next}
  <2>1. 1..next = (1..(next - 1)) \cup {next}
    BY <1>2
  <2>2. CASE GetHisValue(c.answer) = {}
    <3>1. next \in Tried
      BY <1>1, <1>3, <1>5, <1>7, ReadUpTo
    <3>2. ASSUME NEW i \in Tried PROVE i \in 1..next
      <4>1. i \in 1..Len(input.condtions) /\ \A j \in 1..(i - 1) : GetHisValue(CAnswer(j)) # {}
        BY <1>1, <1>3, ReadUpTo
      <4>2. next \notin 1..(i - 1)
        BY <1>3, <2>2, <4>1
      <4> QED
        BY <1>2, <4>1, <4>2
    <3>3. Tried = 1..next
      BY <1>1, <1>5, <2>1, <3>1, <3>2, RowsTyped
    <3> QED
      BY <1>2, <1>4, <1>5, <2>1, <2>2, <3>3, InputFixed DEF Stored
  <2>3. CASE GetHisValue(c.answer) # {}
    <3>1. next' = next + 1 /\ phase' = "condtions" /\ (next + 1) - 1 = next
      BY <1>2, <1>4, <2>3
    <3> QED
      BY <1>5, <2>1, <3>1 DEF Stored
  <2> QED
    BY <2>2, <2>3
<1>9. LocalsInv'
  <2>1. CASE GetHisValue(c.answer) = {}
    BY <1>1, <1>2, <1>4, <2>1 DEF LocalsInv, Phases, Input
  <2>2. CASE GetHisValue(c.answer) # {}
    <3>1. next \in Read
      <4>1. \A j \in 1..next : GetHisValue(CAnswer(j)) # {}
        BY <1>2, <1>3, <1>5, <1>7, <2>2
      <4> QED
        BY <1>1, <1>3, <4>1, ReadUpTo
    <3>2. 1..next \subseteq Read
      BY <1>2, <1>5, <3>1
    <3> QED
      BY <1>1, <1>2, <1>4, <2>2, <3>2, InputFixed DEF LocalsInv, Phases
  <2> QED
    BY <2>1, <2>2
<1>10. CondtionsInv'
  <2>1. \A d \in DOMAIN mapCondtion' : mapCondtion'[d] \in Condtion
    BY <1>1, <1>2, <1>3 DEF Insert, CondtionsInv
  <2>2. ASSUME NEW i \in Stored', Latest(i)'
        PROVE  CName(i)' \in DOMAIN mapCondtion' /\ mapCondtion'[CName(i)'] = input'.condtions[i]
    <3>1. CName(i)' = CName(i) /\ \A j \in Stored' : j > i => CName(j) # CName(i)
      BY <1>2, <2>2, InputFixed DEF Latest
    <3>2. CASE i \in Stored
      <4>1. CName(i) # tag
        BY <1>2, <1>5, <1>9a, <3>1, <3>2
      <4>2. Latest(i)
        BY <1>9a, <3>1 DEF Latest
      <4> QED
        BY <1>1, <1>2, <3>1, <3>2, <4>1, <4>2 DEF CondtionsInv, Insert
    <3>3. CASE i = next
      BY <1>2, <3>1, <3>3 DEF Insert
    <3> QED
      BY <1>9a, <3>2, <3>3
  <2> QED
    BY <2>1, <2>2 DEF CondtionsInv
<1>11. FilterPointsInv'
  <2> DEFINE new == listCondtion'
             old(t) == IF t \in DOMAIN listCondtion THEN listCondtion[t] ELSE <<>>
  <2>1. /\ \A t \in DOMAIN listCondtion : t \in Times /\ listCondtion[t] \in Seq(Point)
        /\ 0 \in Nat
    BY <1>1 DEF FilterPointsInv
  <2>2. /\ DOMAIN new = DOMAIN listCondtion \cup GetHisValue(c.answer)
        /\ \A t \in GetHisValue(c.answer) : /\ new[t] = Append(old(t), CondtionPoint(next, t))
                                       /\ CondtionPoint(next, t) \in Point
                                       /\ new[t] \in Seq(Point)
        /\ \A t \in DOMAIN listCondtion : t \notin GetHisValue(c.answer) => new[t] = listCondtion[t]
    <3>1. Pushed(listCondtion, new, c, 0)
      BY <1>1, <1>2, <1>3, <2>1, PushBackIs
    <3>2. \A t : NewPoint(c, 0, t) = CondtionPoint(next, t)
      BY <1>3 DEF NewPoint, CondtionPoint
    <3> QED
      BY <2>1, <3>1, <3>2 DEF Pushed, OldPoints
  <2>3. GetHisValue(c.answer) = {t \in Times : HasValue(CAnswer(next), t)}
    BY <1>3 DEF GetHisValue, HasValue
  <2>4. \A t \in GetHisValue(c.answer) : Fetched' = Fetched \cup {next}
    BY <1>8
  <2>5. DOMAIN new = {t \in Times : \E i \in Fetched' : HasValue(CAnswer(i), t)}
    BY <1>1, <1>8, <2>2, <2>3 DEF FilterPointsInv
  <2>6. ASSUME NEW t \in DOMAIN new
        PROVE  /\ new[t] \in Seq(Point)
               /\ \A k \in DOMAIN new[t] :
                    \E i \in Fetched' : HasValue(CAnswer(i), t) /\ new[t][k] = CondtionPoint(i, t)
               /\ \A i \in Fetched' : HasValue(CAnswer(i), t) =>
                    \E k \in DOMAIN new[t] : new[t][k] = CondtionPoint(i, t)
    <3>1. CASE t \in GetHisValue(c.answer)
      <4>1. /\ new[t] = Append(old(t), CondtionPoint(next, t)) /\ new[t] \in Seq(Point)
            /\ old(t) \in Seq(Point)
        BY <2>1, <2>2, <3>1
      <4>2. /\ DOMAIN new[t] = DOMAIN old(t) \cup {Len(old(t)) + 1}
            /\ new[t][Len(old(t)) + 1] = CondtionPoint(next, t)
            /\ \A k \in DOMAIN old(t) : new[t][k] = old(t)[k]
        BY <2>2, <3>1, <4>1
      <4>3. HasValue(CAnswer(next), t) /\ t \in Times
        BY <2>3, <3>1
      <4>4. ASSUME NEW k \in DOMAIN old(t)
            PROVE  \E i \in Fetched : HasValue(CAnswer(i), t) /\ old(t)[k] = CondtionPoint(i, t)
        <5>1. t \in DOMAIN listCondtion
          OBVIOUS
        <5> QED
          BY <1>1, <5>1 DEF FilterPointsInv
      <4>5. ASSUME NEW i \in Fetched, HasValue(CAnswer(i), t)
            PROVE  \E k \in DOMAIN old(t) : old(t)[k] = CondtionPoint(i, t)
        <5>1. t \in DOMAIN listCondtion
          BY <1>1, <4>3, <4>5 DEF FilterPointsInv
        <5> QED
          BY <1>1, <4>5, <5>1 DEF FilterPointsInv
      <4> HIDE DEF new, old, tag, c
      <4> QED
        BY <2>4, <3>1, <4>1, <4>2, <4>3, <4>4, <4>5
    <3>2. CASE t \notin GetHisValue(c.answer)
      <4>1. t \in DOMAIN listCondtion /\ new[t] = listCondtion[t] /\ t \in Times
        BY <2>1, <2>2, <3>2
      <4>2. \A i \in Fetched' : HasValue(CAnswer(i), t) => i \in Fetched
        BY <1>8, <2>3, <3>2, <4>1
      <4>3. Fetched \subseteq Fetched'
        BY <1>8
      <4> QED
        BY <1>1, <4>1, <4>2, <4>3 DEF FilterPointsInv
    <3> QED
      BY <3>1, <3>2
  <2> QED
    <3>1. \A i, t : /\ HasValue(CAnswer(i), t)' = HasValue(CAnswer(i), t)
                     /\ CondtionPoint(i, t)' = CondtionPoint(i, t)
      BY <1>2, InputFixed DEF HasValue, GetHisValue
    <3> QED
      BY <2>5, <2>6, <3>1 DEF FilterPointsInv
<1>12. RowsInv' /\ KeptInv'
  <2>1. DOMAIN listPoints' = {}
    BY <1>1, <1>2 DEF KeptInv
  <2> QED
    BY <1>4, <1>2, <2>1 DEF RowsInv, KeptInv
<1>13. BarsInv' /\ TodoInv'
  BY <1>1, <1>2, <1>4 DEF BarsInv, TodoInv
<1> QED
  BY <1>9, <1>10, <1>11, <1>12, <1>13 DEF PointsInv

LEMMA EndCondtionsInv == PointsInv /\ EndCondtions => PointsInv'
<1> SUFFICES ASSUME PointsInv, EndCondtions PROVE PointsInv'
  OBVIOUS
<1>1. /\ LocalsInv /\ CondtionsInv /\ FilterPointsInv /\ RowsInv /\ KeptInv /\ BarsInv /\ TodoInv
  BY DEF PointsInv
<1>2. /\ phase = "condtions" /\ next > Len(input.condtions) /\ phase' = "indexes" /\ next' = 1
      /\ UNCHANGED <<input, todo, mapCondtion, listCondtion, listPoints, loads, percent>>
  BY DEF EndCondtions, fetchVars, fitVars, countVars
<1>3. LocalsInv'
  BY <1>1, <1>2 DEF LocalsInv, Phases, Input
<1>4. Fetched' = Fetched /\ Stored' = Stored
  <2>1. next = Len(input.condtions) + 1 /\ 1..(next - 1) \subseteq Read /\ input.condtions \in Seq(Condtion)
    BY <1>1, <1>2, RowsTyped DEF LocalsInv
  <2>2. DOMAIN input.condtions = 1..(next - 1)
    BY <1>1, <2>1, RowsTyped
  <2>3. Read = 1..(next - 1) /\ Tried = 1..(next - 1)
    BY <1>1, <2>1, <2>2, RowsTyped
  <2> QED
    BY <1>2, <2>3, InputFixed DEF Fetched, Stored
<1>5. CondtionsInv' /\ FilterPointsInv'
  BY <1>2, <1>4, CondtionsFixed
<1>6. RowsInv' /\ KeptInv'
  <2>1. DOMAIN listPoints' = {}
    BY <1>1, <1>2 DEF KeptInv
  <2> QED
    BY <1>2, <2>1 DEF RowsInv, KeptInv
<1>7. BarsInv' /\ TodoInv'
  BY <1>1, <1>2 DEF BarsInv, TodoInv
<1> QED
  BY <1>3, <1>5, <1>6, <1>7 DEF PointsInv

LEMMA FetchIndexInv == PointsInv /\ FetchIndex => PointsInv'
<1> SUFFICES ASSUME PointsInv, FetchIndex PROVE PointsInv'
  OBVIOUS
<1> DEFINE row == input.indexes[next]
           tag == IName(next)
           order == input.indexes[next].order
           new == listPoints'
<1>1. /\ LocalsInv /\ CondtionsInv /\ FilterPointsInv /\ RowsInv /\ KeptInv /\ BarsInv /\ TodoInv
  BY DEF PointsInv
<1>2. /\ phase = "indexes" /\ next \in 1..Len(input.indexes)
      /\ new = PushBack(listPoints, row, order)
      /\ UNCHANGED <<input, mapCondtion, listCondtion, loads, percent>>
  BY <1>1 DEF FetchIndex, fitVars, countVars, LocalsInv
<1>3. \/ /\ GetHisValue(row.answer) = {} /\ phase' = "filter" /\ next' = 1
         /\ todo' = DOMAIN new
      \/ GetHisValue(row.answer) # {} /\ phase' = "indexes" /\ next' = next + 1 /\ todo' = todo
  BY DEF FetchIndex
<1>4. /\ tag \in Tags /\ order \in Nat /\ input.indexes \in Seq(Index)
      /\ next \in DOMAIN input.indexes /\ row.answer \in Answer
      /\ tag = row.name /\ IAnswer(next) = row.answer
  BY <1>1, <1>2, RowsTyped DEF IName, IAnswer
<1>5. \A t \in DOMAIN listPoints : t \in Times /\ listPoints[t] \in Seq(Point)
  BY <1>1 DEF RowsInv
<1>6. Pushed(listPoints, new, row, order)
  BY <1>1, <1>2, <1>4, <1>5, PushBackIs
<1>7. /\ DOMAIN new = DOMAIN listPoints \cup GetHisValue(row.answer)
      /\ \A t \in GetHisValue(row.answer) : /\ new[t] = Append(OldPoints(listPoints, t), IndexPoint(next, t))
                                     /\ IndexPoint(next, t) \in Point
                                     /\ new[t] \in Seq(Point) \ {<<>>}
      /\ \A t \in DOMAIN listPoints : t \notin GetHisValue(row.answer) => new[t] = listPoints[t]
  BY <1>4, <1>5, <1>6 DEF Pushed, NewPoint, IndexPoint
<1>8. GetHisValue(row.answer) = {t \in Times : HasValue(IAnswer(next), t)}
  BY <1>4 DEF GetHisValue, HasValue
<1>9. Fetched' = Fetched /\ Stored' = Stored
  BY <1>2, <1>3, InputFixed DEF Fetched, Stored
<1>10. CondtionsInv' /\ FilterPointsInv'
  BY <1>2, <1>9, CondtionsFixed
<1>11. LocalsInv'
  BY <1>1, <1>2, <1>3 DEF LocalsInv, Phases, Input
<1>12. Rows = next - 1 /\ Rows \in Nat
  BY <1>1, <1>2 DEF Rows, LocalsInv
<1>13. ASSUME NEW t \in DOMAIN new
       PROVE  /\ t \in Times
              /\ new[t] \in Seq(Point) \ {<<>>}
              /\ Len(new[t]) <= next
              /\ Len(new[t]) = next <=> \A j \in 1..next : HasValue(IAnswer(j), t)
              /\ Len(new[t]) = next => \A j \in 1..next : new[t][j] = IndexPoint(j, t)
  <2>1. t \in Times /\ new[t] \in Seq(Point) \ {<<>>}
    BY <1>1, <1>5, <1>7, <1>8 DEF RowsInv
  <2>2. CASE t \in GetHisValue(row.answer)
    <3> DEFINE old == OldPoints(listPoints, t)
    <3>1. old \in Seq(Point) /\ HasValue(IAnswer(next), t)
      BY <1>5, <1>8, <2>2 DEF OldPoints
    <3>2. /\ Len(old) <= next - 1
          /\ Len(old) = next - 1 <=> \A j \in 1..(next - 1) : HasValue(IAnswer(j), t)
          /\ Len(old) = next - 1 => \A j \in 1..(next - 1) : old[j] = IndexPoint(j, t)
      <4>1. CASE t \in DOMAIN listPoints
        BY <1>1, <1>12, <4>1 DEF RowsInv, OldPoints
      <4>2. CASE t \notin DOMAIN listPoints
        <5>1. old = <<>>
          BY <4>2 DEF OldPoints
        <5>2. next = 1 \/ ~ \A j \in 1..(next - 1) : HasValue(IAnswer(j), t)
          BY <1>1, <1>2, <2>1, <4>2 DEF KeptInv
        <5> QED
          BY <1>2, <5>1, <5>2
      <4> QED
        BY <4>1, <4>2
    <3>3. /\ new[t] = Append(old, IndexPoint(next, t)) /\ new[t] \in Seq(Point)
          /\ Len(new[t]) = Len(old) + 1 /\ new[t][Len(old) + 1] = IndexPoint(next, t)
          /\ \A j \in 1..Len(old) : new[t][j] = old[j]
      BY <1>7, <2>2, <3>1
    <3> HIDE DEF old, new, tag, row
    <3>4. Len(new[t]) <= next /\ (Len(new[t]) = next <=> Len(old) = next - 1)
      BY <1>2, <3>1, <3>2, <3>3
    <3>5. (\A j \in 1..next : HasValue(IAnswer(j), t)) <=> (\A j \in 1..(next - 1) : HasValue(IAnswer(j), t))
      BY <1>2, <3>1
    <3>6. Len(new[t]) = next => \A j \in 1..next : new[t][j] = IndexPoint(j, t)
      BY <1>2, <3>1, <3>2, <3>3, <3>4
    <3> QED
      BY <2>1, <3>2, <3>4, <3>5, <3>6
  <2>3. CASE t \notin GetHisValue(row.answer)
    <3>1. t \in DOMAIN listPoints /\ new[t] = listPoints[t] /\ ~HasValue(IAnswer(next), t)
      BY <1>7, <1>8, <2>1, <2>3
    <3>2. Len(new[t]) <= next - 1 /\ Len(new[t]) \in Nat
      BY <1>1, <1>12, <2>1, <3>1 DEF RowsInv
    <3> HIDE DEF new
    <3> QED
      BY <1>2, <2>1, <3>1, <3>2
  <2> QED
    BY <2>2, <2>3
<1>14. ASSUME NEW t \in Times, \A j \in 1..next : HasValue(IAnswer(j), t)
       PROVE  t \in DOMAIN new
  <2>1. next \in 1..next
    BY <1>2
  <2> QED
    BY <1>7, <1>8, <1>14, <2>1
<1>15. BarsInv' /\ TodoInv'
  BY <1>1, <1>2, <1>3 DEF BarsInv, TodoInv
<1>16. RowsInv' /\ KeptInv'
  <2>1. \A i, t : /\ HasValue(IAnswer(i), t)' = HasValue(IAnswer(i), t)
                  /\ IndexPoint(i, t)' = IndexPoint(i, t)
    BY <1>2, InputFixed DEF HasValue, GetHisValue
  <2>2. CASE GetHisValue(row.answer) # {}
    <3>1. phase' = "indexes" /\ next' = next + 1 /\ next \in Nat /\ (next + 1) - 1 = next
      BY <1>2, <1>3, <2>2
    <3>2. Rows' = next
      BY <3>1 DEF Rows
    <3>3. RowsInv'
      BY <1>13, <2>1, <3>2 DEF RowsInv
    <3>4. KeptInv'
      BY <1>14, <2>1, <3>1 DEF KeptInv
    <3> QED
      BY <3>3, <3>4
  <2>3. CASE GetHisValue(row.answer) = {}
    <3>1. phase' = "filter" /\ todo' = DOMAIN new
      BY <1>3, <2>3
    <3>2. Rows' = Len(input.indexes)
      BY <1>2, <3>1 DEF Rows
    <3>3. DOMAIN new = DOMAIN listPoints /\ \A t \in DOMAIN new : new[t] = listPoints[t]
      BY <1>5, <1>7, <2>3
    <3>4. \A t \in DOMAIN new : Len(new[t]) \in Nat /\ Len(new[t]) <= next - 1
      BY <1>1, <1>12, <3>3 DEF RowsInv
    <3>5. \A t \in Times : ~HasValue(IAnswer(next), t)
      BY <1>8, <2>3
    <3>6. next \in 1..Rows' /\ Rows' \in Nat
      BY <1>2, <1>4, <3>2
    <3>7. \A t \in DOMAIN new : Len(new[t]) < Rows' /\ Len(new[t]) <= Rows'
      BY <1>2, <3>4, <3>6
    <3>8. RowsInv'
      <4>1. \A t \in DOMAIN new : ~ \A j \in 1..Rows' : HasValue(IAnswer(j), t)
        BY <1>13, <3>5, <3>6
      <4> QED
        BY <1>13, <2>1, <3>4, <3>6, <3>7, <4>1 DEF RowsInv
    <3>9. KeptTimes = {}
      BY <1>4, <3>5 DEF KeptTimes, Kept, IAnswer
    <3>10. KeptInv'
      BY <1>2, <3>1, <3>9, InputFixed DEF KeptInv
    <3> QED
      BY <3>8, <3>10
  <2> QED
    BY <2>2, <2>3
<1> QED
  BY <1>10, <1>11, <1>15, <1>16 DEF PointsInv

LEMMA EndIndexesInv == PointsInv /\ EndIndexes => PointsInv'
<1> SUFFICES ASSUME PointsInv, EndIndexes PROVE PointsInv'
  OBVIOUS
<1>1. /\ LocalsInv /\ CondtionsInv /\ FilterPointsInv /\ RowsInv /\ KeptInv /\ BarsInv /\ TodoInv
  BY DEF PointsInv
<1>2. /\ phase = "indexes" /\ next > Len(input.indexes) /\ phase' = "filter" /\ next' = 1
      /\ todo' = DOMAIN listPoints
      /\ UNCHANGED <<input, mapCondtion, listCondtion, listPoints, loads, percent>>
  BY DEF EndIndexes, fetchVars, fitVars, countVars
<1>3. LocalsInv'
  BY <1>1, <1>2 DEF LocalsInv, Phases, Input
<1>4. Fetched' = Fetched /\ Stored' = Stored
  BY <1>2, InputFixed DEF Fetched, Stored
<1>5. CondtionsInv' /\ FilterPointsInv'
  BY <1>2, <1>4, CondtionsFixed
<1>6. next - 1 = Len(input.indexes) /\ DOMAIN input.indexes = 1..Len(input.indexes)
  BY <1>1, <1>2, RowsTyped DEF LocalsInv
<1>7. Rows' = Rows
  BY <1>2, <1>6 DEF Rows
<1>8. RowsInv'
  BY <1>1, <1>2, <1>7, InputFixed DEF RowsInv, HasValue, GetHisValue
<1>9. KeptInv'
  <2>1. \A t \in KeptTimes : /\ t \in Times /\ input.indexes # <<>>
                             /\ \A j \in 1..(next - 1) : HasValue(IAnswer(j), t)
    BY <1>6 DEF KeptTimes, Kept, IAnswer
  <2>2. \A t \in KeptTimes : next > 1
    BY <1>1, <1>6, <2>1, RowsTyped DEF LocalsInv
  <2>3. KeptTimes \subseteq DOMAIN listPoints
    BY <1>1, <1>2, <2>1, <2>2 DEF KeptInv
  <2> QED
    BY <1>2, <2>3, InputFixed DEF KeptInv
<1>10. BarsInv' /\ TodoInv'
  BY <1>1, <1>2 DEF BarsInv, TodoInv
<1> QED
  BY <1>3, <1>5, <1>8, <1>9, <1>10 DEF PointsInv

\* The limits of the code, four comparisons that are each the negation of one,
\* against what a condition means.
LEMMA LimitsAgree ==
  ASSUME NEW p \in Point, p.name \in DOMAIN mapCondtion, mapCondtion[p.name] \in Condtion
  PROVE  OutOfLimits(p) <=> ~Meets(p.value, mapCondtion[p.name])
<1> DEFINE c == mapCondtion[p.name]
           low == c.LowLimit * Unit
           up == c.UpLimit * Unit
<1>1. p.value \in Nat /\ low \in Int /\ up \in Int
  BY PointsAssumption DEF Point, Values, Condtion
<1>2. c.LowLimitIn \in {0, 1} /\ c.UpLimitIn \in {0, 1}
  BY DEF Condtion
<1>3. OutOfLimits(p) <=> \/ c.LowLimitIn = 0 /\ p.value < low
                         \/ c.LowLimitIn = 1 /\ p.value <= low
                         \/ c.UpLimitIn = 0 /\ p.value > up
                         \/ c.UpLimitIn = 1 /\ p.value >= up
  BY DEF OutOfLimits
<1>4. Meets(p.value, c) <=> /\ p.value > low \/ (c.LowLimitIn = 0 /\ p.value = low)
                            /\ p.value < up \/ (c.UpLimitIn = 0 /\ p.value = up)
  BY DEF Meets
<1> HIDE DEF c, low, up
<1>5. (c.LowLimitIn = 0 /\ p.value < low) \/ (c.LowLimitIn = 1 /\ p.value <= low)
        <=> ~(p.value > low \/ (c.LowLimitIn = 0 /\ p.value = low))
  BY <1>1, <1>2
<1>6. (c.UpLimitIn = 0 /\ p.value > up) \/ (c.UpLimitIn = 1 /\ p.value >= up)
        <=> ~(p.value < up \/ (c.UpLimitIn = 0 /\ p.value = up))
  BY <1>1, <1>2
<1> QED
  BY <1>3, <1>4, <1>5, <1>6 DEF c

\* Of the conditions stored for one point there is a last one.
LEMMA GovernsExists ==
  ASSUME LocalsInv, NEW i \in Read
  PROVE  \E g \in Tried : Governs(g, i)
<1> DEFINE same == {j \in Tried : CName(j) = CName(i)}
<1>1. same \in SUBSET Nat /\ same # {} /\ \A m \in same : m <= Len(input.condtions)
  BY RowsTyped
<1>2. Len(input.condtions) \in Nat
  BY RowsTyped
<1>3. Max(same) \in same /\ \A m \in same : Max(same) >= m
  BY <1>1, <1>2, GreatestExists
<1> DEFINE g == Max(same)
<1>4. g \in Nat /\ g \in Tried /\ CName(g) = CName(i)
      /\ \A m \in Tried : CName(m) = CName(i) => g >= m
  BY <1>1, <1>3
<1> HIDE DEF g, same
<1>5. \A m \in Tried : m \in Nat
  BY RowsTyped
<1>6. Governs(g, i)
  BY <1>4, <1>5 DEF Governs, CName
<1> QED
  BY <1>4, <1>6

\* mapTfnlCondtion gives the condition that governs a point that was read.
LEMMA GoverningStored ==
  ASSUME LocalsInv, CondtionsInv, phase # "condtions", NEW i \in Read, NEW g \in Tried, Governs(g, i)
  PROVE  /\ CName(i) \in DOMAIN mapCondtion /\ mapCondtion[CName(i)] = input.condtions[g]
         /\ mapCondtion[CName(i)] \in Condtion
<1>1. Stored = Tried /\ CName(g) = CName(i)
  BY DEF Stored, Governs, CName
<1>2. Latest(g)
  BY <1>1 DEF Latest, Governs, CName
<1> QED
  BY <1>1, <1>2 DEF CondtionsInv

\* A visited time stamp is removed exactly if the reference rejects it.
LEMMA RemovedIsRejected ==
  ASSUME PointsInv, phase = "filter", NEW t \in DOMAIN listPoints
  PROVE  Removed(t) <=> ~Kept(t)
<1>1. /\ LocalsInv /\ CondtionsInv /\ FilterPointsInv /\ RowsInv
  BY DEF PointsInv
<1>2. Fetched = Read /\ Rows = Len(input.indexes)
  BY DEF Fetched, Rows
<1>3. /\ t \in Times /\ Len(listPoints[t]) \in Nat \ {0} /\ Len(listPoints[t]) <= Rows
      /\ Len(listPoints[t]) = Rows <=> \A j \in 1..Rows : HasValue(IAnswer(j), t)
  BY <1>1 DEF RowsInv
<1>4. input.indexes # <<>> /\ DOMAIN input.indexes = 1..Rows
  BY <1>1, <1>2, <1>3, RowsTyped
<1>5. Len(listPoints[t]) # Len(input.indexes) <=>
        ~ \A j \in DOMAIN input.indexes : HasValue(input.indexes[j].answer, t)
  BY <1>2, <1>3, <1>4 DEF IAnswer
<1>6. t \notin DOMAIN listCondtion <=> ~ \E i \in Read : HasValue(CAnswer(i), t)
  BY <1>1, <1>2, <1>3 DEF FilterPointsInv
<1>7. \A i \in Read : i \in DOMAIN input.condtions /\ CName(i) \in Tags /\ CAnswer(i) \in Answer
  BY <1>1, RowsTyped
<1>8. ASSUME NEW i \in Read, NEW g \in Tried, Governs(g, i), HasValue(CAnswer(i), t)
      PROVE  OutOfLimits(CondtionPoint(i, t)) <=> ~Meets(CAnswer(i).values[t], input.condtions[g])
  <2>1. /\ CName(i) \in DOMAIN mapCondtion /\ mapCondtion[CName(i)] = input.condtions[g]
        /\ mapCondtion[CName(i)] \in Condtion
    BY <1>1, <1>8, GoverningStored
  <2>2. /\ CondtionPoint(i, t).name = CName(i) /\ CondtionPoint(i, t).value = CAnswer(i).values[t]
        /\ CondtionPoint(i, t) \in Point
    BY <1>7, <1>8, ValueTyped DEF CondtionPoint, Point, Values
  <2> QED
    BY <2>1, <2>2, LimitsAgree
<1>9. ASSUME t \in DOMAIN listCondtion
      PROVE  (\E k \in DOMAIN listCondtion[t] : OutOfLimits(listCondtion[t][k]))
               <=> \E i \in Read, g \in Tried :
                     /\ HasValue(CAnswer(i), t) /\ Governs(g, i)
                     /\ ~Meets(CAnswer(i).values[t], input.condtions[g])
  <2>1. ASSUME NEW k \in DOMAIN listCondtion[t], OutOfLimits(listCondtion[t][k])
        PROVE  \E i \in Read, g \in Tried : /\ HasValue(CAnswer(i), t) /\ Governs(g, i)
                                            /\ ~Meets(CAnswer(i).values[t], input.condtions[g])
    <3>1. PICK i \in Read : HasValue(CAnswer(i), t) /\ listCondtion[t][k] = CondtionPoint(i, t)
      BY <1>1, <1>2, <1>9 DEF FilterPointsInv
    <3>2. PICK g \in Tried : Governs(g, i)
      BY <1>1, GovernsExists
    <3> QED
      BY <1>8, <2>1, <3>1, <3>2
  <2>2. ASSUME NEW i \in Read, NEW g \in Tried, HasValue(CAnswer(i), t), Governs(g, i),
               ~Meets(CAnswer(i).values[t], input.condtions[g])
        PROVE  \E k \in DOMAIN listCondtion[t] : OutOfLimits(listCondtion[t][k])
    <3>1. PICK k \in DOMAIN listCondtion[t] : listCondtion[t][k] = CondtionPoint(i, t)
      BY <1>1, <1>2, <1>9, <2>2 DEF FilterPointsInv
    <3> QED
      BY <1>8, <2>2, <3>1
  <2> QED
    BY <2>1, <2>2
<1>10. Kept(t) <=> /\ \A j \in DOMAIN input.indexes : HasValue(input.indexes[j].answer, t)
                   /\ \E i \in Read : HasValue(CAnswer(i), t)
                   /\ ~ \E i \in Read, g \in Tried :
                          /\ HasValue(CAnswer(i), t) /\ Governs(g, i)
                          /\ ~Meets(CAnswer(i).values[t], input.condtions[g])
  BY <1>4 DEF Kept, Filtered, CAnswer
<1> QED
  BY <1>5, <1>6, <1>9, <1>10 DEF Removed

LEMMA FilterInv == PointsInv /\ Filter => PointsInv'
<1> SUFFICES ASSUME PointsInv, Filter PROVE PointsInv'
  OBVIOUS
<1> DEFINE t == Min(todo)
<1>1. /\ LocalsInv /\ CondtionsInv /\ FilterPointsInv /\ RowsInv /\ KeptInv /\ BarsInv /\ TodoInv
  BY DEF PointsInv
<1>2. /\ phase = "filter" /\ todo # {} /\ todo' = todo \ {t}
      /\ listPoints' = IF Removed(t) THEN Restrict(listPoints, DOMAIN listPoints \ {t})
                                     ELSE listPoints
      /\ UNCHANGED <<input, phase, next, mapCondtion, listCondtion, loads, percent>>
  BY DEF Filter, fitVars, countVars
<1>3. DOMAIN listPoints \subseteq Times /\ todo \subseteq DOMAIN listPoints
  BY <1>1, <1>2 DEF RowsInv, KeptInv
<1>4. todo \in SUBSET Nat
  BY <1>3, PointsAssumption
<1>5. t \in todo
  BY <1>2, <1>4, LeastExists
<1>6. t \in KeptTimes <=> ~Removed(t)
  BY <1>1, <1>2, <1>3, <1>5, RemovedIsRejected DEF KeptTimes
<1>7. Fetched' = Fetched /\ Stored' = Stored /\ Rows' = Rows
  BY <1>2, InputFixed DEF Fetched, Stored, Rows
<1>8. CondtionsInv' /\ FilterPointsInv'
  BY <1>2, <1>7, CondtionsFixed
<1>9. LocalsInv'
  BY <1>1, <1>2 DEF LocalsInv, Phases
<1> HIDE DEF t
<1>10. /\ DOMAIN listPoints' = IF Removed(t) THEN DOMAIN listPoints \ {t} ELSE DOMAIN listPoints
       /\ \A u \in DOMAIN listPoints' : listPoints'[u] = listPoints[u]
  BY <1>2 DEF Restrict
<1>11. \A i, u : /\ HasValue(IAnswer(i), u)' = HasValue(IAnswer(i), u)
                 /\ IndexPoint(i, u)' = IndexPoint(i, u)
  BY <1>2, InputFixed DEF HasValue, GetHisValue
<1>12. RowsInv'
  BY <1>1, <1>7, <1>10, <1>11 DEF RowsInv
<1>13. KeptInv'
  BY <1>1, <1>2, <1>3, <1>5, <1>6, <1>10, InputFixed DEF KeptInv
<1>14. BarsInv' /\ TodoInv'
  BY <1>1, <1>2 DEF BarsInv, TodoInv
<1> QED
  BY <1>8, <1>9, <1>12, <1>13, <1>14 DEF PointsInv

\* What the steps after the filter keep: they look at the points only.
LEMMA PointsFixed ==
  ASSUME PointsInv, UNCHANGED <<input, mapCondtion, listCondtion, listPoints>>, next' = next,
         phase \in {"filter", "prepare", "fit", "count", "divide", "done"},
         phase' \in {"prepare", "fit", "count", "divide", "done"},
         phase = "filter" => todo = {}
  PROVE  LocalsInv' /\ CondtionsInv' /\ FilterPointsInv' /\ RowsInv' /\ KeptInv'
<1>1. /\ LocalsInv /\ CondtionsInv /\ FilterPointsInv /\ RowsInv /\ KeptInv
  BY DEF PointsInv
<1>2. Fetched' = Fetched /\ Stored' = Stored /\ Rows' = Rows
  BY InputFixed DEF Fetched, Stored, Rows
<1>3. LocalsInv'
  BY <1>1 DEF LocalsInv, Phases
<1>4. CondtionsInv' /\ FilterPointsInv'
  BY <1>2, CondtionsFixed
<1>5. \A i, u : /\ HasValue(IAnswer(i), u)' = HasValue(IAnswer(i), u)
                /\ IndexPoint(i, u)' = IndexPoint(i, u)
  BY InputFixed DEF HasValue, GetHisValue
<1>6. RowsInv'
  BY <1>1, <1>2, <1>5 DEF RowsInv
<1>7. DOMAIN listPoints = KeptTimes
  BY <1>1 DEF KeptInv
<1>8. KeptInv'
  BY <1>7, InputFixed DEF KeptInv
<1> QED
  BY <1>3, <1>4, <1>6, <1>8

\* A load that is rounded up is a natural number.
LEMMA CeilTyped ==
  ASSUME NEW v \in Nat
  PROVE  Ceil(v) \in Nat
<1> DEFINE q == (-v) \div Unit
<1>1. Unit \in Nat \ {0} /\ -v \in Int /\ -v <= 0
  BY PointsAssumption
<1>2. q \in Int /\ Unit * q <= -v
  BY <1>1
<1> HIDE DEF q
<1>3. q <= 0
  BY <1>1, <1>2
<1>4. Ceil(v) = -q
  BY DEF Ceil, q
<1> QED
  BY <1>2, <1>3, <1>4

\* The last point of a kind at a time stamp is one of the points read.
LEMMA LastOfKind ==
  ASSUME LocalsInv, FilterPointsInv, NEW t \in DOMAIN listCondtion, NEW kind, PlacesOf(t, kind) # {}
  PROVE  /\ LastOf(t, kind) \in Point /\ Kind(LastOf(t, kind)) = kind
         /\ \E i \in Fetched : HasValue(CAnswer(i), t) /\ LastOf(t, kind) = CondtionPoint(i, t)
<1> DEFINE g == Max(PlacesOf(t, kind))
<1>1. listCondtion[t] \in Seq(Point)
  BY DEF FilterPointsInv
<1>2. /\ PlacesOf(t, kind) \in SUBSET Nat /\ \A m \in PlacesOf(t, kind) : m <= Len(listCondtion[t])
      /\ Len(listCondtion[t]) \in Nat
  BY <1>1 DEF PlacesOf
<1>3. g \in PlacesOf(t, kind)
  BY <1>2, GreatestExists
<1>4. g \in DOMAIN listCondtion[t] /\ Kind(listCondtion[t][g]) = kind
  BY <1>3 DEF PlacesOf
<1>5. LastOf(t, kind) = listCondtion[t][g]
  BY DEF LastOf
<1> HIDE DEF g
<1> QED
  BY <1>1, <1>4, <1>5 DEF FilterPointsInv

LEMMA ValueAtTyped ==
  ASSUME LocalsInv, FilterPointsInv, NEW t \in DOMAIN listCondtion, NEW kind
  PROVE  ValueAt(t, kind) \in Nat
<1>1. CASE PlacesOf(t, kind) = {}
  BY <1>1 DEF ValueAt
<1>2. CASE PlacesOf(t, kind) # {}
  BY <1>2, LastOfKind DEF ValueAt, Point, Values
<1> QED
  BY <1>1, <1>2

LEMMA AfterFilterInv == PointsInv /\ (EndFilter \/ Prepare \/ Fit) => PointsInv'
<1> SUFFICES ASSUME PointsInv, EndFilter \/ Prepare \/ Fit PROVE PointsInv'
  OBVIOUS
<1>1. /\ LocalsInv /\ FilterPointsInv /\ BarsInv /\ TodoInv
  BY DEF PointsInv
<1>2. /\ UNCHANGED <<input, mapCondtion, listCondtion, listPoints, loads, percent>> /\ next' = next
      /\ phase \in {"filter", "prepare", "fit"}
      /\ phase' \in {"prepare", "fit", "count", "done"}
      /\ phase = "filter" => todo = {}
      /\ todo' = IF phase' = "count" THEN DOMAIN listCondtion ELSE {}
  BY <1>1 DEF EndFilter, Prepare, Fit, fetchVars, fitVars, countVars, TodoInv
<1>3. LocalsInv' /\ CondtionsInv' /\ FilterPointsInv' /\ RowsInv' /\ KeptInv'
  BY <1>2, PointsFixed
<1>4. DOMAIN percent = {}
  BY <1>1, <1>2 DEF BarsInv
<1>5. BarsInv' /\ TodoInv'
  BY <1>1, <1>2, <1>4 DEF BarsInv, TodoInv
<1> QED
  BY <1>3, <1>5 DEF PointsInv

LEMMA CountLoadInv == PointsInv /\ CountLoad => PointsInv'
<1> SUFFICES ASSUME PointsInv, CountLoad PROVE PointsInv'
  OBVIOUS
<1> DEFINE t == Min(todo)
           load == ValueAt(t, "load")
           bar == Ceil(load)
           old == IF bar \in DOMAIN percent THEN percent[bar][1] ELSE 0
<1>1. /\ LocalsInv /\ FilterPointsInv /\ BarsInv /\ TodoInv
  BY DEF PointsInv
<1>2. /\ phase = "count" /\ todo # {} /\ todo' = todo \ {t}
      /\ UNCHANGED <<input, phase, next, mapCondtion, listCondtion, listPoints>>
  BY DEF CountLoad, fetchVars, fitVars
<1>3. PICK counted \in MayCount(t) :
        /\ percent' = IF counted THEN Insert(percent, bar, <<old + 1, 1>>) ELSE percent
        /\ loads' = IF counted THEN Append(loads, load) ELSE loads
  BY DEF CountLoad
<1>4. todo \subseteq DOMAIN listCondtion /\ DOMAIN listCondtion \subseteq Times /\ Times \subseteq Nat
  BY <1>1, <1>2, PointsAssumption DEF TodoInv, FilterPointsInv
<1>5. t \in todo
  BY <1>2, <1>4, LeastExists
<1>6. load \in Nat /\ bar \in Nat
  BY <1>1, <1>4, <1>5, ValueAtTyped, CeilTyped
<1>7. \E i \in Read : TRUE
  BY <1>1, <1>2, <1>4, <1>5 DEF FilterPointsInv, Fetched
<1>8. 1 \in Read
  BY <1>1, <1>7, FirstRead
<1>9. LocalsInv' /\ CondtionsInv' /\ FilterPointsInv' /\ RowsInv' /\ KeptInv'
  BY <1>2, PointsFixed
<1> HIDE DEF t, load, bar
<1>10. old \in Nat
  BY <1>1 DEF BarsInv
<1> HIDE DEF old
<1>11. BarsInv'
  <2>1. CASE counted
    <3>1. percent' = Insert(percent, bar, <<old + 1, 1>>) /\ loads' = Append(loads, load)
      BY <1>3, <2>1
    <3>2. loads' \in Seq(Nat) /\ loads' # <<>>
      BY <1>1, <1>6, <3>1 DEF BarsInv
    <3>3. /\ DOMAIN percent' = DOMAIN percent \cup {bar}
          /\ \A b \in DOMAIN percent' : percent'[b] = IF b = bar THEN <<old + 1, 1>> ELSE percent[b]
      BY <3>1 DEF Insert
    <3>4. \A b \in DOMAIN percent' : percent'[b] \in Nat \X (Nat \ {0})
      BY <1>1, <1>10, <3>3 DEF BarsInv
    <3> QED
      BY <1>1, <1>2, <1>6, <1>8, <3>2, <3>3, <3>4, InputFixed DEF BarsInv
  <2>2. CASE ~counted
    BY <1>1, <1>2, <1>3, <2>2, InputFixed DEF BarsInv
  <2> QED
    BY <2>1, <2>2
<1>12. TodoInv'
  BY <1>1, <1>2 DEF TodoInv
<1> QED
  BY <1>9, <1>11, <1>12 DEF PointsInv

LEMMA DivideInv == PointsInv /\ Divide => PointsInv'
<1> SUFFICES ASSUME PointsInv, Divide PROVE PointsInv'
  OBVIOUS
<1> DEFINE bar == Min(todo)
           above == {b \in DOMAIN percent : b > bar}
           gap == IF todo = {bar} THEN {} ELSE (bar + 1)..(Min(above) - 1)
<1>1. /\ LocalsInv /\ BarsInv /\ TodoInv
  BY DEF PointsInv
<1>2. /\ phase = "divide" /\ todo # {} /\ todo' = todo \ {bar}
      /\ percent' = Insert([b \in DOMAIN percent \cup gap |-> IF b \in gap THEN <<0, 1>> ELSE percent[b]],
                           bar, <<percent[bar][1], Sum>>)
      /\ UNCHANGED <<input, phase, next, mapCondtion, listCondtion, listPoints, loads>>
  BY DEF Divide, fetchVars, fitVars
<1>3. todo \subseteq DOMAIN percent /\ DOMAIN percent \in SUBSET Nat
  BY <1>1, <1>2 DEF BarsInv, TodoInv
<1>4. bar \in todo /\ bar \in DOMAIN percent /\ bar \in Nat /\ \A b \in todo : bar <= b
  BY <1>2, <1>3, LeastExists
<1>5. gap \in SUBSET Nat
  <2>1. CASE todo = {bar}
    BY <2>1
  <2>2. CASE todo # {bar}
    <3>1. PICK higher \in todo : higher # bar
      BY <1>4, <2>2
    <3>2. above # {} /\ above \in SUBSET Nat
      BY <1>3, <1>4, <3>1
    <3>3. Min(above) \in Nat
      BY <3>2, LeastExists
    <3> HIDE DEF above
    <3>4. \A b \in (bar + 1)..(Min(above) - 1) : b \in Nat
      BY <1>4, <3>3
    <3> QED
      BY <2>2, <3>4
  <2> QED
    BY <2>1, <2>2
<1> HIDE DEF bar, gap
<1>6. loads \in Seq(Nat) /\ loads # <<>> /\ Sum \in Nat \ {0}
  BY <1>1, <1>4 DEF BarsInv, Sum
<1>7. /\ DOMAIN percent' = DOMAIN percent \cup gap
      /\ \A b \in DOMAIN percent' : percent'[b] = IF b = bar THEN <<percent[bar][1], Sum>>
                                              ELSE IF b \in gap THEN <<0, 1>> ELSE percent[b]
  BY <1>2, <1>4 DEF Insert
<1>8. ASSUME NEW b \in DOMAIN percent' PROVE percent'[b] \in Nat \X (Nat \ {0})
  <2>1. CASE b = bar
    <3>1. percent[bar][1] \in Nat
      BY <1>1, <1>4 DEF BarsInv
    <3> QED
      BY <1>6, <1>7, <2>1, <3>1
  <2>2. CASE b # bar /\ b \in gap
    BY <1>7, <2>2
  <2>3. CASE b # bar /\ b \notin gap
    BY <1>1, <1>7, <2>3 DEF BarsInv
  <2> QED
    BY <2>1, <2>2, <2>3
<1>9. BarsInv'
  BY <1>1, <1>2, <1>3, <1>4, <1>5, <1>6, <1>7, <1>8, InputFixed DEF BarsInv
<1>10. TodoInv'
  BY <1>1, <1>2, <1>7 DEF TodoInv
<1>11. LocalsInv' /\ CondtionsInv' /\ FilterPointsInv' /\ RowsInv' /\ KeptInv'
  BY <1>2, PointsFixed
<1> QED
  BY <1>9, <1>10, <1>11 DEF PointsInv

LEMMA EndLoopsInv == PointsInv /\ (EndCount \/ EndDivide) => PointsInv'
<1> SUFFICES ASSUME PointsInv, EndCount \/ EndDivide PROVE PointsInv'
  OBVIOUS
<1>1. /\ LocalsInv /\ FilterPointsInv /\ BarsInv /\ TodoInv
  BY DEF PointsInv
<1>2. /\ UNCHANGED <<input, mapCondtion, listCondtion, listPoints, loads, percent>> /\ next' = next
      /\ phase \in {"count", "divide"} /\ todo = {}
      /\ phase' \in {"divide", "done"}
      /\ todo' = IF phase' = "divide" THEN DOMAIN percent ELSE {}
  BY DEF EndCount, EndDivide, fetchVars, fitVars, countVars
<1>3. LocalsInv' /\ CondtionsInv' /\ FilterPointsInv' /\ RowsInv' /\ KeptInv'
  BY <1>2, PointsFixed
<1>4. BarsInv' /\ TodoInv'
  BY <1>1, <1>2, InputFixed DEF BarsInv, TodoInv
<1> QED
  BY <1>3, <1>4 DEF PointsInv

LEMMA PointsStutter == PointsInv /\ UNCHANGED pointsVars => PointsInv'
<1> SUFFICES ASSUME PointsInv, UNCHANGED pointsVars PROVE PointsInv'
  OBVIOUS
<1>1. UNCHANGED <<input, phase, next, todo, mapCondtion, listCondtion, listPoints, loads, percent>>
  BY DEF pointsVars, fetchVars, countVars
<1>2. /\ LocalsInv /\ CondtionsInv /\ FilterPointsInv /\ RowsInv /\ KeptInv /\ BarsInv /\ TodoInv
  BY DEF PointsInv
<1>3. Fetched' = Fetched /\ Stored' = Stored /\ Rows' = Rows
  BY <1>1, InputFixed DEF Fetched, Stored, Rows
<1>4. CondtionsInv' /\ FilterPointsInv'
  BY <1>1, <1>3, CondtionsFixed
<1>5. \A i, u : /\ HasValue(IAnswer(i), u)' = HasValue(IAnswer(i), u)
                /\ IndexPoint(i, u)' = IndexPoint(i, u)
  BY <1>1, InputFixed DEF HasValue, GetHisValue
<1>6. RowsInv'
  BY <1>1, <1>2, <1>3, <1>5 DEF RowsInv
<1>7. KeptInv' /\ LocalsInv'
  BY <1>1, <1>2, <1>5, InputFixed DEF KeptInv, LocalsInv, Phases
<1>8. BarsInv' /\ TodoInv'
  BY <1>1, <1>2, InputFixed DEF BarsInv, TodoInv
<1> QED
  BY <1>4, <1>6, <1>7, <1>8 DEF PointsInv

\* The invariant of the loops, and what follows from it.
THEOREM PointsInvariant == PointsSpec => []PointsInv
<1>1. PointsInit => PointsInv
  BY PointsInvInit
<1>2. PointsInv /\ [PointsNext]_pointsVars => PointsInv'
  BY FetchCondtionInv, EndCondtionsInv, FetchIndexInv, EndIndexesInv, FilterInv, AfterFilterInv,
     CountLoadInv, DivideInv, EndLoopsInv, PointsStutter DEF PointsNext, Done
<1> QED
  BY <1>1, <1>2, PTL DEF PointsSpec

\* The locals of the run keep their types: no list of points is empty, only
\* values the historian has are in them, and no bar is divided by 0.
THEOREM PointsTypes == PointsSpec => []PointsTypeOK
<1>1. PointsInv => PointsTypeOK
  <2> SUFFICES ASSUME PointsInv PROVE PointsTypeOK
    OBVIOUS
  <2>1. /\ LocalsInv /\ CondtionsInv /\ FilterPointsInv /\ RowsInv /\ KeptInv /\ BarsInv /\ TodoInv
    BY DEF PointsInv
  <2>2. ASSUME NEW t \in DOMAIN listCondtion
        PROVE  t \in Times /\ listCondtion[t] # <<>> /\ Range(listCondtion[t]) \subseteq Point
    <3>1. PICK i \in Fetched : t \in Times /\ HasValue(CAnswer(i), t)
      BY <2>1 DEF FilterPointsInv
    <3>2. \E k \in DOMAIN listCondtion[t] : listCondtion[t][k] = CondtionPoint(i, t)
      BY <2>1, <3>1 DEF FilterPointsInv
    <3>3. listCondtion[t] \in Seq(Point)
      BY <2>1 DEF FilterPointsInv
    <3> QED
      BY <3>1, <3>2, <3>3 DEF Range
  <2>3. \A t \in DOMAIN listPoints : t \in Times /\ listPoints[t] # <<>> /\ Range(listPoints[t]) \subseteq Point
    BY <2>1 DEF RowsInv, Range
  <2>4. todo \subseteq IF phase = "divide" THEN DOMAIN percent ELSE Times
    BY <2>1, <2>2, <2>3 DEF TodoInv, KeptInv, LocalsInv, Phases
  <2>5. \A b \in DOMAIN percent : percent[b][1] \in Nat /\ percent[b][2] \in Nat \ {0}
    BY <2>1 DEF BarsInv
  <2>6. Range(loads) \subseteq Values
    BY <2>1 DEF BarsInv, Range, Values
  <2>7. \A c \in DOMAIN mapCondtion : mapCondtion[c] \in Condtion
    BY <2>1 DEF CondtionsInv
  <2> QED
    BY <2>1, <2>2, <2>3, <2>4, <2>5, <2>6, <2>7 DEF PointsTypeOK, LocalsInv, Phases
<1> QED
  BY <1>1, PointsInvariant, PTL

\* Whatever each read gives, two reads of one point included, and wherever the loops
\* end early, even after the condition of the last row replaced an earlier one, the
\* filter leaves the time stamps the reference keeps (capacitymonitor.cpp:203).
THEOREM FilterIsRight == PointsSpec => []FilteredPoints
<1>1. PointsInv => FilteredPoints
  BY DEF PointsInv, KeptInv, FilteredPoints
<1> QED
  BY <1>1, PointsInvariant, PTL

\* What CapacityMonitor takes from a run: points are left only if every index and a
\* filter point have values, bars only if a filter point has (capacitymonitor.cpp:141).
THEOREM OutcomeIsRight == PointsSpec => []Outcome
<1>1. PointsInv => Outcome
  <2> SUFFICES ASSUME PointsInv PROVE Outcome
    OBVIOUS
  <2>1. LocalsInv /\ KeptInv /\ BarsInv
    BY DEF PointsInv
  <2>2. ASSUME phase \in {"prepare", "fit", "done"}, DOMAIN listPoints # {}
        PROVE  /\ 1 \in Read
               /\ input.indexes # <<>>
               /\ \A j \in DOMAIN input.indexes : GetHisValue(input.indexes[j].answer) # {}
    <3>1. PICK t \in Times : Kept(t)
      BY <2>1, <2>2 DEF KeptInv, KeptTimes
    <3>2. PICK i \in Read : HasValue(input.condtions[i].answer, t)
      BY <3>1 DEF Kept, Filtered
    <3>3. 1 \in Read
      BY <2>1, FirstRead
    <3>4. \A j \in DOMAIN input.indexes : HasValue(input.indexes[j].answer, t)
      BY <3>1 DEF Kept
    <3> QED
      BY <3>1, <3>3, <3>4 DEF Kept, HasValue
  <2> QED
    BY <2>1, <2>2 DEF Outcome, BarsInv
<1> QED
  BY <1>1, PointsInvariant, PTL
=================================================================================
