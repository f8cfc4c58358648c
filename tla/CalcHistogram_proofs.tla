-------------------------- MODULE CalcHistogram_proofs --------------------------
(***************************************************************************)
(* Proofs about the histogram of a run of CalcPoints: which loads are      *)
(* counted, and that the bars are their shares.                            *)
(***************************************************************************)
EXTENDS CalcLayout_proofs

-----------------------------------------------------------------------------
(***************************************************************************)
(* The shares.  The loop that divides the bars fills the gaps between them *)
(* as it goes, so up to the next bar to visit there are none.              *)
(***************************************************************************)

BarsOf == {Ceil(loads[i]) : i \in DOMAIN loads}
LoadsIn(b) == {i \in DOMAIN loads : Ceil(loads[i]) = b}
CountOf(b) == Cardinality(LoadsIn(b))

\* The bar b once its share is known, if there is a load in it.
Share(b) == IF b \in BarsOf THEN <<CountOf(b), IF b \in todo THEN 1 ELSE Len(loads)>>
                            ELSE <<0, 1>>

SharesInv ==
  /\ BarsOf \subseteq DOMAIN percent
  /\ \E n \in Nat : \A b \in DOMAIN percent : b <= n
  /\ phase \notin {"divide", "done"} =>
       \A b \in DOMAIN percent : b \in BarsOf /\ percent[b] = <<CountOf(b), 1>>
  /\ phase \in {"divide", "done"} =>
       /\ todo \subseteq BarsOf
       /\ \A b \in DOMAIN percent : percent[b] = Share(b)
       /\ \A b \in DOMAIN percent \ todo, d \in todo : b < d
       /\ \A b, c \in DOMAIN percent : (\A d \in todo : c <= d) => b..c \subseteq DOMAIN percent

\* The places of the loads of a bar can be counted.
LEMMA CountTyped ==
  ASSUME loads \in Seq(Nat), NEW b
  PROVE  IsFiniteSet(LoadsIn(b)) /\ CountOf(b) \in Nat /\ (b \notin BarsOf => CountOf(b) = 0)
<1>1. Len(loads) \in Nat /\ DOMAIN loads = 1..Len(loads)
  OBVIOUS
<1>2. IsFiniteSet(1..Len(loads))
  BY <1>1, FS_Interval
<1>3. LoadsIn(b) \subseteq 1..Len(loads)
  BY <1>1 DEF LoadsIn
<1>4. IsFiniteSet(LoadsIn(b))
  BY <1>2, <1>3, FS_Subset
<1>5. b \notin BarsOf => LoadsIn(b) = {}
  BY DEF LoadsIn, BarsOf
<1> QED
  BY <1>4, <1>5, FS_CardinalityType, FS_EmptySet DEF CountOf

\* One load more.
LEMMA CountAppend ==
  ASSUME loads \in Seq(Nat), NEW v \in Nat, loads' = Append(loads, v)
  PROVE  /\ BarsOf' = BarsOf \cup {Ceil(v)}
         /\ \A b : CountOf(b)' = IF b = Ceil(v) THEN CountOf(b) + 1 ELSE CountOf(b)
<1> DEFINE n == Len(loads)
<1>1. /\ n \in Nat /\ DOMAIN loads = 1..n /\ DOMAIN loads' = 1..(n + 1)
      /\ \A i \in 1..n : loads'[i] = loads[i]
      /\ loads'[n + 1] = v
  OBVIOUS
<1> HIDE DEF n
<1>2. 1..(n + 1) = (1..n) \cup {n + 1} /\ n + 1 \notin 1..n
  BY <1>1
<1>3. \A x : Ceil(x)' = Ceil(x)
  BY DEF Ceil
<1>4. \A i \in 1..n : Ceil(loads[i])' = Ceil(loads[i])
  BY <1>1 DEF Ceil
<1>5. BarsOf' = {Ceil(loads'[i]) : i \in 1..(n + 1)} /\ BarsOf = {Ceil(loads[i]) : i \in 1..n}
  BY <1>1 DEF BarsOf, Ceil
<1>6. BarsOf' = BarsOf \cup {Ceil(v)}
  BY <1>1, <1>2, <1>5
<1>7. ASSUME NEW b
      PROVE  CountOf(b)' = IF b = Ceil(v) THEN CountOf(b) + 1 ELSE CountOf(b)
  <2>1. LoadsIn(b)' = {i \in 1..(n + 1) : Ceil(loads'[i]) = b} /\ LoadsIn(b) = {i \in 1..n : Ceil(loads[i]) = b}
    BY <1>1 DEF LoadsIn, Ceil
  <2>2. CASE b = Ceil(v)
    <3>1. LoadsIn(b)' = LoadsIn(b) \cup {n + 1} /\ n + 1 \notin LoadsIn(b)
      BY <1>1, <1>2, <2>1, <2>2
    <3>2. Cardinality(LoadsIn(b) \cup {n + 1}) = Cardinality(LoadsIn(b)) + 1
      BY <3>1, CountTyped, FS_AddElement
    <3> QED
      BY <2>2, <3>1, <3>2 DEF CountOf
  <2>3. CASE b # Ceil(v)
    <3>1. LoadsIn(b)' = LoadsIn(b)
      BY <1>1, <1>2, <2>1, <2>3
    <3> QED
      BY <2>3, <3>1 DEF CountOf
  <2> QED
    BY <2>2, <2>3
<1> QED
  BY <1>6, <1>7

LEMMA CountLoadShares ==
  ASSUME PointsInv, SharesInv, CountLoad
  PROVE  SharesInv'
<1> DEFINE t == Min(todo)
           load == ValueAt(t, "load")
           bar == Ceil(load)
           old == IF bar \in DOMAIN percent THEN percent[bar][1] ELSE 0
<1>1. /\ LocalsInv /\ FilterPointsInv /\ BarsInv /\ TodoInv
  BY DEF PointsInv
<1>2. phase = "count" /\ todo # {} /\ phase' = "count"
  BY DEF CountLoad
<1>3. PICK counted \in MayCount(t) :
        /\ percent' = IF counted THEN Insert(percent, bar, <<old + 1, 1>>) ELSE percent
        /\ loads' = IF counted THEN Append(loads, load) ELSE loads
  BY DEF CountLoad
<1>4. t \in DOMAIN listCondtion
  <2>1. todo \subseteq DOMAIN listCondtion /\ todo \in SUBSET Nat
    BY <1>1, <1>2, PointsAssumption DEF TodoInv, FilterPointsInv
  <2> QED
    BY <1>2, <2>1, LeastExists
<1>5. load \in Nat /\ bar \in Nat
  BY <1>1, <1>4, ValueAtTyped, CeilTyped
<1>6. loads \in Seq(Nat) /\ DOMAIN percent \in SUBSET Nat
  BY <1>1 DEF BarsInv
<1>7. /\ BarsOf \subseteq DOMAIN percent
      /\ \A b \in DOMAIN percent : b \in BarsOf /\ percent[b] = <<CountOf(b), 1>>
  BY <1>2 DEF SharesInv
<1>8. PICK n \in Nat : \A b \in DOMAIN percent : b <= n
  BY DEF SharesInv
<1> HIDE DEF t, load
<1>9. CASE counted
  <2>1. percent' = Insert(percent, bar, <<old + 1, 1>>) /\ loads' = Append(loads, load)
    BY <1>3, <1>9
  <2>2. /\ BarsOf' = BarsOf \cup {bar}
        /\ \A b : CountOf(b)' = IF b = bar THEN CountOf(b) + 1 ELSE CountOf(b)
    BY <1>5, <1>6, <2>1, CountAppend
  <2> HIDE DEF bar
  <2>3. /\ DOMAIN percent' = DOMAIN percent \cup {bar}
        /\ \A b \in DOMAIN percent' : percent'[b] = IF b = bar THEN <<old + 1, 1>> ELSE percent[b]
    BY <2>1 DEF Insert
  <2>4. old = CountOf(bar)
    BY <1>6, <1>7, CountTyped
  <2> HIDE DEF old
  <2>5. \A b \in DOMAIN percent' : b \in BarsOf' /\ percent'[b] = <<CountOf(b)', 1>>
    BY <1>7, <2>2, <2>3, <2>4
  <2>6. n + bar \in Nat /\ \A b \in DOMAIN percent' : b <= n + bar
    BY <1>5, <1>6, <1>8, <2>3
  <2> QED
    BY <1>2, <1>7, <2>2, <2>3, <2>5, <2>6 DEF SharesInv
<1>10. CASE ~counted
  <2>1. percent' = percent /\ loads' = loads
    BY <1>3, <1>10
  <2>2. BarsOf' = BarsOf /\ \A b : CountOf(b)' = CountOf(b)
    BY <2>1 DEF BarsOf, CountOf, LoadsIn, Ceil
  <2> QED
    BY <1>2, <1>7, <1>8, <2>1, <2>2 DEF SharesInv
<1> QED
  BY <1>9, <1>10

\* The loads of a run that is past counting stay.
LEMMA BarsFixed ==
  ASSUME loads' = loads
  PROVE  BarsOf' = BarsOf /\ \A b : CountOf(b)' = CountOf(b)
BY DEF BarsOf, CountOf, LoadsIn, Ceil

LEMMA DivideShares ==
  ASSUME PointsInv, SharesInv, Divide
  PROVE  SharesInv'
<1> DEFINE bar == Min(todo)
           above == {b \in DOMAIN percent : b > bar}
           gap == IF todo = {bar} THEN {} ELSE (bar + 1)..(Min(above) - 1)
           left == todo \ {bar}
<1>1. BarsInv /\ TodoInv
  BY DEF PointsInv
<1>2. /\ phase = "divide" /\ phase' = "divide" /\ todo # {} /\ todo' = left /\ loads' = loads
      /\ percent' = Insert([b \in DOMAIN percent \cup gap |-> IF b \in gap THEN <<0, 1>> ELSE percent[b]],
                           bar, <<percent[bar][1], Sum>>)
  BY DEF Divide
<1>3. /\ BarsOf \subseteq DOMAIN percent /\ todo \subseteq BarsOf
      /\ \A b \in DOMAIN percent : percent[b] = Share(b)
      /\ \A b \in DOMAIN percent \ todo, d \in todo : b < d
      /\ \A b, c \in DOMAIN percent : (\A d \in todo : c <= d) => b..c \subseteq DOMAIN percent
  BY <1>2 DEF SharesInv
<1>4. PICK n \in Nat : \A b \in DOMAIN percent : b <= n
  BY DEF SharesInv
<1>5. DOMAIN percent \in SUBSET Nat /\ todo \subseteq DOMAIN percent /\ loads \in Seq(Nat)
  BY <1>1, <1>2 DEF BarsInv, TodoInv
<1>6. bar \in todo /\ bar \in DOMAIN percent /\ bar \in BarsOf /\ bar \in Nat /\ \A d \in todo : bar <= d
  BY <1>2, <1>3, <1>5, LeastExists
<1>7. \A b \in above : b \in left
  BY <1>3, <1>5, <1>6
<1>8. left \subseteq above
  BY <1>5, <1>6
\* The gap reaches up to the next bar to visit, which ends it.
<1>9. /\ left = {} => gap = {}
      /\ left # {} => \E up \in left : /\ up \in Nat /\ bar < up /\ \A d \in left : up <= d
                                       /\ gap = (bar + 1)..(up - 1)
                                       /\ \A b \in gap : b \notin DOMAIN percent
  <2>1. left = {} => todo = {bar}
    BY <1>6
  <2>2. ASSUME left # {}
        PROVE  \E up \in left : /\ up \in Nat /\ bar < up /\ \A d \in left : up <= d
                                /\ gap = (bar + 1)..(up - 1)
                                /\ \A b \in gap : b \notin DOMAIN percent
    <3> DEFINE up == Min(above)
    <3>1. above # {} /\ above \in SUBSET Nat
      BY <1>5, <1>8, <2>2
    <3>2. up \in above /\ \A b \in above : up <= b
      BY <3>1, LeastExists
    <3>3. todo # {bar}
      BY <2>2
    <3>4. gap = (bar + 1)..(up - 1)
      BY <3>3
    <3>5. up \in left /\ up \in Nat /\ bar < up /\ \A d \in left : up <= d
      BY <1>5, <1>6, <1>7, <1>8, <3>2
    <3>6. \A b \in DOMAIN percent : b > bar => up <= b
      BY <3>2
    <3> HIDE DEF up, gap, above
    <3>7. \A b \in gap : b \notin DOMAIN percent
      BY <1>6, <3>4, <3>5, <3>6
    <3> QED
      BY <3>4, <3>5, <3>7
  <2> QED
    BY <2>1, <2>2
<1>10. left \subseteq DOMAIN percent /\ bar \notin left
  BY <1>5
<1> HIDE DEF bar, gap, above, left
<1>11. \A b \in gap : b \in Nat /\ b > bar /\ b \notin DOMAIN percent /\ b <= n /\ \A d \in left : b < d
  BY <1>4, <1>5, <1>6, <1>9, <1>10
<1>12. /\ DOMAIN percent' = DOMAIN percent \cup gap
       /\ \A b \in DOMAIN percent' : percent'[b] = IF b = bar THEN <<percent[bar][1], Sum>>
                                               ELSE IF b \in gap THEN <<0, 1>> ELSE percent[b]
  BY <1>2, <1>6 DEF Insert
<1>13. BarsOf' = BarsOf /\ \A b : CountOf(b)' = CountOf(b)
  BY <1>2, BarsFixed
<1>14. \A b : Share(b)' = IF b \in BarsOf THEN <<CountOf(b), IF b \in left THEN 1 ELSE Len(loads)>>
                                          ELSE <<0, 1>>
  BY <1>2, <1>13 DEF Share
<1>15. \A b : b \in left <=> b \in todo /\ b # bar
  BY DEF left
<1>16. ASSUME NEW b \in DOMAIN percent' PROVE percent'[b] = Share(b)'
  <2>1. CASE b = bar
    <3>1. percent[bar][1] = CountOf(bar)
      BY <1>3, <1>6 DEF Share
    <3> QED
      BY <1>6, <1>10, <1>12, <1>14, <2>1, <3>1 DEF Sum
  <2>2. CASE b # bar /\ b \in gap
    <3>1. b \notin BarsOf
      BY <1>3, <1>11, <2>2
    <3> QED
      BY <1>12, <1>14, <2>2, <3>1
  <2>3. CASE b # bar /\ b \notin gap
    <3>1. b \in DOMAIN percent /\ percent'[b] = percent[b] /\ percent[b] = Share(b)
      BY <1>3, <1>12, <2>3
    <3> QED
      BY <1>14, <1>15, <2>3, <3>1 DEF Share
  <2> QED
    BY <2>1, <2>2, <2>3
<1>17. ASSUME NEW b \in DOMAIN percent' \ left, NEW d \in left PROVE b < d
  <2>1. d \in todo /\ d # bar /\ d \in Nat /\ bar < d
    BY <1>5, <1>6, <1>15
  <2>2. CASE b \in gap
    BY <1>11, <2>2
  <2>3. CASE b = bar
    BY <2>1, <2>3
  <2>4. CASE b \notin gap /\ b # bar
    <3>1. b \in DOMAIN percent \ todo
      BY <1>12, <1>15, <2>4
    <3> QED
      BY <1>3, <2>1, <3>1
  <2> QED
    BY <2>2, <2>3, <2>4
<1>18. ASSUME NEW b \in DOMAIN percent', NEW c \in DOMAIN percent', \A d \in left : c <= d,
              NEW x \in b..c
       PROVE  x \in DOMAIN percent'
  <2>1. b \in Nat /\ c \in Nat /\ x \in Nat /\ b <= x /\ x <= c
    <3>1. b \in Nat /\ c \in Nat
      BY <1>5, <1>11, <1>12
    <3> QED
      BY <3>1
  <2>2. CASE x <= bar
    <3>1. b \in DOMAIN percent /\ x \in b..bar
      BY <1>6, <1>11, <1>12, <2>1, <2>2
    <3> QED
      BY <1>3, <1>6, <1>12, <3>1
  <2>3. CASE x > bar /\ left = {}
    <3>1. c \in DOMAIN percent /\ c \notin todo
      BY <1>6, <1>9, <1>12, <1>15, <2>1, <2>3
    <3>2. c < bar
      BY <1>3, <1>6, <3>1
    <3> QED
      BY <1>6, <2>1, <2>3, <3>2
  <2>4. CASE x > bar /\ left # {}
    <3>1. PICK up \in left : up \in Nat /\ bar < up /\ gap = (bar + 1)..(up - 1)
      BY <1>9, <2>4
    <3>2. x = up \/ x \in (bar + 1)..(up - 1)
      BY <1>6, <1>18, <2>1, <2>4, <3>1
    <3> QED
      BY <1>10, <1>12, <3>1, <3>2
  <2> QED
    BY <1>6, <2>1, <2>2, <2>3, <2>4
<1>19. \A b \in DOMAIN percent' : b <= n
  BY <1>4, <1>11, <1>12
<1>20. left \subseteq BarsOf /\ BarsOf \subseteq DOMAIN percent'
  BY <1>3, <1>12, <1>15
<1> QED
  BY <1>2, <1>13, <1>16, <1>17, <1>18, <1>19, <1>20 DEF SharesInv

\* What every other step keeps.
LEMMA SharesKept ==
  ASSUME SharesInv, loads' = loads, percent' = percent, todo' = todo,
         phase' \notin {"divide", "done"} => phase \notin {"divide", "done"},
         phase' \in {"divide", "done"} => phase \in {"divide", "done"}
  PROVE  SharesInv'
<1>1. BarsOf' = BarsOf /\ \A b : CountOf(b)' = CountOf(b)
  BY BarsFixed
<1>2. \A b : Share(b)' = Share(b)
  BY <1>1 DEF Share
<1> QED
  BY <1>1, <1>2 DEF SharesInv

LEMMA SharesStep ==
  ASSUME PointsInv, SharesInv, [PointsNext]_pointsVars
  PROVE  SharesInv'
<1> USE DEF countVars, fitVars, fetchVars
<1>0. BarsInv /\ TodoInv
  BY DEF PointsInv
\* Before the count there is no bar; a step there may change the time stamps to visit.
<1>1. CASE \/ FetchCondtion \/ EndCondtions \/ FetchIndex \/ EndIndexes
           \/ Filter \/ EndFilter \/ Prepare \/ Fit
  <2>1. /\ phase \in {"condtions", "indexes", "filter", "prepare", "fit"}
        /\ loads' = loads /\ percent' = percent
        /\ phase' = "done" => todo' = todo
        /\ phase' \in {"condtions", "indexes", "filter", "prepare", "fit", "count", "done"}
    BY <1>1 DEF FetchCondtion, EndCondtions, FetchIndex, EndIndexes, Filter, EndFilter, Prepare, Fit
  <2>2. DOMAIN percent = {} /\ BarsOf = {}
    BY <1>0, <2>1 DEF BarsInv, SharesInv
  <2>3. phase' = "done" => todo' = {}
    BY <1>0, <1>1, <2>1 DEF TodoInv, FetchCondtion, EndCondtions, FetchIndex, EndIndexes, Filter,
                            EndFilter, Prepare, Fit
  <2>4. BarsOf' = {}
    BY <2>1, <2>2, BarsFixed
  <2> QED
    BY <2>1, <2>2, <2>3, <2>4 DEF SharesInv
<1>2. CASE CountLoad
  BY <1>2, CountLoadShares
<1>3. CASE EndCount
  <2>1. /\ phase = "count" /\ phase' = "divide" /\ todo' = DOMAIN percent
        /\ loads' = loads /\ percent' = percent
    BY <1>3 DEF EndCount
  <2>2. /\ BarsOf \subseteq DOMAIN percent
        /\ \A b \in DOMAIN percent : b \in BarsOf /\ percent[b] = <<CountOf(b), 1>>
    BY <2>1 DEF SharesInv
  <2>3. BarsOf' = BarsOf /\ \A b : CountOf(b)' = CountOf(b)
    BY <2>1, BarsFixed
  <2>4. \A b \in DOMAIN percent' : percent'[b] = Share(b)'
    BY <2>1, <2>2, <2>3 DEF Share
  <2>5. DOMAIN percent \in SUBSET Nat
    BY <1>0 DEF BarsInv
  <2>6. ASSUME NEW b \in DOMAIN percent', NEW c \in DOMAIN percent', \A d \in todo' : c <= d,
               NEW x \in b..c
        PROVE  x \in DOMAIN percent'
    <3>1. b \in Nat /\ c \in Nat /\ c <= b
      BY <2>1, <2>5, <2>6
    <3>2. x = b
      BY <3>1
    <3> QED
      BY <3>2
  <2> QED
    BY <2>1, <2>2, <2>3, <2>4, <2>6 DEF SharesInv
<1>4. CASE Divide
  BY <1>4, DivideShares
<1>5. CASE EndDivide
  BY <1>5, SharesKept DEF EndDivide
<1>6. CASE UNCHANGED pointsVars
  BY <1>6, SharesKept DEF pointsVars
<1> QED
  BY <1>1, <1>2, <1>3, <1>4, <1>5, <1>6 DEF PointsNext, Done

\* For every load and every order of the bars, the bars of a run that is done leave no
\* gap, and each is the share of the loads that are rounded up to it
\* (capacitymonitor.cpp:677).
THEOREM SharesAreRight == PointsSpec => []Shares
<1>1. PointsInit => SharesInv
  BY DEF PointsInit, SharesInv, BarsOf, EmptyMap
<1>2. PointsInv /\ SharesInv => Shares
  <2> SUFFICES ASSUME PointsInv, SharesInv, phase = "done", loads # <<>>
               PROVE  /\ DOMAIN percent = Min(DOMAIN percent)..Max(DOMAIN percent)
                      /\ \A i \in DOMAIN loads : Ceil(loads[i]) \in DOMAIN percent
                      /\ \A b \in DOMAIN percent : percent[b][1] * Len(loads)
                             = Cardinality({i \in DOMAIN loads : Ceil(loads[i]) = b}) * percent[b][2]
    BY DEF Shares
  <2>1. BarsInv /\ todo = {}
    BY DEF PointsInv, TodoInv
  <2>2. /\ BarsOf \subseteq DOMAIN percent
        /\ \A b \in DOMAIN percent : percent[b] = Share(b)
        /\ \A b, c \in DOMAIN percent : (\A d \in todo : c <= d) => b..c \subseteq DOMAIN percent
    BY DEF SharesInv
  <2>3. PICK n \in Nat : \A b \in DOMAIN percent : b <= n
    BY DEF SharesInv
  <2>4. loads \in Seq(Nat) /\ DOMAIN percent \in SUBSET Nat /\ Len(loads) \in Nat
    BY <2>1 DEF BarsInv
  <2>5. \A i \in DOMAIN loads : Ceil(loads[i]) \in DOMAIN percent
    BY <2>2 DEF BarsOf
  <2>6. DOMAIN percent # {}
    BY <2>4, <2>5
  <2> DEFINE low == Min(DOMAIN percent)
             high == Max(DOMAIN percent)
  <2>7. /\ low \in DOMAIN percent /\ \A b \in DOMAIN percent : low <= b
        /\ high \in DOMAIN percent /\ \A b \in DOMAIN percent : high >= b
    BY <2>3, <2>4, <2>6, LeastExists, GreatestExists
  <2> HIDE DEF low, high
  <2>8. DOMAIN percent = low..high
    <3>1. low..high \subseteq DOMAIN percent
      BY <2>1, <2>2, <2>7
    <3>2. \A b \in DOMAIN percent : b \in low..high
      BY <2>4, <2>7
    <3> QED
      BY <3>1, <3>2
  <2>9. ASSUME NEW b \in DOMAIN percent PROVE percent[b][1] * Len(loads) = CountOf(b) * percent[b][2]
    <3>1. CountOf(b) \in Nat /\ (b \notin BarsOf => CountOf(b) = 0)
      BY <2>4, CountTyped
    <3>2. CASE b \in BarsOf
      <4>1. percent[b] = <<CountOf(b), Len(loads)>>
        BY <2>1, <2>2, <3>2 DEF Share
      <4> QED
        BY <2>4, <3>1, <4>1
    <3>3. CASE b \notin BarsOf
      <4>1. percent[b] = <<0, 1>>
        BY <2>2, <3>3 DEF Share
      <4> QED
        BY <2>4, <3>1, <3>3, <4>1
    <3> QED
      BY <3>2, <3>3
  <2> QED
    BY <2>5, <2>8, <2>9 DEF CountOf, LoadsIn, low, high
<1> QED
  BY <1>1, <1>2, SharesStep, PointsInvariant, PTL DEF PointsSpec

-----------------------------------------------------------------------------
(***************************************************************************)
(* A set of time stamps has no second order, and a later time stamp goes   *)
(* to the end of it.                                                       *)
(***************************************************************************)

\* A rising list of all time stamps leaves none out.
LEMMA RisingOnto ==
  ASSUME NEW S \in SUBSET Nat, IsFiniteSet(S), NEW f, Rising(f, S), NEW s \in S
  PROVE  \E i \in 1..Cardinality(S) : f[i] = s
<1> DEFINE n == Cardinality(S)
<1>1. n \in Nat /\ f \in [1..n -> S] /\ \A i, j \in 1..n : i < j => f[i] < f[j]
  BY FS_CardinalityType DEF Rising
<1> HIDE DEF n
<1>2. ASSUME NEW i \in 1..n, NEW j \in 1..n, f[i] = f[j] PROVE i = j
  <2>1. f[i] \in S /\ f[j] \in S
    BY <1>1
  <2>2. f[i] \in Nat /\ f[j] \in Nat
    BY <2>1
  <2>3. i \in Nat /\ j \in Nat
    BY <1>1
  <2>4. ~(i < j) /\ ~(j < i)
    BY <1>1, <1>2, <2>2
  <2> QED
    BY <2>3, <2>4
<1>3. f \in Injection(1..n, S)
  BY <1>1, <1>2 DEF Injection, IsInjective
<1>4. Cardinality(1..n) = n
  BY <1>1, FS_Interval
<1>5. f \in Surjection(1..n, S)
  BY <1>3, <1>4, FS_Injection DEF n
<1> QED
  BY <1>5 DEF Surjection, n

LEMMA RisingUnique ==
  ASSUME NEW S \in SUBSET Nat, IsFiniteSet(S), NEW f, Rising(f, S), NEW g, Rising(g, S)
  PROVE  f = g
<1> DEFINE n == Cardinality(S)
           Bad == {i \in 1..n : f[i] # g[i]}
<1>1. /\ n \in Nat
      /\ f \in [1..n -> S] /\ \A i, j \in 1..n : i < j => f[i] < f[j]
      /\ g \in [1..n -> S] /\ \A i, j \in 1..n : i < j => g[i] < g[j]
  BY FS_CardinalityType DEF Rising
<1>2. /\ \A s \in S : \E i \in 1..n : f[i] = s
      /\ \A s \in S : \E i \in 1..n : g[i] = s
  BY RisingOnto
<1> HIDE DEF n
<1>3. ASSUME Bad # {} PROVE FALSE
  <2> DEFINE k == Min(Bad)
  <2>1. Bad \in SUBSET Nat
    OBVIOUS
  <2>2. k \in Bad /\ \A i \in Bad : k <= i
    BY <1>3, <2>1, LeastExists
  <2> HIDE DEF k
  <2>3. k \in 1..n /\ f[k] # g[k] /\ \A i \in 1..n : i < k => f[i] = g[i]
    BY <2>2
  <2> HIDE DEF Bad
  <2>4. f[k] \in Nat /\ g[k] \in Nat /\ f[k] \in S /\ g[k] \in S
    BY <1>1, <2>3
  <2>5. CASE f[k] < g[k]
    <3>1. PICK j \in 1..n : g[j] = f[k]
      BY <1>2, <2>4
    <3>2. j < k
      <4>1. j # k /\ ~(k < j)
        BY <1>1, <2>3, <2>4, <2>5, <3>1
      <4> QED
        BY <1>1, <2>3, <4>1
    <3>3. f[j] = f[k] /\ f[j] < f[k]
      BY <1>1, <2>3, <3>1, <3>2
    <3> QED
      BY <2>4, <3>3
  <2>6. CASE g[k] < f[k]
    <3>1. PICK j \in 1..n : f[j] = g[k]
      BY <1>2, <2>4
    <3>2. j < k
      <4>1. j # k /\ ~(k < j)
        BY <1>1, <2>3, <2>4, <2>6, <3>1
      <4> QED
        BY <1>1, <2>3, <4>1
    <3>3. g[j] = g[k] /\ g[j] < g[k]
      BY <1>1, <2>3, <3>1, <3>2
    <3> QED
      BY <2>4, <3>3
  <2> QED
    BY <2>3, <2>4, <2>5, <2>6
<1>4. \A i \in 1..n : f[i] = g[i]
  BY <1>3
<1> QED
  BY <1>1, <1>4

LEMMA LaterGoesLast ==
  ASSUME NEW S \in SUBSET Nat, IsFiniteSet(S), NEW t \in Nat, \A s \in S : s < t
  PROVE  /\ Len(InTime(S)) = Cardinality(S)
         /\ InTime(S \cup {t}) = Append(InTime(S), t)
<1> DEFINE n == Cardinality(S)
           f == InTime(S)
           g == [i \in 1..(n + 1) |-> IF i = n + 1 THEN t ELSE f[i]]
           T == S \cup {t}
<1>1. n \in Nat /\ f \in [1..n -> S] /\ \A i, j \in 1..n : i < j => f[i] < f[j]
  BY InTimeRises DEF Rising
<1>2. t \notin S
  OBVIOUS
<1>3. IsFiniteSet(T) /\ Cardinality(T) = n + 1 /\ T \in SUBSET Nat
  BY <1>2, FS_AddElement
<1>4. Rising(InTime(T), T)
  BY <1>3, InTimeRises
<1> HIDE DEF n, f, T
<1>5. ASSUME NEW i \in 1..n PROVE f[i] \in S /\ f[i] < t /\ i # n + 1 /\ i \in 1..(n + 1)
  <2>1. f[i] \in S
    BY <1>1
  <2>2. f[i] < t
    BY <2>1
  <2>3. i # n + 1 /\ i \in 1..(n + 1)
    BY <1>1
  <2> QED
    BY <2>1, <2>2, <2>3
<1>6. g \in [1..(n + 1) -> T]
  <2>1. \A i \in 1..(n + 1) : i = n + 1 \/ i \in 1..n
    BY <1>1
  <2> QED
    BY <1>5, <2>1 DEF T
<1>7. ASSUME NEW i \in 1..(n + 1), NEW j \in 1..(n + 1), i < j PROVE g[i] < g[j]
  <2>1. i \in 1..n /\ g[i] = f[i]
    BY <1>1, <1>7
  <2>2. CASE j = n + 1
    BY <1>5, <2>1, <2>2
  <2>3. CASE j # n + 1
    <3>1. j \in 1..n /\ g[j] = f[j]
      BY <1>1, <2>3
    <3> QED
      BY <1>1, <1>7, <2>1, <3>1
  <2> QED
    BY <2>2, <2>3
<1>8. Rising(g, T)
  BY <1>3, <1>6, <1>7 DEF Rising
<1>9. InTime(T) = g
  BY <1>3, <1>4, <1>8, RisingUnique
<1>10. f \in Seq(Nat) /\ Len(f) = n
  <2>1. f \in [1..n -> Nat]
    BY <1>1
  <2> QED
    BY <1>1, <2>1
<1>11. Append(f, t) = g
  <2>1. Append(f, t) \in Seq(Nat) /\ Len(Append(f, t)) = n + 1
    BY <1>10
  <2>2. Append(f, t) \in [1..(n + 1) -> Nat]
    <3> DEFINE a == Append(f, t)
    <3>1. a \in Seq(Nat) /\ Len(a) = n + 1
      BY <2>1
    <3> HIDE DEF a
    <3>2. a \in [1..(n + 1) -> Nat]
      BY <3>1
    <3> QED
      BY <3>2 DEF a
  <2>3. \A i \in 1..(n + 1) : Append(f, t)[i] = IF i = n + 1 THEN t ELSE f[i]
    BY <1>1, <1>10
  <2> QED
    BY <2>2, <2>3
<1> QED
  BY <1>9, <1>10, <1>11 DEF f, n, T

-----------------------------------------------------------------------------
(***************************************************************************)
(* What the loops over the filter points of a time stamp find when no      *)
(* description is ambiguous: the one row of each kind.                     *)
(***************************************************************************)

Kinds == {"I", "II", "load"}
IsOfKind(i, kind) == kind \in Desc[CName(i)]

\* A description of which not more is known than one kind has one kind.
LEMMA OneKind ==
  ASSUME LocalsInv, ~Ambiguous, NEW i \in Read,
         NEW k1 \in Kinds, NEW k2 \in Kinds, IsOfKind(i, k1), IsOfKind(i, k2)
  PROVE  k1 = k2
<1> DEFINE D == Desc[CName(i)]
<1>1. D \subseteq Kinds /\ CName(i) \in Tags
  <2>1. CName(i) \in Tags
    BY RowsTyped
  <2> QED
    BY <2>1, PointsAssumption DEF Kinds
<1>2. ~(Cardinality(D) > 1)
  BY DEF Ambiguous, CName
<1> HIDE DEF D
<1>3. IsFiniteSet(Kinds)
  <2>1. IsFiniteSet({"I"})
    BY FS_Singleton
  <2>2. IsFiniteSet({"I"} \cup {"II"})
    BY <2>1, FS_AddElement
  <2>3. IsFiniteSet(({"I"} \cup {"II"}) \cup {"load"})
    BY <2>2, FS_AddElement
  <2>4. Kinds = ({"I"} \cup {"II"}) \cup {"load"}
    BY DEF Kinds
  <2> QED
    BY <2>3, <2>4
<1>4. IsFiniteSet(D) /\ Cardinality(D) \in Nat
  BY <1>1, <1>3, FS_Subset, FS_CardinalityType
<1>5. k1 \in D /\ k2 \in D
  BY DEF D, IsOfKind
<1>6. IsFiniteSet(D \ {k1}) /\ Cardinality(D \ {k1}) = Cardinality(D) - 1
  BY <1>4, <1>5, FS_RemoveElement
<1>7. Cardinality(D \ {k1}) = 0
  <2>1. Cardinality(D \ {k1}) \in Nat
    BY <1>6, FS_CardinalityType
  <2> QED
    BY <1>2, <1>4, <1>6, <2>1
<1>8. D \ {k1} = {}
  BY <1>6, <1>7, FS_EmptySet
<1> QED
  BY <1>5, <1>8

\* No two rows are of the same kind.
LEMMA OneRow ==
  ASSUME LocalsInv, ~Ambiguous, NEW i \in Read, NEW j \in Read, NEW kind \in Kinds,
         IsOfKind(i, kind), IsOfKind(j, kind)
  PROVE  i = j
<1>1. /\ Desc[CName(i)] \subseteq Kinds /\ Desc[CName(j)] \subseteq Kinds
  <2>1. CName(i) \in Tags /\ CName(j) \in Tags
    BY RowsTyped
  <2> QED
    BY <2>1, PointsAssumption DEF Kinds
<1>2. \A k \in Kinds : IsOfKind(i, k) <=> k = kind
  BY OneKind
<1>3. \A k \in Kinds : IsOfKind(j, k) <=> k = kind
  BY OneKind
<1>4. Desc[CName(i)] = Desc[CName(j)] /\ Desc[CName(i)] # {}
  BY <1>1, <1>2, <1>3 DEF IsOfKind
<1> QED
  BY <1>4 DEF Ambiguous, CName

\* So the tests of the description in their order find the kind.
LEMMA KindOfRow ==
  ASSUME LocalsInv, ~Ambiguous, NEW i \in Read, NEW kind \in Kinds, NEW t
  PROVE  Kind(CondtionPoint(i, t)) = kind <=> IsOfKind(i, kind)
<1>1. CondtionPoint(i, t).name = CName(i)
  BY DEF CondtionPoint
<1>2. \A k1, k2 \in Kinds : IsOfKind(i, k1) /\ IsOfKind(i, k2) => k1 = k2
  BY OneKind
<1>3. "I" \in Kinds /\ "II" \in Kinds /\ "load" \in Kinds
  BY DEF Kinds
<1>4. kind = "I" \/ kind = "II" \/ kind = "load"
  BY DEF Kinds
<1>5. Kind(CondtionPoint(i, t)) = IF IsOfKind(i, "I") THEN "I"
                                  ELSE IF IsOfKind(i, "II") THEN "II"
                                  ELSE IF IsOfKind(i, "load") THEN "load"
                                  ELSE "other"
  BY <1>1 DEF Kind, IsOfKind
<1> QED
  BY <1>2, <1>3, <1>4, <1>5

\* The point the loop takes for a kind is that of the row of the kind, if it has a value.
LEMMA RowOfKind ==
  ASSUME LocalsInv, FilterPointsInv, Fetched = Read, ~Ambiguous,
         NEW t \in DOMAIN listCondtion, NEW kind \in Kinds
  PROVE  /\ PlacesOf(t, kind) # {} <=> \E i \in Read : IsOfKind(i, kind) /\ HasValue(CAnswer(i), t)
         /\ \A i \in Read : IsOfKind(i, kind) /\ HasValue(CAnswer(i), t) =>
              /\ LastOf(t, kind) = CondtionPoint(i, t)
              /\ ValueAt(t, kind) = CAnswer(i).values[t]
<1>1. ASSUME PlacesOf(t, kind) # {}
      PROVE  \E i \in Read : IsOfKind(i, kind) /\ HasValue(CAnswer(i), t) /\ LastOf(t, kind) = CondtionPoint(i, t)
  <2>1. Kind(LastOf(t, kind)) = kind
    BY <1>1, LastOfKind
  <2>2. PICK i \in Read : HasValue(CAnswer(i), t) /\ LastOf(t, kind) = CondtionPoint(i, t)
    BY <1>1, LastOfKind
  <2>3. IsOfKind(i, kind)
    BY <2>1, <2>2, KindOfRow
  <2> QED
    BY <2>2, <2>3
<1>2. ASSUME NEW i \in Read, IsOfKind(i, kind), HasValue(CAnswer(i), t)
      PROVE  PlacesOf(t, kind) # {}
  <2>1. PICK k \in DOMAIN listCondtion[t] : listCondtion[t][k] = CondtionPoint(i, t)
    BY <1>2 DEF FilterPointsInv
  <2>2. Kind(listCondtion[t][k]) = kind
    BY <1>2, <2>1, KindOfRow
  <2> QED
    BY <2>2 DEF PlacesOf
<1>3. ASSUME NEW i \in Read, IsOfKind(i, kind), HasValue(CAnswer(i), t)
      PROVE  /\ LastOf(t, kind) = CondtionPoint(i, t)
             /\ ValueAt(t, kind) = CAnswer(i).values[t]
  <2>1. PlacesOf(t, kind) # {}
    BY <1>2, <1>3
  <2>2. PICK j \in Read : IsOfKind(j, kind) /\ LastOf(t, kind) = CondtionPoint(j, t)
    BY <1>1, <2>1
  <2>3. i = j
    BY <1>3, <2>2, OneRow
  <2>4. CondtionPoint(i, t).value = CAnswer(i).values[t]
    BY DEF CondtionPoint
  <2> QED
    BY <2>1, <2>2, <2>3, <2>4 DEF ValueAt
<1> QED
  BY <1>1, <1>2, <1>3

\* Both flows are low exactly if no row of a flow has a high one.
LEMMA CondensingIsLow ==
  ASSUME LocalsInv, FilterPointsInv, Fetched = Read, ~Ambiguous, NEW t \in DOMAIN listCondtion
  PROVE  Condensing(t) <=> LowFlows(t)
<1> DEFINE LowOf(kind) == ValueAt(t, kind) <= PureCondensing
<1>1. PureCondensing \in Nat
  BY PointsAssumption DEF PureCondensing
<1>2. "I" \in Kinds /\ "II" \in Kinds
  BY DEF Kinds
<1>3. ASSUME NEW kind \in Kinds
      PROVE  LowOf(kind) <=> \A i \in Read : IsOfKind(i, kind) /\ HasValue(CAnswer(i), t)
                                          => CAnswer(i).values[t] <= PureCondensing
  <2>1. CASE PlacesOf(t, kind) = {}
    <3>1. ValueAt(t, kind) = 0
      BY <2>1 DEF ValueAt
    <3>2. ~ \E i \in Read : IsOfKind(i, kind) /\ HasValue(CAnswer(i), t)
      BY <2>1, RowOfKind
    <3> QED
      BY <1>1, <3>1, <3>2
  <2>2. CASE PlacesOf(t, kind) # {}
    <3>1. PICK i \in Read : IsOfKind(i, kind) /\ HasValue(CAnswer(i), t)
      BY <2>2, RowOfKind
    <3>2. ValueAt(t, kind) = CAnswer(i).values[t]
      BY <3>1, RowOfKind
    <3>3. \A j \in Read : IsOfKind(j, kind) => j = i
      BY <3>1, OneRow
    <3> QED
      BY <3>1, <3>2, <3>3
  <2> QED
    BY <2>1, <2>2
<1>4. Condensing(t) <=> LowOf("I") /\ LowOf("II")
  BY DEF Condensing
<1>5. LowFlows(t) <=> \A i \in Read : HasValue(CAnswer(i), t) /\ (IsOfKind(i, "I") \/ IsOfKind(i, "II"))
                                    => CAnswer(i).values[t] <= PureCondensing
  BY DEF LowFlows, CName, CAnswer, IsOfKind
<1> HIDE DEF LowOf
<1> QED
  BY <1>2, <1>3, <1>4, <1>5

\* One condition governs a row.
LEMMA GovernsOnce ==
  ASSUME LocalsInv, NEW i \in Read, NEW g \in Tried, Governs(g, i)
  PROVE  \A j \in Tried : Governs(j, i) <=> j = g
<1>1. \A j \in Tried : j \in Nat
  BY RowsTyped
<1>2. ASSUME NEW j \in Tried, Governs(j, i) PROVE j = g
  <2>1. ~(j > g) /\ ~(g > j)
    BY <1>2 DEF Governs
  <2> QED
    BY <1>1, <2>1
<1> QED
  BY <1>2

\* The load that is looked at, and the limits it is compared with.
LEMMA LoadIsMeasured ==
  ASSUME LocalsInv, CondtionsInv, FilterPointsInv, phase # "condtions", ~Ambiguous,
         NEW t \in DOMAIN listCondtion
  PROVE  /\ PlacesOf(t, "load") = {} <=> LoadRows(t) = {}
         /\ ValueAt(t, "load") = LoadOf(t)
         /\ \A counted \in MayCount(t) :
              /\ counted => LowFlows(t)
              /\ LoadRows(t) # {} => (counted <=> InRange(t) /\ LowFlows(t))
<1> Fetched = Read
  BY DEF Fetched
<1>1. LoadRows(t) = {i \in Read : IsOfKind(i, "load") /\ HasValue(CAnswer(i), t)}
  BY DEF LoadRows, IsOfKind, CName, CAnswer
<1>2. "load" \in Kinds
  BY DEF Kinds
<1>3. PlacesOf(t, "load") = {} <=> LoadRows(t) = {}
  BY <1>1, <1>2, RowOfKind
<1>4. Condensing(t) <=> LowFlows(t)
  BY CondensingIsLow
<1>5. CASE LoadRows(t) = {}
  <2>1. ValueAt(t, "load") = LoadOf(t)
    BY <1>3, <1>5 DEF ValueAt, LoadOf
  <2>2. MayCount(t) = {FALSE, Condensing(t)}
    BY <1>3, <1>5 DEF MayCount
  <2>3. \A counted \in MayCount(t) : counted => Condensing(t)
    BY <2>2
  <2> QED
    BY <1>3, <1>4, <1>5, <2>1, <2>3
<1>6. CASE LoadRows(t) # {}
  <2> DEFINE i == CHOOSE l \in LoadRows(t) : TRUE
  <2>1. i \in LoadRows(t)
    BY <1>6
  <2>2. LoadOf(t) = CAnswer(i).values[t]
    BY <1>6 DEF LoadOf, CAnswer
  <2> HIDE DEF i
  <2>3. i \in Read /\ IsOfKind(i, "load") /\ HasValue(CAnswer(i), t)
    BY <1>1, <2>1
  <2>4. \A j \in Read : IsOfKind(j, "load") => j = i
    BY <1>2, <2>3, OneRow
  <2>5. LastOf(t, "load") = CondtionPoint(i, t) /\ ValueAt(t, "load") = LoadOf(t)
    BY <1>2, <2>2, <2>3, RowOfKind
  <2>6. LoadRows(t) = {i}
    BY <1>1, <2>1, <2>4
  <2>7. PICK g \in Tried : Governs(g, i)
    BY <2>3, GovernsExists
  <2>8. mapCondtion[CName(i)] = input.condtions[g] /\ LastOf(t, "load").name = CName(i)
    BY <2>3, <2>5, <2>7, GoverningStored DEF CondtionPoint
  <2>9. InRange(t) <=> /\ LoadOf(t) >= input.condtions[g].LowLimit * Unit
                       /\ LoadOf(t) <= input.condtions[g].UpLimit * Unit
    <3>1. \A j \in Tried : Governs(j, i) <=> j = g
      BY <2>3, <2>7, GovernsOnce
    <3> QED
      BY <2>6, <3>1 DEF InRange
  <2>10. MayCount(t) = {/\ LoadOf(t) >= input.condtions[g].LowLimit * Unit
                        /\ LoadOf(t) <= input.condtions[g].UpLimit * Unit
                        /\ Condensing(t)}
    BY <1>3, <1>6, <2>5, <2>8 DEF MayCount
  <2>11. \A counted \in MayCount(t) : counted <=> InRange(t) /\ LowFlows(t)
    BY <1>4, <2>9, <2>10
  <2> QED
    BY <1>3, <1>6, <2>5, <2>11
<1> QED
  BY <1>5, <1>6

-----------------------------------------------------------------------------
(***************************************************************************)
(* The loads.  Of the time stamps that were visited those with a load in   *)
(* its limits are counted, and some of those without a load.               *)
(***************************************************************************)

Loaded == {t \in CondensingTimes : LoadRows(t) # {} /\ InRange(t)}
LoadsAt(S) == LET at == InTime(S) IN [i \in DOMAIN at |-> LoadOf(at[i])]

Left == IF phase = "count" THEN todo ELSE {}

LoadsInv ==
  /\ phase \in {"condtions", "indexes", "filter", "prepare", "fit"} => loads = <<>>
  /\ phase \in {"prepare", "fit"} => input.type # 3
  /\ phase = "count" => \A t \in DOMAIN listCondtion \ todo, u \in todo : t < u
  /\ phase \in {"count", "divide", "done"} /\ input.type = 3 /\ ~Ambiguous =>
       \E more \in SUBSET (MissingLoads \ Left) : loads = LoadsAt((Loaded \ Left) \cup more)

LEMMA LoadsFixed ==
  ASSUME input' = input
  PROVE  /\ CondensingTimes' = CondensingTimes /\ Loaded' = Loaded /\ MissingLoads' = MissingLoads
         /\ Ambiguous' = Ambiguous
         /\ \A t : LoadOf(t)' = LoadOf(t)
         /\ \A S : LoadsAt(S)' = LoadsAt(S)
<1>1. Read' = Read /\ Tried' = Tried
  BY InputFixed
<1>2. \A t : LoadRows(t)' = LoadRows(t)
  BY <1>1 DEF LoadRows
<1>3. ASSUME NEW t PROVE LoadOf(t)' = LoadOf(t)
  <2>1. LoadRows(t)' = LoadRows(t)
    BY <1>2
  <2>2. (CHOOSE i \in LoadRows(t) : TRUE)' = CHOOSE i \in LoadRows(t) : TRUE
    BY <2>1
  <2> QED
    BY <2>1, <2>2 DEF LoadOf
<1>4. \A t : (LowFlows(t)' <=> LowFlows(t)) /\ (InRange(t)' <=> InRange(t))
  BY <1>1, <1>2, <1>3 DEF LowFlows, InRange, Governs
<1>5. CondensingTimes' = CondensingTimes
  BY <1>1, <1>4 DEF CondensingTimes
<1>6. Loaded' = Loaded /\ MissingLoads' = MissingLoads
  BY <1>2, <1>4, <1>5 DEF Loaded, MissingLoads
<1>7. Ambiguous' = Ambiguous
  BY <1>1 DEF Ambiguous
<1>8. \A S : LoadsAt(S)' = LoadsAt(S)
  BY <1>3 DEF LoadsAt
<1> QED
  BY <1>3, <1>5, <1>6, <1>7, <1>8

LEMMA LoadsAtNone == LoadsAt({}) = <<>>
<1>1. {} \in SUBSET Nat /\ IsFiniteSet({}) /\ Cardinality({}) = 0
  BY FS_EmptySet
<1>2. DOMAIN InTime({}) = 1..0
  BY <1>1, InTimeRises
<1> QED
  BY <1>2 DEF LoadsAt

\* The load of a later time stamp goes to the end.
LEMMA LoadsAtLater ==
  ASSUME NEW S \in SUBSET Nat, IsFiniteSet(S), NEW t \in Nat, \A s \in S : s < t
  PROVE  LoadsAt(S \cup {t}) = Append(LoadsAt(S), LoadOf(t))
<1> DEFINE n == Cardinality(S)
           f == InTime(S)
           g == InTime(S \cup {t})
<1>1. n \in Nat /\ f \in [1..n -> S] /\ DOMAIN f = 1..n
  BY InTimeRises DEF Rising
<1>2. g = Append(f, t)
  BY LaterGoesLast
<1> HIDE DEF n, f, g
<1>3. f \in [1..n -> Nat]
  BY <1>1
<1>4. f \in Seq(Nat) /\ Len(f) = n
  BY <1>1, <1>3
<1>5. DOMAIN g = 1..(n + 1) /\ \A i \in 1..n : g[i] = f[i]
  BY <1>1, <1>2, <1>4
<1>6. g[n + 1] = t
  BY <1>1, <1>2, <1>4
<1>7. LoadsAt(S) = [i \in 1..n |-> LoadOf(f[i])]
  BY <1>1 DEF LoadsAt, f
<1>8. LoadsAt(S \cup {t}) = [i \in 1..(n + 1) |-> LoadOf(g[i])]
  BY <1>5 DEF LoadsAt, g
<1>9. Append(LoadsAt(S), LoadOf(t)) = [i \in 1..(n + 1) |-> IF i = n + 1 THEN LoadOf(t) ELSE LoadOf(f[i])]
  BY <1>1, <1>7
<1>10. ASSUME NEW i \in 1..(n + 1)
       PROVE  LoadOf(g[i]) = IF i = n + 1 THEN LoadOf(t) ELSE LoadOf(f[i])
  <2>1. i = n + 1 \/ i \in 1..n
    BY <1>1
  <2> QED
    BY <1>1, <1>5, <1>6, <2>1
<1> QED
  BY <1>8, <1>9, <1>10

\* A time stamp with a filter point of low flows only is one of those visited.
LEMMA LowIsVisited ==
  ASSUME FilterPointsInv, Fetched = Read
  PROVE  /\ CondensingTimes \subseteq DOMAIN listCondtion
         /\ \A t \in DOMAIN listCondtion : t \in Times /\ (t \in CondensingTimes <=> LowFlows(t))
<1>1. DOMAIN listCondtion = {t \in Times : \E i \in Read : HasValue(CAnswer(i), t)}
  BY DEF FilterPointsInv
<1> QED
  BY <1>1 DEF CondensingTimes, CAnswer

LEMMA CountLoadLoads ==
  ASSUME PointsInv, LoadsInv, CountLoad
  PROVE  LoadsInv'
<1> DEFINE t == Min(todo)
           load == ValueAt(t, "load")
<1>1. /\ LocalsInv /\ CondtionsInv /\ FilterPointsInv /\ TodoInv
  BY DEF PointsInv
<1>2. /\ phase = "count" /\ phase' = "count" /\ todo # {} /\ todo' = todo \ {t}
      /\ input' = input /\ listCondtion' = listCondtion
  BY DEF CountLoad, fetchVars
<1>3. PICK counted \in MayCount(t) : loads' = IF counted THEN Append(loads, load) ELSE loads
  BY DEF CountLoad
<1>4. Fetched = Read
  BY <1>2 DEF Fetched
<1>5. /\ todo \subseteq DOMAIN listCondtion /\ DOMAIN listCondtion \subseteq Times
      /\ Times \in SUBSET Nat /\ IsFiniteSet(Times)
  BY <1>1, <1>2, PointsAssumption DEF TodoInv, FilterPointsInv
<1>6. t \in todo /\ \A u \in todo : t <= u
  <2>1. todo \in SUBSET Nat
    BY <1>5
  <2> QED
    BY <1>2, <2>1, LeastExists
<1>7. \A s \in DOMAIN listCondtion \ todo, u \in todo : s < u
  BY <1>2 DEF LoadsInv
<1>8. ASSUME NEW s \in DOMAIN listCondtion \ todo', NEW u \in todo' PROVE s < u
  <2>1. u \in todo /\ t <= u /\ u # t /\ u \in Nat /\ t \in Nat
    BY <1>2, <1>5, <1>6
  <2>2. CASE s = t
    BY <2>1, <2>2
  <2>3. CASE s # t
    BY <1>2, <1>7, <2>1, <2>3
  <2> QED
    BY <2>2, <2>3
<1>9. ASSUME input.type = 3, ~Ambiguous
      PROVE  \E more \in SUBSET (MissingLoads \ todo') : loads' = LoadsAt((Loaded \ todo') \cup more)
  <2>1. PICK more \in SUBSET (MissingLoads \ todo) : loads = LoadsAt((Loaded \ todo) \cup more)
    BY <1>2, <1>9 DEF LoadsInv, Left
  <2>2. t \in DOMAIN listCondtion
    BY <1>5, <1>6
  <2>3. /\ load = LoadOf(t)
        /\ counted => LowFlows(t)
        /\ LoadRows(t) # {} => (counted <=> InRange(t) /\ LowFlows(t))
    BY <1>1, <1>2, <1>3, <1>9, <2>2, LoadIsMeasured
  <2>4. t \in CondensingTimes <=> LowFlows(t)
    BY <1>1, <1>4, <2>2, LowIsVisited
  <2> DEFINE S == (Loaded \ todo) \cup more
  <2>5. S \in SUBSET Nat /\ IsFiniteSet(S) /\ t \in Nat /\ \A s \in S : s < t
    <3>1. S \subseteq DOMAIN listCondtion \ todo
      BY <1>1, <1>4, LowIsVisited DEF Loaded, MissingLoads
    <3>2. S \in SUBSET Times
      BY <1>5, <3>1
    <3> QED
      BY <1>5, <1>6, <1>7, <3>1, <3>2, FS_Subset
  <2>6. t \notin todo' /\ todo' \cup {t} = todo
    BY <1>2, <1>6
  <2> HIDE DEF t, load
  <2>7. CASE counted /\ LoadRows(t) # {}
    <3>1. t \in Loaded
      BY <2>3, <2>4, <2>7 DEF Loaded
    <3>2. (Loaded \ todo') \cup more = S \cup {t} /\ more \in SUBSET (MissingLoads \ todo')
      BY <2>6, <3>1
    <3>3. loads' = Append(LoadsAt(S), LoadOf(t))
      BY <1>3, <2>1, <2>3, <2>7
    <3> HIDE DEF S
    <3>4. loads' = LoadsAt((Loaded \ todo') \cup more)
      BY <2>5, <3>2, <3>3, LoadsAtLater
    <3> QED
      BY <3>2, <3>4
  <2>8. CASE counted /\ LoadRows(t) = {}
    <3>1. t \in MissingLoads /\ t \notin Loaded
      BY <2>3, <2>4, <2>8 DEF Loaded, MissingLoads
    <3> DEFINE more1 == more \cup {t}
    <3>2. (Loaded \ todo') \cup more1 = S \cup {t} /\ more1 \in SUBSET (MissingLoads \ todo')
      BY <2>6, <3>1
    <3>3. loads' = Append(LoadsAt(S), LoadOf(t))
      BY <1>3, <2>1, <2>3, <2>8
    <3> HIDE DEF S, more1
    <3>4. loads' = LoadsAt((Loaded \ todo') \cup more1)
      BY <2>5, <3>2, <3>3, LoadsAtLater
    <3> QED
      BY <3>2, <3>4
  <2>9. CASE ~counted
    <3>1. t \notin Loaded
      BY <2>3, <2>4, <2>9 DEF Loaded
    <3>2. Loaded \ todo' = Loaded \ todo /\ more \in SUBSET (MissingLoads \ todo')
      BY <2>6, <3>1
    <3>3. loads' = LoadsAt((Loaded \ todo') \cup more)
      BY <1>3, <2>1, <2>9, <3>2
    <3> QED
      BY <3>2, <3>3
  <2> QED
    BY <2>7, <2>8, <2>9
<1>10. Left' = todo'
  BY <1>2 DEF Left
<1> HIDE DEF t, load
<1>11. \A S : LoadsAt(S)' = LoadsAt(S)
  BY <1>2, LoadsFixed
<1>12. MissingLoads' = MissingLoads /\ Loaded' = Loaded /\ Ambiguous' = Ambiguous
  BY <1>2, LoadsFixed
<1> QED
  BY <1>2, <1>8, <1>9, <1>10, <1>11, <1>12 DEF LoadsInv

LEMMA LoadsStep ==
  ASSUME PointsInv, LoadsInv, [PointsNext]_pointsVars
  PROVE  LoadsInv'
<1> USE DEF countVars, fitVars, fetchVars
<1>1. CASE \/ FetchCondtion \/ EndCondtions \/ FetchIndex \/ EndIndexes \/ Filter
  <2>1. loads' = loads /\ loads = <<>> /\ phase' \in {"condtions", "indexes", "filter"}
    BY <1>1 DEF FetchCondtion, EndCondtions, FetchIndex, EndIndexes, Filter, LoadsInv
  <2> QED
    BY <2>1 DEF LoadsInv
<1>2. CASE EndFilter
  <2>1. /\ phase = "filter" /\ loads' = loads /\ loads = <<>> /\ input' = input
        /\ listCondtion' = listCondtion
    BY <1>2 DEF EndFilter, LoadsInv
  <2>2. CASE input.type # 3
    BY <1>2, <2>1, <2>2 DEF EndFilter, LoadsInv
  <2>3. CASE input.type = 3
    <3>1. phase' = "count" /\ todo' = DOMAIN listCondtion
      BY <1>2, <2>3 DEF EndFilter
    <3>2. CondensingTimes \subseteq todo'
      BY <2>1, <3>1, LowIsVisited DEF PointsInv, Fetched
    <3>3. Loaded \ todo' = {}
      BY <3>2 DEF Loaded
    <3>4. {} \in SUBSET (MissingLoads \ todo') /\ (Loaded \ todo') \cup {} = {}
      BY <3>3
    <3>5. loads' = LoadsAt((Loaded \ todo') \cup {})
      BY <2>1, <3>4, LoadsAtNone
    <3>6. Left' = todo' /\ DOMAIN listCondtion' \ todo' = {}
      BY <2>1, <3>1 DEF Left
    <3>7. \A S : LoadsAt(S)' = LoadsAt(S)
      BY <2>1, LoadsFixed
    <3>8. MissingLoads' = MissingLoads /\ Loaded' = Loaded
      BY <2>1, LoadsFixed
    <3> QED
      BY <3>1, <3>4, <3>5, <3>6, <3>7, <3>8 DEF LoadsInv
  <2> QED
    BY <2>2, <2>3
<1>3. CASE Prepare \/ Fit
  BY <1>3 DEF Prepare, Fit, LoadsInv
<1>4. CASE CountLoad
  BY <1>4, CountLoadLoads
<1>5. CASE EndCount \/ EndDivide \/ Divide
  <2>1. /\ loads' = loads /\ input' = input /\ phase \in {"count", "divide"} /\ phase' \in {"divide", "done"}
        /\ phase = "count" => todo = {}
    BY <1>5 DEF EndCount, EndDivide, Divide
  <2>2. Left = {} /\ Left' = {}
    BY <2>1 DEF Left
  <2>3. \A S : LoadsAt(S)' = LoadsAt(S)
    BY <2>1, LoadsFixed
  <2>4. MissingLoads' = MissingLoads /\ Loaded' = Loaded /\ Ambiguous' = Ambiguous
    BY <2>1, LoadsFixed
  <2> QED
    BY <2>1, <2>2, <2>3, <2>4 DEF LoadsInv
<1>6. CASE UNCHANGED pointsVars
  <2>1. UNCHANGED <<loads, input, phase, todo, listCondtion>>
    BY <1>6 DEF pointsVars
  <2>2. Left' = Left
    BY <2>1 DEF Left
  <2>3. \A S : LoadsAt(S)' = LoadsAt(S)
    BY <2>1, LoadsFixed
  <2>4. MissingLoads' = MissingLoads /\ Loaded' = Loaded /\ Ambiguous' = Ambiguous
    BY <2>1, LoadsFixed
  <2> QED
    BY <2>1, <2>2, <2>3, <2>4 DEF LoadsInv
<1> QED
  BY <1>1, <1>2, <1>3, <1>4, <1>5, <1>6 DEF PointsNext, Done

\* The filter's limits are within those of the histogram, which include both ends.
LEMMA FilteredInRange ==
  ASSUME LocalsInv, ~Ambiguous, NEW t \in Times, Filtered(t)
  PROVE  InRange(t)
<1> SUFFICES ASSUME NEW i \in LoadRows(t), NEW j \in Tried, Governs(j, i)
             PROVE  /\ LoadOf(t) >= input.condtions[j].LowLimit * Unit
                    /\ LoadOf(t) <= input.condtions[j].UpLimit * Unit
  BY DEF InRange
<1> DEFINE c == input.condtions[j]
           v == CAnswer(i).values[t]
<1>1. i \in Read /\ IsOfKind(i, "load") /\ HasValue(CAnswer(i), t) /\ "load" \in Kinds
  BY DEF LoadRows, IsOfKind, CName, CAnswer, Kinds
<1>2. ASSUME NEW l \in LoadRows(t) PROVE l = i
  <2>1. l \in Read /\ IsOfKind(l, "load")
    BY DEF LoadRows, IsOfKind, CName
  <2> QED
    BY <1>1, <2>1, OneRow
<1>3. LoadOf(t) = v
  BY <1>2 DEF LoadOf, CAnswer
<1>4. Meets(v, c)
  BY <1>1 DEF Filtered, CAnswer
<1>5. v \in Nat /\ c.LowLimit \in Int /\ c.UpLimit \in Int /\ Unit \in Nat
  <2>1. CAnswer(i) \in Answer /\ c \in Condtion
    BY <1>1, RowsTyped
  <2> QED
    BY <1>1, <2>1, ValueTyped, PointsAssumption DEF Condtion
<1> HIDE DEF v, c
<1>6. /\ v > c.LowLimit * Unit \/ v = c.LowLimit * Unit
      /\ v < c.UpLimit * Unit \/ v = c.UpLimit * Unit
  BY <1>4 DEF Meets
<1> QED
  BY <1>3, <1>5, <1>6 DEF c

\* Whatever loads and flows there are and whatever each read gives, when no description
\* is ambiguous the loads of the histogram are, in the order of time, all that meet the
\* conditions, all others with low flows that are within the limits in force for them,
\* and zeros where there is no load; so they are not what the comment of the list says
\* (capacitymonitor.cpp:357, :668).
THEOREM CountedLoadsAreRight == PointsSpec => []CountedLoads
<1>1. PointsInit => LoadsInv
  BY DEF PointsInit, LoadsInv
<1>2. PointsInv /\ LoadsInv => CountedLoads
  <2> SUFFICES ASSUME PointsInv, LoadsInv, phase = "done", input.type = 3, ~Ambiguous
               PROVE  CountedLoads
    BY DEF CountedLoads
  <2>1. Left = {}
    BY DEF Left
  <2>2. PICK zeros \in SUBSET MissingLoads : loads = LoadsAt(Loaded \cup zeros)
    BY <2>1 DEF LoadsInv
  <2>3. FilteredLoads \cup RejectedLoads = Loaded
    <3>1. \A t \in CondensingTimes : Filtered(t) => InRange(t)
      BY FilteredInRange DEF PointsInv, CondensingTimes
    <3> QED
      BY <3>1 DEF FilteredLoads, RejectedLoads, Loaded
  <2> QED
    BY <2>2, <2>3 DEF CountedLoads, LoadsAt
<1> QED
  BY <1>1, <1>2, LoadsStep, PointsInvariant, PTL DEF PointsSpec
=================================================================================
