------------------------------- MODULE CalcPoints -------------------------------
(***************************************************************************)
(* What one run of startCalcModel does with its points                     *)
(* (capacitymonitor.cpp): it collects the values of the filter points and  *)
(* of the calculation points by time stamp, removes the time stamps the    *)
(* conditions reject, and lays the rest out for the fit, for the training, *)
(* or, for a model of type 3, counts the load histogram from the filter    *)
(* points.  All of it is local to the run; CapacityMonitor has only its    *)
(* outcome, see Outcome.                                                   *)
(*                                                                         *)
(* A value is a number of 1/Unit, so that loads between two integers       *)
(* exist; limits are whole numbers, as in the tables.                      *)
(***************************************************************************)
EXTENDS LeastSquares, FiniteSets, FiniteSetsExt, TLC

CONSTANTS
  Tags,        \* points of the historian (WRITEBACK_CODE_Z)
  Times,       \* time stamps of the window
  None,        \* the historian has no value
  Unit,        \* how finely values are divided
  Desc,    \* which of "I", "II" and "load" the description of a tag contains
  Inputs       \* what a run may find: see Input

\* What the historian gives one read: values, or an error.  Two reads of one point
\* may differ: each takes the mutex anew.
Values == Nat
Answer == [error : BOOLEAN, values : [Times -> Values \cup {None}]]

\* A row of each table, with the answer to the read of its point.
\* Types 1, 2 fit curves, 3 counts the histogram, 4, 5 train; 6 uses no points.
Condtion == [name : Tags, LowLimit : Int, LowLimitIn : {0, 1},
             UpLimit : Int, UpLimitIn : {0, 1}, answer : Answer]
Index == [name : Tags, order : Nat, answer : Answer]
Input == [type : 1..5, condtions : Seq(Condtion), indexes : Seq(Index)]

ASSUME PointsAssumption ==
  /\ Times \subseteq Nat /\ IsFiniteSet(Times)
  /\ None \notin Values
  /\ Unit \in Nat \ {0}
  /\ Desc \in [Tags -> SUBSET {"I", "II", "load"}]
  /\ Inputs \subseteq Input

VARIABLES
  input,          \* CONDITION_TYPE, the rows of the two tables, the historian's answers
  phase,          \* the loop the run is in
  next,           \* the next row of that loop
  todo,           \* the keys its QMapIterator has still to visit
  mapCondtion,    \* mapTfnlCondtion
  listCondtion,   \* mapListCondtionPointInfo
  listPoints,     \* mapListSspgPointInfo
  prepared,       \* what is handed to the fit or to the Python server
  fits,           \* the systems of equations of the fits
  loads,          \* list_CNGK_Data
  percent         \* mapFhAppearPercent, a value as a fraction <<n, d>>

fetchVars == <<mapCondtion, listCondtion, listPoints>>
countVars == <<loads, percent>>
fitVars == <<prepared, fits>>
pointsVars == <<input, phase, next, todo, fetchVars, fitVars, countVars>>

Point == [name : Tags, value : Values, order : Nat]
EmptyMap == [t \in {} |-> <<>>]
Insert(map, key, value) ==
  [k \in DOMAIN map \cup {key} |-> IF k = key THEN value ELSE map[k]]

PointsInit ==
  /\ input \in Inputs
  /\ phase = "condtions"
  /\ next = 1
  /\ todo = {}
  /\ mapCondtion = EmptyMap
  /\ listCondtion = EmptyMap
  /\ listPoints = EmptyMap
  /\ prepared = <<>> /\ fits = <<>>
  /\ loads = <<>>
  /\ percent = EmptyMap

-----------------------------------------------------------------------------
(***************************************************************************)
(* The two loops over the rows of the condition and of the index table.    *)
(***************************************************************************)

\* The time stamps that a read fills in; none if the historian is not connected or
\* reports an error.
GetHisValue(answer) ==
  IF answer.error THEN {} ELSE {t \in Times : answer.values[t] # None}
HasValue(answer, t) == t \in GetHisValue(answer)

\* getPointInfo, and push_back for each time stamp.
PushBack(list, row, order) ==
  LET point(t) == [name |-> row.name, value |-> row.answer.values[t], order |-> order]
      old(t) == IF t \in DOMAIN list THEN list[t] ELSE <<>>
  IN [t \in DOMAIN list \cup GetHisValue(row.answer) |->
        IF HasValue(row.answer, t) THEN Append(old(t), point(t)) ELSE old(t)]

\* The condition is kept under the name of its point before the point is read.  A
\* read without values ends the loop, and the condition stays.

\* A faulty variant: the condition that was there first is kept.
FetchCondtionKeepFirst ==
  LET c == input.condtions[next] IN
  /\ phase = "condtions" /\ next <= Len(input.condtions)
  /\ mapCondtion' = IF c.name \in DOMAIN mapCondtion THEN mapCondtion
                    ELSE Insert(mapCondtion, c.name, c)
  /\ listCondtion' = PushBack(listCondtion, c, 0)
  /\ IF GetHisValue(c.answer) = {}
       THEN phase' = "indexes" /\ next' = 1
       ELSE next' = next + 1 /\ UNCHANGED phase
  /\ UNCHANGED <<input, todo, listPoints, fitVars, countVars>>

FetchCondtion ==
  LET c == input.condtions[next] IN
  /\ phase = "condtions" /\ next <= Len(input.condtions)
  /\ mapCondtion' = Insert(mapCondtion, c.name, c)
  /\ listCondtion' = PushBack(listCondtion, c, 0)
  /\ IF GetHisValue(c.answer) = {}
       THEN phase' = "indexes" /\ next' = 1
       ELSE next' = next + 1 /\ UNCHANGED phase
  /\ UNCHANGED <<input, todo, listPoints, fitVars, countVars>>

EndCondtions ==
  /\ phase = "condtions" /\ next > Len(input.condtions)
  /\ phase' = "indexes"
  /\ next' = 1
  /\ UNCHANGED <<input, todo, fetchVars, fitVars, countVars>>

FetchIndex ==
  LET i == input.indexes[next]
      points == PushBack(listPoints, i, i.order)
  IN
  /\ phase = "indexes" /\ next <= Len(input.indexes)
  /\ listPoints' = points
  /\ IF GetHisValue(i.answer) = {}
       THEN phase' = "filter" /\ next' = 1 /\ todo' = DOMAIN points
       ELSE next' = next + 1 /\ UNCHANGED <<phase, todo>>
  /\ UNCHANGED <<input, mapCondtion, listCondtion, fitVars, countVars>>

EndIndexes ==
  /\ phase = "indexes" /\ next > Len(input.indexes)
  /\ phase' = "filter"
  /\ next' = 1
  /\ todo' = DOMAIN listPoints
  /\ UNCHANGED <<input, fetchVars, fitVars, countVars>>

-----------------------------------------------------------------------------
(***************************************************************************)
(* The filter visits a copy of the map, as QMapIterator does, and removes  *)
(* from the map itself.                                                    *)
(***************************************************************************)

OutOfLimits(p) ==
  LET c == mapCondtion[p.name] IN
  \/ c.LowLimitIn = 0 /\ p.value < c.LowLimit * Unit
  \/ c.LowLimitIn = 1 /\ p.value <= c.LowLimit * Unit
  \/ c.UpLimitIn = 0 /\ p.value > c.UpLimit * Unit
  \/ c.UpLimitIn = 1 /\ p.value >= c.UpLimit * Unit

\* A faulty variant: a time stamp with too few points is not removed.
RemovedWithoutSize(t) ==
  \/ t \notin DOMAIN listCondtion
  \/ \E i \in DOMAIN listCondtion[t] : OutOfLimits(listCondtion[t][i])

\* A faulty variant: a time stamp without filter points is not removed.
RemovedWithoutContains(t) ==
  \/ Len(listPoints[t]) # Len(input.indexes)
  \/ /\ t \in DOMAIN listCondtion
     /\ \E i \in DOMAIN listCondtion[t] : OutOfLimits(listCondtion[t][i])

Removed(t) ==
  \/ Len(listPoints[t]) # Len(input.indexes)
  \/ t \notin DOMAIN listCondtion
  \/ \E i \in DOMAIN listCondtion[t] : OutOfLimits(listCondtion[t][i])

Filter ==
  /\ phase = "filter" /\ todo # {}
  /\ LET t == Min(todo) IN
       /\ todo' = todo \ {t}
       /\ listPoints' = IF Removed(t) THEN Restrict(listPoints, DOMAIN listPoints \ {t})
                                      ELSE listPoints
  /\ UNCHANGED <<input, phase, next, mapCondtion, listCondtion, fitVars, countVars>>

\* The switch on ConditionType.
EndFilter ==
  /\ phase = "filter" /\ todo = {}
  /\ IF input.type = 3
       THEN phase' = "count" /\ todo' = DOMAIN listCondtion
       ELSE phase' = "prepare" /\ UNCHANGED todo
  /\ UNCHANGED <<input, next, fetchVars, fitVars, countVars>>

-----------------------------------------------------------------------------
(***************************************************************************)
(* Types 1, 2, 4 and 5: the points that are left, in the order of time.    *)
(***************************************************************************)

InTime(times) ==
  CHOOSE at \in [1..Cardinality(times) -> times] :
    \A i, j \in DOMAIN at : i < j => at[i] < at[j]

\* The last point of that order; INPUT_POINT() sets its coordinates to 0.
Coordinate(points, order) ==
  LET of == {i \in DOMAIN points : points[i].order = order}
  IN IF of = {} THEN 0 ELSE points[Max(of)].value

\* A faulty variant: the coordinates are swapped for the second curve.
GetInputPointSwapped(order) ==
  LET at == InTime(DOMAIN listPoints)
      y == IF order = 1 THEN 0 ELSE 1
  IN [i \in DOMAIN at |-> [x |-> Coordinate(listPoints[at[i]], order),
                           y |-> Coordinate(listPoints[at[i]], y)]]

GetInputPoint(order) ==
  LET at == InTime(DOMAIN listPoints)
  IN [i \in DOMAIN at |-> [x |-> Coordinate(listPoints[at[i]], order),
                           y |-> Coordinate(listPoints[at[i]], 0)]]

GetInputPoint3D ==
  LET at == InTime({t \in DOMAIN listPoints : Len(listPoints[t]) = 3})
  IN [i \in DOMAIN at |-> [x |-> Coordinate(listPoints[at[i]], 1),
                           y |-> Coordinate(listPoints[at[i]], 2),
                           z |-> Coordinate(listPoints[at[i]], 0)]]

\* list_data of trainModel: all values one after the other.
ListData ==
  LET at == InTime(DOMAIN listPoints)
      row(t) == [i \in DOMAIN listPoints[t] |-> listPoints[t][i].value]
  IN FlattenSeq([i \in DOMAIN at |-> row(at[i])])

Prepare ==
  /\ phase = "prepare"
  /\ prepared' = IF input.type \in {4, 5} THEN ListData ELSE
                  CASE Len(input.indexes) = 2 -> <<GetInputPoint(1)>>
                    [] Len(input.indexes) = 3 -> <<GetInputPoint3D>>
                    [] Len(input.indexes) = 4 -> [k \in 1..3 |-> GetInputPoint(k)]
                    [] OTHER                  -> <<>>
  /\ phase' = IF input.type \in {4, 5} THEN "done" ELSE "fit"
  /\ UNCHANGED <<input, next, todo, fetchVars, fits, countVars>>

\* One surface for three indexes, else one curve for each index but the first, if
\* there are points: the surface does not ask.
Fit ==
  /\ phase = "fit"
  /\ fits' = IF Len(input.indexes) = 3 THEN <<Calculation(prepared[1])>>
             ELSE [k \in {i \in DOMAIN prepared : prepared[i] # <<>>} |-> polyfit(prepared[k])]
  /\ phase' = "done"
  /\ UNCHANGED <<input, next, todo, fetchVars, prepared, countVars>>

-----------------------------------------------------------------------------
(***************************************************************************)
(* calcFhAppearPercent.  The descriptions are tested in this order, so a   *)
(* point of the second stage that is written like two of the first counts  *)
(* as the first.                                                           *)
(***************************************************************************)

Kind(p) == IF "I" \in Desc[p.name] THEN "I"
           ELSE IF "II" \in Desc[p.name] THEN "II"
           ELSE IF "load" \in Desc[p.name] THEN "load"
           ELSE "other"

Ceil(v) == -((-v) \div Unit)
PureCondensing == 3 * Unit

\* The points of a kind; of several the last counts.
PlacesOf(t, kind) == {i \in DOMAIN listCondtion[t] : Kind(listCondtion[t][i]) = kind}
LastOf(t, kind) == listCondtion[t][Max(PlacesOf(t, kind))]
ValueAt(t, kind) == IF PlacesOf(t, kind) = {} THEN 0 ELSE LastOf(t, kind).value

\* A faulty variant: the flow of the second stage is not looked at.
CondensingOneStage(t) == ValueAt(t, "I") <= PureCondensing

Condensing(t) == ValueAt(t, "I") <= PureCondensing /\ ValueAt(t, "II") <= PureCondensing

\* FH_Condtion is not initialised: without a load its limits are arbitrary.
MayCount(t) ==
  LET c == mapCondtion[LastOf(t, "load").name]
      load == ValueAt(t, "load")
  IN IF PlacesOf(t, "load") = {}
       THEN {FALSE, Condensing(t)}
       ELSE {load >= c.LowLimit * Unit /\ load <= c.UpLimit * Unit /\ Condensing(t)}

CountLoad ==
  /\ phase = "count" /\ todo # {}
  /\ LET t == Min(todo)
         load == ValueAt(t, "load")
         bar == Ceil(load)
         old == IF bar \in DOMAIN percent THEN percent[bar][1] ELSE 0
     IN /\ todo' = todo \ {t}
        /\ \E counted \in MayCount(t) :
             /\ percent' = IF counted THEN Insert(percent, bar, <<old + 1, 1>>) ELSE percent
             /\ loads' = IF counted THEN Append(loads, load) ELSE loads
  /\ UNCHANGED <<input, phase, next, fetchVars, fitVars>>

EndCount ==
  /\ phase = "count" /\ todo = {}
  /\ phase' = "divide"
  /\ todo' = DOMAIN percent
  /\ UNCHANGED <<input, next, fetchVars, fitVars, countVars>>

\* A faulty variant: the sum is one short.
SumShort == Len(loads) - 1

Sum == Len(loads)

\* Each bar is divided by the sum; the gap up to the next one is filled with 0.

\* A faulty variant: one zero at most is filled in.
DivideFillOne ==
  /\ phase = "divide" /\ todo # {}
  /\ LET bar == Min(todo)
         gap == IF todo = {bar} \/ bar + 1 \in DOMAIN percent THEN {} ELSE {bar + 1}
     IN /\ todo' = todo \ {bar}
        /\ percent' = Insert([b \in DOMAIN percent \cup gap |->
                                IF b \in gap THEN <<0, 1>> ELSE percent[b]],
                             bar, <<percent[bar][1], Sum>>)
  /\ UNCHANGED <<input, phase, next, fetchVars, fitVars, loads>>

Divide ==
  /\ phase = "divide" /\ todo # {}
  /\ LET bar == Min(todo)
         above == {b \in DOMAIN percent : b > bar}
         gap == IF todo = {bar} THEN {} ELSE (bar + 1)..(Min(above) - 1)
     IN /\ todo' = todo \ {bar}
        /\ percent' = Insert([b \in DOMAIN percent \cup gap |->
                                IF b \in gap THEN <<0, 1>> ELSE percent[b]],
                             bar, <<percent[bar][1], Sum>>)
  /\ UNCHANGED <<input, phase, next, fetchVars, fitVars, loads>>

EndDivide ==
  /\ phase = "divide" /\ todo = {}
  /\ phase' = "done"
  /\ UNCHANGED <<input, next, todo, fetchVars, fitVars, countVars>>

\* The run goes on to store what it computed: see CapacityMonitor.
Done == phase = "done" /\ UNCHANGED pointsVars

PointsNext ==
  \/ FetchCondtion \/ EndCondtions \/ FetchIndex \/ EndIndexes
  \/ Filter \/ EndFilter \/ Prepare \/ Fit
  \/ CountLoad \/ EndCount \/ Divide \/ EndDivide
  \/ Done

PointsSpec == PointsInit /\ [][PointsNext]_pointsVars

-----------------------------------------------------------------------------
(***************************************************************************)
(* What the loops compute, said without them.                              *)
(***************************************************************************)

\* The rows whose condition was stored, those before which every read gave values,
\* and the rows whose own read gave values as well.
Tried == {i \in DOMAIN input.condtions :
            \A j \in 1..(i - 1) : GetHisValue(input.condtions[j].answer) # {}}
Read == {i \in Tried : GetHisValue(input.condtions[i].answer) # {}}

\* Of several conditions on one point the last one holds for all its values, even
\* one whose own read gave none.
Governs(j, i) ==
  /\ input.condtions[j].name = input.condtions[i].name
  /\ \A k \in Tried : k > j => input.condtions[k].name # input.condtions[i].name

Meets(v, c) ==
  /\ v > c.LowLimit * Unit \/ (c.LowLimitIn = 0 /\ v = c.LowLimit * Unit)
  /\ v < c.UpLimit * Unit \/ (c.UpLimitIn = 0 /\ v = c.UpLimit * Unit)

\* Some filter point has a value at t, and none violates its condition there.
Filtered(t) ==
  /\ \E i \in Read : HasValue(input.condtions[i].answer, t)
  /\ \A i \in Read, j \in Tried :
       HasValue(input.condtions[i].answer, t) /\ Governs(j, i) =>
         Meets(input.condtions[i].answer.values[t], input.condtions[j])

\* A time stamp is kept if all indexes have a value there, too.
Kept(t) ==
  /\ input.indexes # <<>>
  /\ \A j \in DOMAIN input.indexes : HasValue(input.indexes[j].answer, t)
  /\ Filtered(t)

KeptTimes == {t \in Times : Kept(t)}
ValueOf(order, t) ==
  LET j == CHOOSE j \in DOMAIN input.indexes : input.indexes[j].order = order
  IN input.indexes[j].answer.values[t]

\* The types of the run's locals.
PointsTypeOK ==
  /\ input \in Input
  /\ phase \in {"condtions", "indexes", "filter", "prepare", "fit", "count", "divide", "done"}
  /\ next \in Nat \ {0}
  /\ \A c \in DOMAIN mapCondtion : mapCondtion[c] \in Condtion
  /\ \A list \in {listCondtion, listPoints} :
       /\ DOMAIN list \subseteq Times
       /\ \A t \in DOMAIN list : list[t] # <<>> /\ Range(list[t]) \subseteq Point
  /\ todo \subseteq IF phase = "divide" THEN DOMAIN percent ELSE Times
  /\ Range(loads) \subseteq Values
  /\ \A b \in DOMAIN percent : percent[b][1] \in Nat /\ percent[b][2] \in Nat \ {0}

\* The filter (capacitymonitor.cpp:203): however the values of the points are
\* spread over time, whichever read gives none or differs from an earlier one of
\* the same point, and wherever a fetch loop ended early, a visited time stamp is
\* left exactly if the reference keeps it.
FilteredPoints ==
  phase \in {"filter", "prepare", "fit", "count", "divide", "done"} =>
    DOMAIN listPoints \ todo \subseteq KeptTimes /\ KeptTimes \subseteq DOMAIN listPoints

\* What CapacityMonitor assumes of the filter and of the histogram
\* (capacitymonitor.cpp:141, :216): points are left only if every index and one
\* filter point at least was read, and bars only if a filter point was.
Outcome ==
  /\ phase \in {"prepare", "fit", "done"} /\ DOMAIN listPoints # {} =>
       /\ 1 \in Read
       /\ input.indexes # <<>>
       /\ \A j \in DOMAIN input.indexes : GetHisValue(input.indexes[j].answer) # {}
  /\ DOMAIN percent # {} => 1 \in Read

\* The indexes have the orders 0, 1, and so on, each once.
OneOfEachOrder ==
  \A k \in 0..(Len(input.indexes) - 1) :
    \E j \in DOMAIN input.indexes :
      \A l \in DOMAIN input.indexes : input.indexes[l].order = k <=> l = j

\* The points of the curve over the k-th index and of the surface, at the time
\* stamps that are kept.
CurvePoints(k) ==
  LET at == InTime(KeptTimes)
  IN [i \in DOMAIN at |-> [x |-> ValueOf(k, at[i]), y |-> ValueOf(0, at[i])]]
SurfacePoints ==
  LET at == InTime(KeptTimes)
  IN [i \in DOMAIN at |-> [x |-> ValueOf(1, at[i]), y |-> ValueOf(2, at[i]),
                           z |-> ValueOf(0, at[i])]]

\* getInputPoint and getInputPoint3D (capacitymonitor.cpp:693, :719): a fit gets
\* one point for each time stamp that is kept, in order, and both (all three) of
\* its coordinates were measured then: none is the 0 of INPUT_POINT().
FitInputs ==
  phase = "done" /\ input.type \in {1, 2} /\ OneOfEachOrder =>
    CASE Len(input.indexes) \in {2, 4} ->
           prepared = [k \in 1..(Len(input.indexes) - 1) |-> CurvePoints(k)]
      [] Len(input.indexes) = 3 -> prepared = <<SurfacePoints>>
      [] OTHER -> prepared = <<>>

\* The equation of types 1 and 2 (LeastSquaresCurve.cpp:27, LeastSquareSurface.cpp:20):
\* each fit solves the equations that make the squared error of the load over the
\* time stamps that are kept minimal, for a curve of degree 2 over one index or for
\* a surface of degree 2 over two, whose matrix is written out by hand.
Fitted ==
  LET n == Len(input.indexes)
  IN phase = "done" /\ input.type \in {1, 2} /\ OneOfEachOrder =>
       /\ n \in {2, 4} =>
            fits = [k \in {i \in 1..(n - 1) : KeptTimes # {}} |-> CurveEquations(CurvePoints(k))]
       /\ n = 3 => fits = <<SurfaceEquations(SurfacePoints)>>

\* list_data (capacitymonitor.cpp:400): the server is sent a flat list and a list
\* of columns, so the values must form full rows: the i-th value belongs to the
\* column at the same place of its row.
TrainingRows ==
  LET at == InTime(KeptTimes)
      columns == Len(input.indexes)
  IN phase = "done" /\ input.type \in {4, 5} =>
       /\ Len(prepared) = Len(at) * columns
       /\ \A i \in DOMAIN at, j \in 1..columns :
            prepared[(i - 1) * columns + j] = input.indexes[j].answer.values[at[i]]

\* What the descriptions should not do: a point of two kinds, or two of one kind.
Ambiguous ==
  \/ \E i \in Read : Cardinality(Desc[input.condtions[i].name]) > 1
  \/ \E i, j \in Read : /\ i # j
                        /\ Desc[input.condtions[i].name] = Desc[input.condtions[j].name]
                        /\ Desc[input.condtions[i].name] # {}

\* The load of a time stamp is the value of the filter point that is described as
\* one, 0 where it has none; no flow that was measured then may be above 3.
LoadRows(t) == {i \in Read : /\ "load" \in Desc[input.condtions[i].name]
                             /\ HasValue(input.condtions[i].answer, t)}
LoadOf(t) == IF LoadRows(t) = {} THEN 0
             ELSE input.condtions[CHOOSE i \in LoadRows(t) : TRUE].answer.values[t]
LowFlows(t) ==
  \A i \in Read : LET row == input.condtions[i] IN
    HasValue(row.answer, t) /\ Desc[row.name] \cap {"I", "II"} # {} =>
      row.answer.values[t] <= PureCondensing
InRange(t) == \A i \in LoadRows(t), j \in Tried : Governs(j, i) =>
                /\ LoadOf(t) >= input.condtions[j].LowLimit * Unit
                /\ LoadOf(t) <= input.condtions[j].UpLimit * Unit

\* The time stamps of pure condensing operation: those with a load that meet every
\* condition, those whose load is within its limits, these included, while the
\* filter rejects them, and those with a filter point but no load.
CondensingTimes ==
  {t \in Times : LowFlows(t) /\ \E i \in Read : HasValue(input.condtions[i].answer, t)}
FilteredLoads == {t \in CondensingTimes : LoadRows(t) # {} /\ Filtered(t)}
RejectedLoads == {t \in CondensingTimes : LoadRows(t) # {} /\ ~Filtered(t) /\ InRange(t)}
MissingLoads == {t \in CondensingTimes : LoadRows(t) = {}}

\* The loads (capacitymonitor.cpp:668), as the code has them and not as its comment
\* has them, see LoadsMeetCondtions: when no description is ambiguous, they are, in
\* the order of time, all that meet the conditions, all the filter rejects though
\* they are within their limits, and zeros for some time stamps without a load; no
\* other, whatever the flows of both stages, the limits and the reads.
CountedLoads ==
  phase = "done" /\ input.type = 3 /\ ~Ambiguous =>
    \E zeros \in SUBSET MissingLoads :
      LET at == InTime(FilteredLoads \cup RejectedLoads \cup zeros)
      IN loads = [i \in DOMAIN at |-> LoadOf(at[i])]

\* The comment on the list of loads (capacitymonitor.cpp:357), the values of points
\* "that meet the filter conditions": each is the value of a load point at a time
\* stamp where every filter point meets its condition.
LoadsMeetCondtions ==
  phase = "done" /\ input.type = 3 =>
    \A n \in DOMAIN loads : \E t \in Times :
      /\ Filtered(t)
      /\ \E i \in LoadRows(t) : loads[n] = input.condtions[i].answer.values[t]

\* The histogram (capacitymonitor.cpp:677): the bars leave no gap between the
\* lowest and the highest load, every load is rounded up to one of them, and each
\* bar is the share of the loads that are; so the shares add up to one.
Shares ==
  LET bars == DOMAIN percent
      count(b) == Cardinality({i \in DOMAIN loads : Ceil(loads[i]) = b})
  IN phase = "done" /\ loads # <<>> =>
       /\ bars = Min(bars)..Max(bars)
       /\ \A i \in DOMAIN loads : Ceil(loads[i]) \in bars
       /\ \A b \in bars : percent[b][1] * Len(loads) = count(b) * percent[b][2]
=================================================================================
