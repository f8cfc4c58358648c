-------------------------- MODULE CapacityMonitor_proofs --------------------------
(***************************************************************************)
(* Theorems about CapacityMonitor, for every number of models, threads and *)
(* configurations, whatever the environment does.                          *)
(***************************************************************************)
EXTENDS CapacityMonitor, FiniteSetTheorems, TLAPS

(***************************************************************************)
(* Type correctness.                                                       *)
(***************************************************************************)

\* The step that follows the filter is a step of the switch (startCalcModel).
LEMMA AfterFilterType ==
  ASSUME NEW type, NEW size, NEW points
  PROVE  AfterFilter(type, size, points) \in Step
BY SMT DEF AfterFilter, Step

\* A run that moves to a step of the code with proper locals keeps the types.
LEMMA GotoType ==
  ASSUME TypeOK, NEW w \in Workers, NEW next \in Step, NEW c \in Calc, Goto(w, next, c)
  PROVE  /\ pc' \in [Workers -> Step]
         /\ calc' \in [Workers -> Calc]
         /\ UNCHANGED mainVars
<1>1. NoCalc \in Calc
  BY SizesAssumption DEF NoCalc, NewCalc, Calc, ModelIds, Versions, Sources
<1>. QED  BY <1>1 DEF Goto, TypeOK

\* The locals of a run are updated field by field, and keep their type.
LEMMA CalcType ==
  ASSUME TypeOK, NEW w \in Workers
  PROVE  /\ calc[w] \in Calc
         /\ calc[w].model \in ModelIds
         /\ calc[w].version \in Versions
         /\ calc[w].source \in Sources
         /\ calc[w].indexes \in Nat
         /\ calc[w].rows \in Nat
         /\ calc[w].points \in BOOLEAN
BY DEF TypeOK, Calc

\* Each method of DataBaseHelper keeps the types of its tables.
LEMMA DBTypes ==
  ASSUME DBTypeOK, NEW w \in Workers, NEW m \in ModelIds, NEW source \in Sources
  PROVE  /\ \A s \in XL_Status : UpdateCalcModelStatus(m, s) => DBTypeOK'
         /\ DeleteEquation(w, m) => DBTypeOK'
         /\ \A done : InsertEquation(w, m, source, done) => DBTypeOK'
         /\ BeginFilterData(w, m, source) => DBTypeOK'
         /\ CommitFilterData(w, m) => DBTypeOK'
         /\ DeleteCngkData(w, m) => DBTypeOK'
         /\ InsertCngkRow(w, m, source) => DBTypeOK'
         /\ ReturnCngkData(w) => DBTypeOK'
<1>1. ASSUME NEW s \in XL_Status, UpdateCalcModelStatus(m, s)  PROVE DBTypeOK'
  BY <1>1 DEF UpdateCalcModelStatus, Exec, DBTypeOK
<1>2. ASSUME DeleteEquation(w, m)  PROVE DBTypeOK'
  BY <1>2, << >> \in Seq(Sources) DEF DeleteEquation, Exec, DBTypeOK
<1>3. ASSUME NEW done, InsertEquation(w, m, source, done)  PROVE DBTypeOK'
  <2>1. Append(equation[m], source) \in Seq(Sources)
    BY DEF DBTypeOK
  <2>. QED  BY <1>3, <2>1 DEF InsertEquation, Exec, DBTypeOK
<1>4. ASSUME BeginFilterData(w, m, source)  PROVE DBTypeOK'
  BY <1>4 DEF BeginFilterData, tables, DBTypeOK, Sources
<1>5. ASSUME CommitFilterData(w, m)  PROVE DBTypeOK'
  BY <1>5 DEF CommitFilterData, Exec, NoTx, DBTypeOK, Sources
<1>6. ASSUME DeleteCngkData(w, m)  PROVE DBTypeOK'
  BY <1>6, << >> \in Seq(Sources) DEF DeleteCngkData, Exec, DBTypeOK
<1>7. ASSUME InsertCngkRow(w, m, source)  PROVE DBTypeOK'
  <2>1. Append(cngkData[m], source) \in Seq(Sources)
    BY DEF DBTypeOK
  <2>. QED  BY <1>7, <2>1 DEF InsertCngkRow, Exec, DBTypeOK
<1>8. ASSUME ReturnCngkData(w)  PROVE DBTypeOK'
  BY <1>8 DEF ReturnCngkData, tables, DBTypeOK
<1>. QED  BY <1>1, <1>2, <1>3, <1>4, <1>5, <1>6, <1>7, <1>8

\* The configuration of a model in the tables is one of its configurations.
LEMMA CurrentType ==
  ASSUME DBTypeOK, NEW m \in ModelIds
  PROVE  Current(m) \in Configuration
BY ModelsAssumption DEF DBTypeOK, Current

\* What leaves the database alone leaves its types alone.
LEMMA DBUnchanged ==
  ASSUME DBTypeOK, UNCHANGED dbVars
  PROVE  DBTypeOK'
BY DEF DBTypeOK, dbVars, tables

\* TypeOK is not inductive: the timer starts a run only for a model it visits.
TypeInv == TypeOK /\ (timer = "launch" => cursor \in ModelIds)

\* The initial state has the types.
LEMMA TypeInit == Init => TypeInv
<1>. SUFFICES ASSUME Init  PROVE TypeInv
  OBVIOUS
<1>1. DBTypeOK
  <2>1. 1 \in Versions /\ 0 \in XL_Status /\ << >> \in Seq(Sources) /\ {} \in Sources
    BY SizesAssumption DEF Versions, XL_Status, Sources
  <2>. QED  BY <2>1 DEF Init, DBInit, DBTypeOK, NoTx
<1>2. NoSnapshot \in [ModelIds -> Row]
  BY SizesAssumption DEF NoSnapshot, NoRow, Row, XL_Status, Versions
<1>3. NoCalc \in Calc
  BY SizesAssumption DEF NoCalc, NewCalc, Calc, ModelIds, Versions, Sources
<1>. QED  BY <1>1, <1>2, <1>3, SizesAssumption DEF Init, TypeInv, TypeOK, Step

\* Every step of a run keeps the types.
LEMMA RunTypeStep ==
  ASSUME TypeOK, NEW w \in Workers, RunStep(w)
  PROVE  TypeOK'
<1>. DEFINE m == calc[w].model
            c == calc[w]
<1>. USE CalcType
<1>0. DBTypeOK
  BY DEF TypeOK
<1>1. ASSUME DBTypeOK',
             \E next \in Step, d \in Calc : Goto(w, next, d)
      PROVE  TypeOK'
  BY <1>1, GotoType DEF TypeOK, mainVars
<1>2. CASE StartCalcModel(w)
  <2>1. DBTypeOK'
    BY <1>0, <1>2, DBTypes DEF StartCalcModel, XL_Status
  <2>. QED  BY <1>1, <1>2, <2>1 DEF StartCalcModel, Step
<1>a. version[m] \in Versions
  BY <1>0 DEF DBTypeOK
<1>3. CASE FetchCondtions(w)
  <2>1. PICK size, got :
          Goto(w, IF got = size THEN "indexes" ELSE "condtionFailed",
               [c EXCEPT !.condtion = got > 0, !.source = @ \cup {version[m]}])
    BY <1>3 DEF FetchCondtions
  <2>2. [c EXCEPT !.condtion = got > 0, !.source = @ \cup {version[m]}] \in Calc
    <3>1. ASSUME NEW condtion \in BOOLEAN
          PROVE  [c EXCEPT !.condtion = condtion, !.source = @ \cup {version[m]}] \in Calc
      BY <1>a DEF Calc, Sources
    <3>2. (got > 0) \in BOOLEAN
      OBVIOUS
    <3>. QED  BY <3>1, <3>2, Zenon
  <2>3. (IF got = size THEN "indexes" ELSE "condtionFailed") \in Step
    BY DEF Step
  <2>4. DBTypeOK'
    BY <1>0, <1>3, DBUnchanged DEF FetchCondtions
  <2>. QED  BY ONLY <1>1, <2>1, <2>2, <2>3, <2>4
<1>4. CASE CondtionFailed(w)
  <2>1. DBTypeOK'
    BY <1>0, <1>4, DBTypes DEF CondtionFailed, XL_Status
  <2>. QED  BY <1>1, <1>4, <2>1 DEF CondtionFailed, Step
<1>5. CASE FetchIndexes(w)
  <2>1. PICK done \in BOOLEAN, points \in BOOLEAN :
          LET size == IF done THEN Current(m).indexes ELSE 0 IN
          \E got \in 0..size :
            Goto(w, IF got = size THEN AfterFilter(Type(c), size, points) ELSE "indexFailed",
                 [c EXCEPT !.indexes = size, !.points = points,
                           !.source = @ \cup {version[m]}])
    BY <1>5 DEF FetchIndexes
  <2>. DEFINE size == IF done THEN Current(m).indexes ELSE 0
  <2>2. size \in Nat
    BY <1>0, CurrentType DEF Configuration
  <2>3. [c EXCEPT !.indexes = size, !.points = points, !.source = @ \cup {version[m]}]
          \in Calc
    BY <1>a, <2>2 DEF Calc, Sources
  <2>4. "indexFailed" \in Step
    BY DEF Step
  <2>5. DBTypeOK'
    BY <1>0, <1>5, DBUnchanged DEF FetchIndexes
  <2>6. PICK got \in 0..size :
          Goto(w, IF got = size THEN AfterFilter(Type(c), size, points) ELSE "indexFailed",
               [c EXCEPT !.indexes = size, !.points = points, !.source = @ \cup {version[m]}])
    BY <2>1
  <2>. QED  BY ONLY <1>1, <2>3, <2>4, <2>5, <2>6, AfterFilterType
<1>6. CASE IndexFailed(w)
  <2>1. DBTypeOK'
    BY <1>0, <1>6, DBTypes DEF IndexFailed, XL_Status
  <2>. QED  BY <1>1, <1>6, <2>1, AfterFilterType DEF IndexFailed
<1>7. CASE ReplaceEquation(w)
  <2>1. DBTypeOK'
    BY <1>0, <1>7, DBTypes DEF ReplaceEquation
  <2>. QED  BY <1>1, <1>7, <2>1 DEF ReplaceEquation, Step
<1>8. CASE StoreEquation(w)
  <2>1. DBTypeOK'
    BY <1>0, <1>8, DBTypes DEF StoreEquation
  <2>. QED  BY <1>1, <1>8, <2>1 DEF StoreEquation, Step
<1>9. CASE StoreFilterData(w)
  <2>1. DBTypeOK'
    BY <1>0, <1>9, DBTypes, DBUnchanged DEF StoreFilterData, TransactionFails, Sources
  <2>. QED  BY <1>1, <1>9, <2>1 DEF StoreFilterData, Step
<1>10. CASE CommitPoints(w)
  <2>1. DBTypeOK'
    BY <1>0, <1>10, DBTypes DEF CommitPoints
  <2>. QED  BY <1>1, <1>10, <2>1 DEF CommitPoints, Step
<1>11. CASE ReplaceHistogram(w)
  <2>1. DBTypeOK'
    BY <1>0, <1>11, DBTypes DEF ReplaceHistogram
  <2>2. PICK rows \in 0..CngkRows :
          Goto(w, "insertCngk", [c EXCEPT !.rows = rows, !.condtion = FALSE])
    BY <1>11 DEF ReplaceHistogram
  <2>3. [c EXCEPT !.rows = rows, !.condtion = FALSE] \in Calc
    <3>1. rows \in Nat
      BY SizesAssumption
    <3>. QED  BY <3>1, Zenon DEF Calc
  <2>. QED  BY <1>1, <2>1, <2>2, <2>3 DEF Step
<1>12. CASE StoreHistogram(w)
  <2>1. DBTypeOK'
    BY <1>0, <1>12, DBTypes DEF StoreHistogram
  <2>2. ASSUME c.rows > 0  PROVE [c EXCEPT !.rows = @ - 1] \in Calc
    BY <2>2 DEF Calc
  <2>. QED  BY <1>1, <1>12, <2>1, <2>2 DEF StoreHistogram, Step
<1>13. CASE FitDistributions(w)
  <2>1. DBTypeOK'
    BY <1>0, <1>13, DBUnchanged DEF FitDistributions
  <2>. QED  BY <1>1, <1>13, <2>1 DEF FitDistributions, Step
<1>14. CASE TrainModel(w)
  <2>1. DBTypeOK'
    BY <1>0, <1>14, DBUnchanged DEF TrainModel
  <2>. QED  BY <1>1, <1>14, <2>1 DEF TrainModel, Step
<1>15. CASE FitXnsyResult(w)
  <2>1. DBTypeOK'
    BY <1>0, <1>15, DBUnchanged DEF FitXnsyResult
  <2>. QED  BY <1>1, <1>15, <2>1 DEF FitXnsyResult, Step
<1>16. CASE Complete(w)
  <2>1. DBTypeOK'
    BY <1>0, <1>16, DBTypes DEF Complete, XL_Status
  <2>. QED  BY <1>1, <1>16, <2>1 DEF Complete, Step
<1>17. CASE Fail(w)
  <2>1. DBTypeOK'
    BY <1>0, <1>17, DBTypes DEF Fail, XL_Status
  <2>. QED  BY <1>1, <1>17, <2>1 DEF Fail, Step
<1>. QED
  BY <1>2, <1>3, <1>4, <1>5, <1>6, <1>7, <1>8, <1>9, <1>10, <1>11, <1>12, <1>13,
     <1>14, <1>15, <1>16, <1>17 DEF RunStep

\* A run moves alone, and only while it is active.
LEMMA RunFrame ==
  ASSUME NEW w \in Workers, RunStep(w)
  PROVE  /\ pc[w] # "idle"
         /\ UNCHANGED mainVars
         /\ \E next, c : Goto(w, next, c)
<1>. USE DEF Goto
<1>1. ASSUME pc[w] # "idle", \E next, c : Goto(w, next, c)
      PROVE  /\ pc[w] # "idle"
             /\ UNCHANGED mainVars
             /\ \E next, c : Goto(w, next, c)
  BY <1>1
<1>2. ASSUME StartCalcModel(w) \/ CondtionFailed(w) \/ IndexFailed(w) \/ ReplaceEquation(w)
               \/ CommitPoints(w) \/ Complete(w) \/ Fail(w)
      PROVE  pc[w] # "idle" /\ \E next, c : Goto(w, next, c)
  BY <1>2 DEF StartCalcModel, CondtionFailed, IndexFailed, ReplaceEquation, CommitPoints,
     Complete, Fail
<1>3. ASSUME StoreEquation(w) \/ StoreFilterData(w) \/ StoreHistogram(w)
               \/ FitDistributions(w) \/ ReplaceHistogram(w)
      PROVE  pc[w] # "idle" /\ \E next, c : Goto(w, next, c)
  BY <1>3 DEF StoreEquation, StoreFilterData, StoreHistogram, FitDistributions, ReplaceHistogram
<1>4. ASSUME FetchCondtions(w) \/ FetchIndexes(w) \/ TrainModel(w) \/ FitXnsyResult(w)
      PROVE  pc[w] # "idle" /\ \E next, c : Goto(w, next, c)
  BY <1>4 DEF FetchCondtions, FetchIndexes, TrainModel, FitXnsyResult
<1>. QED  BY <1>1, <1>2, <1>3, <1>4 DEF RunStep

\* Every step of timerEvent keeps the types.
LEMMA TimerTypeStep ==
  ASSUME TypeInv, TimerStep
  PROVE  TypeInv'
<1>. USE SizesAssumption DEF TypeInv, TypeOK, ModelIds, runVars
<1>1. NoSnapshot \in [ModelIds -> Row]
  BY DEF NoSnapshot, NoRow, Row, XL_Status, Versions
<1>2. CASE QueryCalcModel
  <2>1. [m \in ModelIds |-> [status |-> status[m], version |-> version[m]]]
          \in [ModelIds -> Row]
    BY DEF Row, DBTypeOK
  <2>2. DBTypeOK'
    BY <1>2 DEF QueryCalcModel, IsOpen, DBTypeOK, tables
  <2>. QED  BY <1>1, <1>2, <2>1, <2>2 DEF QueryCalcModel
<1>3. CASE CheckPool
  BY <1>3, DBUnchanged DEF CheckPool
<1>4. CASE Launch
  <2>1. PICK w \in Workers \ Active :
          /\ pc' = [pc EXCEPT ![w] = "start"]
          /\ calc' = [calc EXCEPT ![w] = NewCalc(cursor, snapshot[cursor].version)]
    BY <1>4 DEF Launch
  <2>2. NewCalc(cursor, snapshot[cursor].version) \in Calc
    BY <1>4 DEF Launch, NewCalc, Calc, Row, Sources
  <2>3. "start" \in Step
    BY DEF Step
  <2>. QED  BY <1>4, <2>1, <2>2, <2>3, DBUnchanged DEF Launch
<1>5. CASE PredictModel
  BY <1>5, DBUnchanged DEF PredictModel
<1>6. CASE SkipModel
  BY <1>6, DBUnchanged DEF SkipModel
<1>7. CASE EndOfEvent
  BY <1>1, <1>7, DBUnchanged DEF EndOfEvent
<1>. QED  BY <1>2, <1>3, <1>4, <1>5, <1>6, <1>7 DEF TimerStep

\* So does every step of the service's controls and of the environment.
LEMMA OtherTypeStep ==
  ASSUME TypeInv,
         \/ Stop \/ Exit \/ Crash \/ Start \/ Disconnect
         \/ \E m \in ModelIds : Submit(m) \/ Edit(m)
  PROVE  TypeInv'
<1>. USE SizesAssumption DEF TypeInv, TypeOK, ModelIds, runVars, mainVars
<1>1. CASE Stop
  BY <1>1, DBUnchanged DEF Stop
<1>2. CASE Exit
  BY <1>2 DEF Exit, CloseConnection, DBTypeOK, tables, NoTx, Sources
<1>3. CASE Crash
  <2>1. NoSnapshot \in [ModelIds -> Row] /\ NoCalc \in Calc /\ "idle" \in Step
    BY DEF NoSnapshot, NoRow, Row, XL_Status, Versions, NoCalc, NewCalc, Calc, Step, Sources
  <2>2. DBTypeOK'
    BY <1>3 DEF Crash, CloseConnection, DBTypeOK, tables, NoTx, Sources
  <2>. QED  BY <1>3, <2>1, <2>2 DEF Crash
<1>4. CASE Start
  BY <1>4 DEF Start, Open, DBTypeOK, tables
<1>5. CASE Disconnect
  BY <1>5 DEF Disconnect, LoseConnection, DBTypeOK, tables, NoTx, Sources
<1>6. ASSUME NEW m \in ModelIds, Submit(m) \/ Edit(m)  PROVE TypeInv'
  <2>1. DBTypeOK'
    <3>1. CASE Submit(m)
      BY <3>1 DEF Submit, SubmitRow, DBTypeOK, XL_Status
    <3>2. CASE Edit(m)
      BY <3>2 DEF Edit, EditRow, DBTypeOK
    <3>. QED  BY <1>6, <3>1, <3>2
  <2>. QED  BY <1>6, <2>1 DEF Submit, Edit
<1>. QED  BY <1>1, <1>2, <1>3, <1>4, <1>5, <1>6

\* Every step of the service and its environment keeps the types.
LEMMA TypeStep == TypeInv /\ [Next]_vars => TypeInv'
<1>. SUFFICES ASSUME TypeInv, [Next]_vars
              PROVE  TypeInv'
  OBVIOUS
<1>1. ASSUME NEW w \in Workers, RunStep(w)  PROVE TypeInv'
  BY <1>1, RunFrame, RunTypeStep DEF TypeInv, mainVars
<1>2. CASE UNCHANGED vars
  BY <1>2, DBUnchanged DEF TypeInv, TypeOK, vars, mainVars, runVars
<1>. QED  BY <1>1, <1>2, TimerTypeStep, OtherTypeStep DEF Next

\* Every state the service reaches has the types of TypeOK.
THEOREM TypeCorrect == Spec => []TypeOK
<1>1. Init => TypeInv
  BY TypeInit
<1>2. TypeInv /\ [Next]_vars => TypeInv'
  BY TypeStep
<1>3. TypeInv => TypeOK
  BY DEF TypeInv
<1>. QED  BY <1>1, <1>2, <1>3, PTL DEF Spec

(***************************************************************************)
(* The bound on the pool.                                                  *)
(***************************************************************************)

\* PoolBound alone is not inductive: between activeThreadCount() and the start of
\* the run a thread must stay free, which holds as only the timer starts runs.
PoolInv == PoolBound /\ (timer = "launch" => Cardinality(Active) < MaxThreadCount)

\* The runs can be counted: they are threads of the pool (activeThreadCount).
LEMMA ActiveFinite == IsFiniteSet(Active) /\ Cardinality(Active) \in Nat
<1>1. IsFiniteSet(Active)
  BY PoolAssumption, FS_Subset DEF Active
<1>. QED  BY <1>1, FS_CardinalityType

\* A step that starts no run leaves no more runs active.
LEMMA NoMoreActive ==
  ASSUME Active' \subseteq Active
  PROVE  Cardinality(Active') \in Nat /\ Cardinality(Active') <= Cardinality(Active)
<1>1. IsFiniteSet(Active)
  BY ActiveFinite
<1>2. IsFiniteSet(Active') /\ Cardinality(Active') <= Cardinality(Active)
  BY <1>1, FS_Subset
<1>. QED  BY <1>2, FS_CardinalityType

\* Only Launch adds a run, and only after CheckPool has found a thread free.
LEMMA PoolStep == TypeInv /\ PoolInv /\ [Next]_vars => PoolInv'
<1>. SUFFICES ASSUME TypeInv, PoolInv, [Next]_vars
              PROVE  PoolInv'
  OBVIOUS
<1>. USE PoolAssumption, ActiveFinite
<1>1. ASSUME Active' \subseteq Active, timer' = "launch" => timer = "launch"
      PROVE  PoolInv'
  BY <1>1, NoMoreActive DEF PoolInv, PoolBound
<1>2. ASSUME NEW w \in Workers, RunStep(w)  PROVE PoolInv'
  <2>1. PICK next, c : Goto(w, next, c)
    BY <1>2, RunFrame
  <2>2. Active' \subseteq Active
    BY <1>2, <2>1, RunFrame DEF Active, Goto, TypeInv, TypeOK
  <2>. QED  BY <1>1, <2>1, <2>2 DEF Goto, mainVars
<1>3. CASE CheckPool
  <2>1. Active' = Active
    BY <1>3 DEF CheckPool, runVars, Active
  <2>2. timer' = "launch" => Cardinality(Active) < MaxThreadCount
    BY <1>3 DEF CheckPool
  <2>. QED  BY <2>1, <2>2 DEF PoolInv, PoolBound
<1>4. CASE Launch
  <2>1. PICK w \in Workers \ Active : pc' = [pc EXCEPT ![w] = "start"]
    BY <1>4 DEF Launch
  <2>2. Active' = Active \cup {w}
    BY <2>1 DEF Active, TypeInv, TypeOK
  <2>3. Cardinality(Active') = Cardinality(Active) + 1
    BY <2>1, <2>2, FS_AddElement
  <2>. QED  BY <1>4, <2>3 DEF Launch, PoolInv, PoolBound
<1>5. CASE QueryCalcModel \/ PredictModel \/ SkipModel \/ EndOfEvent
  BY <1>1, <1>5 DEF QueryCalcModel, PredictModel, SkipModel, EndOfEvent, runVars, Active
<1>6. CASE Stop \/ Exit \/ Start \/ Disconnect
  BY <1>1, <1>6 DEF Stop, Exit, Start, Disconnect, runVars, mainVars, Active
<1>7. CASE Crash
  BY <1>1, <1>7 DEF Crash, Active
<1>8. CASE \E m \in ModelIds : Submit(m) \/ Edit(m)
  BY <1>1, <1>8 DEF Submit, Edit, runVars, mainVars, Active
<1>9. CASE UNCHANGED vars
  BY <1>1, <1>9 DEF vars, runVars, mainVars, Active
<1>. QED  BY <1>2, <1>3, <1>4, <1>5, <1>6, <1>7, <1>8, <1>9 DEF Next, TimerStep

\* At most MaxThreadCount runs are handed to the pool: none ever waits in its queue.
THEOREM PoolBounded == Spec => []PoolBound
<1>1. Init => PoolInv
  <2>1. Init => Active = {}
    BY DEF Init, Active
  <2>. QED  BY <2>1, FS_EmptySet, PoolAssumption DEF Init, PoolInv, PoolBound
<1>2. TypeInv /\ PoolInv /\ [Next]_vars => TypeInv' /\ PoolInv'
  BY TypeStep, PoolStep
<1>3. PoolInv => PoolBound
  BY DEF PoolInv
<1>. QED  BY <1>1, <1>2, <1>3, TypeInit, PTL DEF Spec

(***************************************************************************)
(* The equation of a model, and the transaction of insertFilterData.       *)
(***************************************************************************)

\* The steps at which a run holds mutex_.
Holding == {"insertEquation", "commit", "insertCngk"}

\* EquationGap says why a second equation is never inserted; to be inductive it
\* needs that a service that is down has no runs (start() opens the connection
\* without mutex_).  The transaction belongs to a run at its commit.
DeletesDone == "delete" \notin Refused

SharedInv ==
  /\ timer = "down" => Active = {}
  /\ MutexHeld
  /\ DeletesDone => EquationGap /\ EquationUnique
  /\ tx.open => mutex \in Workers /\ pc[mutex] = "commit"

\* A step of a run that neither takes, holds nor releases mutex_.
LEMMA UnlockedStep ==
  ASSUME TypeInv, SharedInv, NEW w \in Workers, NEW next, NEW c, Goto(w, next, c),
         next \notin Holding, pc[w] \notin Holding, pc[w] # "idle",
         UNCHANGED <<equation, online, mutex, tx>>
  PROVE  SharedInv'
BY DEF TypeInv, TypeOK, SharedInv, Goto, mainVars, Active, MutexHeld, EquationGap,
   EquationUnique, Holding

\* A step of startCalcModel keeps SharedInv: the several statements of a method are
\* executed under the mutex, and the connection does not come back between them.
LEMMA RunSharedStep ==
  ASSUME TypeInv, SharedInv, NEW w \in Workers, RunStep(w)
  PROVE  SharedInv'
<1>. DEFINE m == calc[w].model
<1>0. m \in ModelIds /\ equation \in [ModelIds -> Seq(Sources)] /\ w # Free
  BY CalcType, FreeAssumption DEF TypeInv, TypeOK, DBTypeOK
<1>a. timer # "down"
  BY RunFrame DEF SharedInv, Active
<1>b. mutex = Free => \A v \in Workers : pc[v] \notin Holding
  BY FreeAssumption DEF SharedInv, MutexHeld, Holding
<1>1. CASE StartCalcModel(w) \/ CondtionFailed(w) \/ IndexFailed(w) \/ Complete(w) \/ Fail(w)
  <2>1. \A type, points, size : AfterFilter(type, size, points) \notin Holding
    BY DEF AfterFilter, CurveResult, SurfaceResult, Holding
  <2>. QED
    BY <1>1, <2>1, UnlockedStep DEF StartCalcModel, CondtionFailed, IndexFailed, Complete, Fail,
       UpdateCalcModelStatus, Holding
<1>2. CASE FetchCondtions(w)
  BY <1>2, UnlockedStep DEF FetchCondtions, Holding, dbVars, tables
<1>3. CASE FetchIndexes(w)
  <2>1. \A type, points, size : AfterFilter(type, size, points) \notin Holding
    BY DEF AfterFilter, CurveResult, SurfaceResult, Holding
  <2>. QED  BY <1>3, <2>1, UnlockedStep DEF FetchIndexes, Holding, dbVars, tables
<1>4. CASE FitDistributions(w) \/ TrainModel(w) \/ FitXnsyResult(w)
  BY <1>4, UnlockedStep DEF FitDistributions, TrainModel, FitXnsyResult, Holding, dbVars, tables
<1>5. CASE ReplaceEquation(w)
  <2>1. /\ mutex = Free /\ mutex' = w
        /\ UNCHANGED <<online, tx>>
        /\ Goto(w, "insertEquation", calc[w])
    BY <1>5 DEF ReplaceEquation, DeleteEquation
  <2>2. ~tx.open
    BY <2>1, FreeAssumption DEF SharedInv
  <2>3. MutexHeld'
    BY <1>0, <1>b, <2>1 DEF MutexHeld, Holding, Goto, TypeInv, TypeOK
  <2>4. ASSUME DeletesDone  PROVE EquationGap' /\ EquationUnique'
    <3>1. equation' = IF online THEN [equation EXCEPT ![m] = << >>] ELSE equation
      BY <1>5, <2>4 DEF ReplaceEquation, DeleteEquation, Outcome, Outcomes, Exec, DeletesDone
    <3>2. EquationGap'
      BY <1>0, <1>b, <2>1, <2>3, <3>1 DEF EquationGap, Holding, Goto, TypeInv, TypeOK
    <3>. QED  BY <1>0, <2>4, <3>1, <3>2 DEF EquationUnique, SharedInv
  <2>. QED  BY <1>a, <2>1, <2>2, <2>3, <2>4 DEF SharedInv, Goto, mainVars
<1>6. CASE StoreEquation(w)
  <2>1. PICK done \in BOOLEAN :
          /\ InsertEquation(w, m, calc[w].source, done)
          /\ \E next : next \notin Holding /\ Goto(w, next, calc[w])
    BY <1>6 DEF StoreEquation, Holding
  <2>2. /\ pc[w] = "insertEquation"
        /\ mutex = w /\ mutex' = Free
        /\ UNCHANGED <<online, tx>>
    BY <1>6, <2>1 DEF StoreEquation, InsertEquation
  <2>3. ~tx.open
    BY <2>2 DEF SharedInv
  <2>4. MutexHeld'
    BY <1>0, <2>1, <2>2 DEF MutexHeld, SharedInv, Goto, TypeInv, TypeOK, Holding
  <2>5. ASSUME DeletesDone  PROVE EquationGap' /\ EquationUnique'
    <3>1. /\ equation' = IF done THEN [equation EXCEPT ![m] = Append(equation[m], calc[w].source)]
                                 ELSE equation
          /\ done => online
      BY <2>1 DEF InsertEquation, Exec, Outcome, Outcomes
    <3>2. done => equation[m] = << >>
      BY <2>2, <2>5, <3>1 DEF SharedInv, EquationGap
    <3>3. done => Len(Append(equation[m], calc[w].source)) = 1
      BY <1>0, <3>2, CalcType DEF TypeInv
    <3>4. \A v \in Workers : pc'[v] # "insertEquation"
      BY <1>0, <2>1, <2>2 DEF SharedInv, MutexHeld, Goto, TypeInv, TypeOK, Holding
    <3>5. EquationGap'
      BY <2>4, <3>4 DEF EquationGap
    <3>6. EquationUnique'
      BY <1>0, <2>5, <3>1, <3>3 DEF EquationUnique, SharedInv
    <3>. QED  BY <3>5, <3>6
  <2>. QED  BY <1>a, <2>1, <2>2, <2>3, <2>4, <2>5 DEF SharedInv, Goto, mainVars
<1>7. CASE StoreFilterData(w)
  <2>1. CASE TransactionFails
    BY <1>7, <2>1, UnlockedStep DEF StoreFilterData, TransactionFails, BeginFilterData, Holding, dbVars, tables
  <2>2. CASE ~TransactionFails
    <3>1. /\ mutex = Free /\ mutex' = w
          /\ UNCHANGED <<equation, online>>
          /\ Goto(w, "commit", calc[w])
      BY <1>7, <2>2 DEF StoreFilterData, BeginFilterData, tables
    <3>. QED
      BY <1>0, <1>a, <1>b, <3>1 DEF SharedInv, MutexHeld, EquationGap, EquationUnique, Holding, Goto, mainVars,
         TypeInv, TypeOK
  <2>. QED  BY <2>1, <2>2
<1>8. CASE CommitPoints(w)
  <2>1. /\ pc[w] = "commit"
        /\ mutex = w /\ mutex' = Free /\ tx' = NoTx
        /\ UNCHANGED <<equation, online>>
        /\ Goto(w, "complete", calc[w])
    BY <1>8 DEF CommitPoints, CommitFilterData
  <2>. QED
    BY <1>0, <1>a, <2>1 DEF SharedInv, MutexHeld, EquationGap, EquationUnique, NoTx, Goto, mainVars,
       TypeInv, TypeOK
<1>9. CASE ReplaceHistogram(w)
  <2>1. /\ mutex = Free /\ mutex' = w
        /\ UNCHANGED <<equation, online, tx>>
        /\ \E c : Goto(w, "insertCngk", c)
    BY <1>9 DEF ReplaceHistogram, DeleteCngkData
  <2>2. ~tx.open
    BY <2>1, FreeAssumption DEF SharedInv
  <2>. QED
    BY <1>0, <1>a, <1>b, <2>1, <2>2 DEF SharedInv, MutexHeld, EquationGap, EquationUnique, Holding, Goto,
       mainVars, TypeInv, TypeOK
<1>10. CASE StoreHistogram(w)
  <2>1. /\ pc[w] = "insertCngk"
        /\ mutex = w
        /\ UNCHANGED <<equation, online, tx>>
        /\ \/ mutex' = Free /\ Goto(w, "weibull", calc[w])
           \/ mutex' = w /\ \E c : Goto(w, "insertCngk", c)
    BY <1>10 DEF StoreHistogram, InsertCngkRow, ReturnCngkData, tables
  <2>2. ~tx.open
    BY <2>1 DEF SharedInv
  <2>. QED
    BY <1>0, <1>a, <2>1, <2>2 DEF SharedInv, MutexHeld, EquationGap, EquationUnique, Goto, mainVars, TypeInv, TypeOK
<1>. QED
  BY <1>1, <1>2, <1>3, <1>4, <1>5, <1>6, <1>7, <1>8, <1>9, <1>10 DEF RunStep

\* The connection comes back only under mutex_, or when no run is active.
LEMMA SharedStep == TypeInv /\ SharedInv /\ [Next]_vars => SharedInv'
<1>. SUFFICES ASSUME TypeInv, SharedInv, [Next]_vars
              PROVE  SharedInv'
  OBVIOUS
<1>. USE FreeAssumption DEF SharedInv, MutexHeld, EquationGap, EquationUnique, Active
<1>1. ASSUME NEW w \in Workers, RunStep(w)  PROVE SharedInv'
  BY <1>1, RunSharedStep
<1>2. CASE QueryCalcModel
  <2>1. mutex = Free /\ UNCHANGED <<equation, mutex, tx, pc, calc>> /\ timer' = "scan"
    BY <1>2 DEF QueryCalcModel, IsOpen, tables, runVars
  <2>. QED  BY <2>1
<1>3. CASE CheckPool \/ PredictModel \/ SkipModel \/ EndOfEvent
  BY <1>3 DEF CheckPool, PredictModel, SkipModel, EndOfEvent, dbVars, tables, runVars
<1>4. CASE Launch
  BY <1>4 DEF Launch, dbVars, tables, TypeInv, TypeOK
<1>5. CASE Stop
  BY <1>5 DEF Stop, dbVars, tables, runVars
<1>6. CASE Exit \/ Crash
  BY <1>6 DEF Exit, Crash, CloseConnection, NoTx, tables, runVars
<1>7. CASE Start
  BY <1>7 DEF Start, Open, tables, runVars
<1>8. CASE Disconnect
  BY <1>8 DEF Disconnect, LoseConnection, NoTx, tables, runVars, mainVars
<1>9. CASE \E m \in ModelIds : Submit(m) \/ Edit(m)
  BY <1>9 DEF Submit, SubmitRow, Edit, EditRow, runVars, mainVars
<1>10. CASE UNCHANGED vars
  BY <1>10 DEF vars, dbVars, tables, runVars, mainVars
<1>. QED
  BY <1>1, <1>2, <1>3, <1>4, <1>5, <1>6, <1>7, <1>8, <1>9, <1>10 DEF Next, TimerStep

\* What holds of the mutex, the transaction and the equations whenever the service runs.
LEMMA SharedInvariant == Spec => [](TypeInv /\ SharedInv)
<1>1. Init => SharedInv
  BY DEF Init, DBInit, NoTx, SharedInv, Active, MutexHeld, EquationGap, EquationUnique
<1>. QED  BY <1>1, TypeInit, TypeStep, SharedStep, PTL DEF Spec

\* A model never has two equations, although insertEquation is no transaction, where
\* the server refuses no DELETE.
THEOREM OneEquation ==
  ASSUME "delete" \notin Refused
  PROVE  Spec => []EquationUnique
<1>1. SharedInv => EquationUnique
  BY DEF SharedInv, DeletesDone
<1>. QED  BY <1>1, SharedInvariant, PTL

\* Under the same assumption a run that inserts over a usable connection finds no
\* equation of its model (insertEquation).
THEOREM NoEquationInGap ==
  ASSUME "delete" \notin Refused
  PROVE  Spec => []EquationGap
<1>1. SharedInv => EquationGap
  BY DEF SharedInv, DeletesDone
<1>. QED  BY <1>1, SharedInvariant, PTL

\* While a transaction is open no other run changes a table over its connection.
THEOREM IsolatedTransaction == Spec => TransactionIsolation
<1>. DEFINE Isolated ==
       (tx.open /\ \E w \in Workers : w # mutex /\ <<pc[w], calc[w]>>' # <<pc[w], calc[w]>>)
         => UNCHANGED tables
<1>1. TypeInv /\ SharedInv /\ [Next]_vars => [Isolated]_vars
  <2>. SUFFICES ASSUME TypeInv, SharedInv, Next, tx.open,
                       NEW w \in Workers, w # mutex,
                       <<pc[w], calc[w]>>' # <<pc[w], calc[w]>>
                PROVE  UNCHANGED tables
    BY DEF vars
  <2>1. mutex # Free
    BY FreeAssumption DEF SharedInv
  <2>2. ASSUME NEW v \in Workers, RunStep(v)  PROVE UNCHANGED tables
    <3>1. v = w
      BY <2>2, RunFrame DEF Goto, TypeInv, TypeOK
    <3>. QED
      BY <2>1, <2>2, <3>1 DEF RunStep, StartCalcModel, FetchCondtions, CondtionFailed,
         FetchIndexes, IndexFailed, ReplaceEquation, StoreEquation, StoreFilterData,
         CommitPoints, ReplaceHistogram, StoreHistogram, FitDistributions, TrainModel,
         FitXnsyResult, Complete, Fail, UpdateCalcModelStatus, DeleteEquation,
         InsertEquation, BeginFilterData, TransactionFails, CommitFilterData,
         DeleteCngkData, InsertCngkRow, ReturnCngkData, dbVars
  <2>3. CASE TimerStep
    BY <2>3 DEF TimerStep, QueryCalcModel, IsOpen, CheckPool, Launch, PredictModel, SkipModel,
       EndOfEvent, dbVars
  <2>4. CASE Stop \/ Exit \/ Crash \/ Start \/ Disconnect
    BY <2>4 DEF Stop, Exit, Crash, Start, Disconnect, CloseConnection, Open,
       LoseConnection, dbVars
  <2>5. CASE \E m \in ModelIds : Submit(m) \/ Edit(m)
    BY <2>5 DEF Submit, Edit, runVars
  <2>. QED  BY <2>2, <2>3, <2>4, <2>5 DEF Next
<1>. QED  BY <1>1, SharedInvariant, PTL DEF Spec, TransactionIsolation

(***************************************************************************)
(* The rows of the load histogram.                                         *)
(***************************************************************************)

\* A run that inserts over a usable connection finds only rows of its own, and
\* no more than it has already inserted.
HistogramInv ==
  /\ HistogramOfOneRun
  /\ \A w \in Workers :
       pc[w] = "insertCngk" /\ online =>
         /\ Len(cngkData[calc[w].model]) + calc[w].rows <= CngkRows
         /\ \A i \in DOMAIN cngkData[calc[w].model] :
              cngkData[calc[w].model][i] = calc[w].source

\* A step of startCalcModel keeps HistogramInv: the bars inserted under the mutex are
\* counted down from at most CngkRows, over a table the run has emptied itself.
LEMMA RunHistogramStep ==
  ASSUME DeletesDone, TypeInv, SharedInv, HistogramInv, NEW w \in Workers, RunStep(w)
  PROVE  HistogramInv'
<1>. DEFINE m == calc[w].model
            v == calc[w].source
<1>0. m \in ModelIds /\ v \in Sources /\ cngkData \in [ModelIds -> Seq(Sources)] /\ CngkRows \in Nat
  BY CalcType, SizesAssumption DEF TypeInv, TypeOK, DBTypeOK
<1>1. mutex = Free => \A u \in Workers : pc[u] # "insertCngk"
  BY FreeAssumption DEF SharedInv, MutexHeld
<1>2. CASE ReplaceHistogram(w)
  <2>1. PICK rows \in 0..CngkRows :
          Goto(w, "insertCngk", [calc[w] EXCEPT !.rows = rows, !.condtion = FALSE])
    BY <1>2 DEF ReplaceHistogram
  <2>2. /\ mutex = Free
        /\ cngkData' = IF online THEN [cngkData EXCEPT ![m] = << >>] ELSE cngkData
        /\ UNCHANGED online
    BY <1>2 DEF ReplaceHistogram, DeleteCngkData, Exec, Outcome, Outcomes, DeletesDone
  <2>3. HistogramOfOneRun'
    BY <1>0, <2>2 DEF HistogramInv, HistogramOfOneRun
  <2>4. calc'[w].model = m /\ calc'[w].rows = rows
    BY <2>1 DEF Goto, TypeInv, TypeOK, Calc
  <2>5. \A u \in Workers : pc'[u] = "insertCngk" => u = w
    BY <1>1, <2>1, <2>2 DEF Goto, TypeInv, TypeOK
  <2>6. online' => Len(cngkData'[m]) = 0 /\ \A i \in DOMAIN cngkData'[m] : FALSE
    BY <1>0, <2>2
  <2>7. rows \in Nat /\ rows <= CngkRows
    BY <1>0
  <2>8. CngkRows \in Nat
    BY <1>0
  <2>9. ASSUME NEW u \in Workers, pc'[u] = "insertCngk", online'
        PROVE  /\ Len(cngkData'[calc'[u].model]) + calc'[u].rows <= CngkRows
               /\ \A i \in DOMAIN cngkData'[calc'[u].model] :
                    cngkData'[calc'[u].model][i] = calc'[u].source
    <3>1. u = w
      BY <2>5, <2>9
    <3>2. calc'[u].model = m /\ calc'[u].rows = rows
      BY <2>4, <3>1
    <3>3. Len(cngkData'[m]) = 0 /\ \A i \in DOMAIN cngkData'[m] : FALSE
      BY <2>6, <2>9
    <3>4. 0 + rows <= CngkRows
      BY <2>7, <2>8
    <3>. QED  BY <3>2, <3>3, <3>4
  <2>. QED  BY <2>3, <2>9 DEF HistogramInv
<1>3. CASE StoreHistogram(w) /\ calc[w].rows > 0
  <2>1. /\ pc[w] = "insertCngk" /\ mutex = w
        /\ \/ UNCHANGED cngkData
           \/ online /\ cngkData' = [cngkData EXCEPT ![m] = Append(cngkData[m], v)]
        /\ UNCHANGED online
        /\ Goto(w, "insertCngk", [calc[w] EXCEPT !.rows = @ - 1])
    <3>1. /\ InsertCngkRow(w, m, v)
          /\ pc[w] = "insertCngk"
          /\ Goto(w, "insertCngk", [calc[w] EXCEPT !.rows = @ - 1])
      BY <1>3, CalcType DEF StoreHistogram, TypeInv
    <3>. QED  BY <3>1 DEF InsertCngkRow, Exec, Outcome, Outcomes
  <2>2. calc'[w].model = m /\ calc'[w].source = v /\ calc'[w].rows = calc[w].rows - 1
    BY <2>1 DEF Goto, TypeInv, TypeOK, Calc
  <2>3. \A u \in Workers : pc'[u] = "insertCngk" => u = w
    BY <2>1 DEF Goto, TypeInv, TypeOK, SharedInv, MutexHeld
  <2>4. CASE UNCHANGED cngkData
    <3>1. calc[w].rows \in Nat /\ Len(cngkData[m]) \in Nat
      BY <1>0, CalcType DEF TypeInv
    <3>2. online => /\ Len(cngkData[m]) + calc[w].rows <= CngkRows
                    /\ \A i \in DOMAIN cngkData[m] : cngkData[m][i] = v
      BY <2>1 DEF HistogramInv
    <3>3. online' => /\ Len(cngkData'[m]) + calc'[w].rows <= CngkRows
                     /\ \A i \in DOMAIN cngkData'[m] : cngkData'[m][i] = v
      BY <1>0, <2>1, <2>2, <2>4, <3>1, <3>2
    <3>4. HistogramOfOneRun'
      BY <2>4 DEF HistogramInv, HistogramOfOneRun
    <3>. QED  BY <2>2, <2>3, <3>3, <3>4 DEF HistogramInv
  <2>5. CASE online /\ cngkData' = [cngkData EXCEPT ![m] = Append(cngkData[m], v)]
    <3>1. /\ cngkData[m] \in Seq(Sources)
          /\ Len(cngkData[m]) + calc[w].rows <= CngkRows
          /\ \A i \in DOMAIN cngkData[m] : cngkData[m][i] = v
      BY <1>0, <2>1, <2>5 DEF HistogramInv
    <3>2. cngkData'[m] = Append(cngkData[m], v)
      BY <1>0, <2>1, <2>5
    <3>3. /\ Len(cngkData'[m]) + calc'[w].rows <= CngkRows
          /\ Len(cngkData'[m]) <= CngkRows
          /\ \A i \in DOMAIN cngkData'[m] : cngkData'[m][i] = v
      BY <1>0, <1>3, <2>2, <3>1, <3>2, CalcType, SMTT(30) DEF TypeInv
    <3>4. \A n \in ModelIds \ {m} : cngkData'[n] = cngkData[n]
      BY <1>0, <2>1
    <3>5. HistogramOfOneRun'
      BY <3>3, <3>4 DEF HistogramInv, HistogramOfOneRun
    <3>. QED  BY <2>2, <2>3, <3>3, <3>5 DEF HistogramInv
  <2>. QED  BY <2>1, <2>4, <2>5
<1>4. CASE ~ReplaceHistogram(w) /\ ~(StoreHistogram(w) /\ calc[w].rows > 0)
  <2>1. UNCHANGED <<cngkData, online>> /\ \E next, c : next # "insertCngk" /\ Goto(w, next, c)
    <3>1. \A type, points, size : AfterFilter(type, size, points) # "insertCngk"
      BY DEF AfterFilter, CurveResult, SurfaceResult
    <3>2. CASE FetchIndexes(w) \/ IndexFailed(w)
      BY <3>1, <3>2 DEF FetchIndexes, IndexFailed, UpdateCalcModelStatus, dbVars, tables
    <3>3. CASE StartCalcModel(w) \/ CondtionFailed(w) \/ Complete(w) \/ Fail(w)
      BY <3>3 DEF StartCalcModel, CondtionFailed, Complete, Fail, UpdateCalcModelStatus
    <3>4. CASE FetchCondtions(w) \/ FitDistributions(w) \/ TrainModel(w) \/ FitXnsyResult(w)
      BY <3>4 DEF FetchCondtions, FitDistributions, TrainModel, FitXnsyResult, dbVars, tables
    <3>5. CASE ReplaceEquation(w) \/ StoreEquation(w)
      BY <3>5 DEF ReplaceEquation, StoreEquation, DeleteEquation, InsertEquation
    <3>6. CASE StoreFilterData(w) \/ CommitPoints(w)
      BY <3>6 DEF StoreFilterData, CommitPoints, BeginFilterData, TransactionFails,
         CommitFilterData, dbVars, tables
    <3>7. CASE StoreHistogram(w)
      BY <1>4, <3>7, CalcType DEF StoreHistogram, ReturnCngkData, tables, TypeInv
    <3>. QED  BY <1>4, <3>2, <3>3, <3>4, <3>5, <3>6, <3>7 DEF RunStep
  <2>2. \A u \in Workers : pc'[u] = "insertCngk" => pc[u] = "insertCngk" /\ calc'[u] = calc[u]
    BY <2>1 DEF Goto, TypeInv, TypeOK
  <2>3. HistogramOfOneRun'
    BY <2>1 DEF HistogramInv, HistogramOfOneRun
  <2>4. ASSUME NEW u \in Workers, pc'[u] = "insertCngk", online'
        PROVE  /\ Len(cngkData'[calc'[u].model]) + calc'[u].rows <= CngkRows
               /\ \A i \in DOMAIN cngkData'[calc'[u].model] :
                    cngkData'[calc'[u].model][i] = calc'[u].source
    <3>1. pc[u] = "insertCngk" /\ online /\ calc'[u] = calc[u] /\ cngkData' = cngkData
      BY <2>1, <2>2, <2>4
    <3>. QED  BY <3>1 DEF HistogramInv
  <2>. QED  BY <2>3, <2>4 DEF HistogramInv
<1>. QED  BY <1>2, <1>3, <1>4

\* Every step of the service and its environment keeps HistogramInv.
LEMMA HistogramStep ==
  DeletesDone /\ TypeInv /\ SharedInv /\ HistogramInv /\ [Next]_vars => HistogramInv'
<1>. SUFFICES ASSUME DeletesDone, TypeInv, SharedInv, HistogramInv, [Next]_vars
              PROVE  HistogramInv'
  OBVIOUS
<1>. USE DEF HistogramInv, HistogramOfOneRun
<1>1. ASSUME NEW w \in Workers, RunStep(w)  PROVE HistogramInv'
  BY <1>1, RunHistogramStep
<1>2. CASE QueryCalcModel
  <2>1. mutex = Free /\ UNCHANGED <<cngkData, pc, calc>>
    BY <1>2 DEF QueryCalcModel, IsOpen, tables, runVars
  <2>2. \A w \in Workers : pc[w] # "insertCngk"
    BY <2>1, FreeAssumption DEF SharedInv, MutexHeld
  <2>. QED  BY <2>1, <2>2
<1>3. CASE CheckPool \/ PredictModel \/ SkipModel \/ EndOfEvent
  BY <1>3 DEF CheckPool, PredictModel, SkipModel, EndOfEvent, dbVars, tables, runVars
<1>4. CASE Launch
  <2>1. \A u \in Workers : pc'[u] = "insertCngk" => pc[u] = "insertCngk" /\ calc'[u] = calc[u]
    BY <1>4 DEF Launch, TypeInv, TypeOK
  <2>2. UNCHANGED <<cngkData, online>>
    BY <1>4 DEF Launch, dbVars, tables
  <2>. QED  BY <2>1, <2>2
<1>5. CASE Stop
  BY <1>5 DEF Stop, dbVars, tables, runVars
<1>6. CASE Exit \/ Crash
  BY <1>6 DEF Exit, Crash, CloseConnection, tables, runVars
<1>7. CASE Start
  <2>1. \A w \in Workers : pc[w] = "idle"
    BY <1>7 DEF Start, SharedInv, Active
  <2>. QED  BY <1>7, <2>1 DEF Start, Open, tables, runVars
<1>8. CASE Disconnect
  BY <1>8 DEF Disconnect, LoseConnection, tables, runVars
<1>9. CASE \E m \in ModelIds : Submit(m) \/ Edit(m)
  BY <1>9 DEF Submit, SubmitRow, Edit, EditRow, runVars
<1>10. CASE UNCHANGED vars
  BY <1>10 DEF vars, dbVars, tables, runVars
<1>. QED
  BY <1>1, <1>2, <1>3, <1>4, <1>5, <1>6, <1>7, <1>8, <1>9, <1>10 DEF Next, TimerStep

\* The stored bars of a load histogram come from one run, where the server refuses no
\* DELETE.
THEOREM OneHistogram ==
  ASSUME "delete" \notin Refused
  PROVE  Spec => []HistogramOfOneRun
<1>. DeletesDone
  BY DEF DeletesDone
<1>1. Init => HistogramInv
  BY SizesAssumption DEF Init, DBInit, HistogramInv, HistogramOfOneRun
<1>2. Init => SharedInv
  BY DEF Init, DBInit, NoTx, SharedInv, Active, MutexHeld, EquationGap, EquationUnique
<1>3. HistogramInv => HistogramOfOneRun
  BY DEF HistogramInv
<1>. QED
  BY <1>1, <1>2, <1>3, TypeInit, TypeStep, SharedStep, HistogramStep, PTL DEF Spec
=============================================================================
