-------------------------- MODULE AlarmMonitor_proofs --------------------------
(***************************************************************************)
(* Theorems about AlarmMonitor, for every number of models, threads and    *)
(* alarms.  What a theorem asks of the environment is its assumption.      *)
(***************************************************************************)
EXTENDS AlarmMonitor, CapacityMonitor_proofs

(***************************************************************************)
(* The service implements CapacityMonitor.                                 *)
(***************************************************************************)

\* A step of the service is a step of CapacityMonitor, or leaves it as it is: the
\* statement of an alarm is where PredictModel happens, the decision a stutter.
LEMMA ServiceStepSimulates == [ServiceNext]_serviceVars => [Next]_vars
<1>. SUFFICES ASSUME [ServiceNext]_serviceVars  PROVE [Next]_vars
  OBVIOUS
<1>1. ASSUME NEW m \in ModelIds,
             InsertTFNLAlarm(m) \/ UpdateTFNLAlarm(m) \/ NothingToDo(m)
      PROVE  Next
  BY <1>1 DEF InsertTFNLAlarm, UpdateTFNLAlarm, NothingToDo, Next, TimerStep
<1>2. ASSUME NEW m \in ModelIds, RaiseAlarm(m) \/ EndAlarm(m) \/ PlantMoves(m)
      PROVE  UNCHANGED vars
  BY <1>2 DEF RaiseAlarm, EndAlarm, PlantMoves
<1>3. CASE ServiceTimer
  BY <1>1, <1>2, <1>3 DEF ServiceTimer, StartPredictModel, Next, TimerStep
<1>4. CASE ServiceEnds
  BY <1>4 DEF ServiceEnds, Next
<1>5. CASE UNCHANGED serviceVars
  BY <1>5 DEF serviceVars
<1>6. CASE HistorianChanges
  BY <1>6 DEF HistorianChanges
<1>. QED  BY <1>2, <1>3, <1>4, <1>5, <1>6 DEF ServiceNext, Next

\* The service with its alarms (startPredictModel) implements CapacityMonitor:
\* every safety property proved of the calculation holds of the whole.
THEOREM ServiceImplementsSpec == ServiceSpec => Spec
<1>1. ServiceInit => Init
  BY DEF ServiceInit
<1>. QED  BY <1>1, ServiceStepSimulates, PTL DEF ServiceSpec, Spec

(***************************************************************************)
(* The types, and where a statement of an alarm can be pending.            *)
(***************************************************************************)

\* A statement is pending only while timerEvent visits a model that it predicts,
\* and it is about the alarm in the map.
Pending ==
  predict # "none" =>
    /\ timer = "scan" /\ cursor \in ModelIds
    /\ ~Submitted(cursor) /\ Predicted(cursor) /\ Known(cursor)

AlarmInv == AlarmTypeOK /\ Pending

\* createUuid yields an alarm of the model, one that is not open if there is any.
LEMMA CreateUuidFresh ==
  ASSUME NEW m \in ModelIds
  PROVE  /\ CreateUuid(m) \in AlarmIds
         /\ CreateUuid(m) # NoAlarm
<1>. DEFINE used == alarms[m] \cup {mapCalcModelAlarm[m]}
<1>1. \E a \in AlarmIds : a \notin used \/ AlarmIds \subseteq used
  <2>1. 1 \in AlarmIds
    BY AlarmAssumption DEF AlarmIds
  <2>. QED  BY <2>1
<1>2. CreateUuid(m) \in AlarmIds
  BY <1>1 DEF CreateUuid
<1>. QED  BY <1>2, AlarmAssumption DEF AlarmIds, NoAlarm

\* The steps that are not about alarms.
OtherStep ==
  \/ QueryCalcModel \/ CheckPool \/ Launch \/ SkipModel \/ EndOfEvent
  \/ \E w \in Workers : RunStep(w)
  \/ Stop \/ Start \/ Disconnect
  \/ \E m \in ModelIds : Submit(m) \/ Edit(m)
  \/ UNCHANGED vars

\* The steps of the service, seen from the alarms.
LEMMA ServiceCases ==
  ASSUME [ServiceNext]_serviceVars
  PROVE  \/ \E m \in ModelIds :
              \/ RaiseAlarm(m) \/ InsertTFNLAlarm(m) \/ EndAlarm(m)
              \/ UpdateTFNLAlarm(m) \/ NothingToDo(m) \/ PlantMoves(m)
         \/ ServiceEnds \/ HistorianChanges
         \/ OtherStep /\ UNCHANGED alarmVars
<1>1. CASE UNCHANGED serviceVars
  BY <1>1 DEF serviceVars, OtherStep
<1>. QED  BY <1>1 DEF ServiceNext, ServiceTimer, StartPredictModel, OtherStep

\* While a statement is pending they leave the main thread where it is.
LEMMA MainThreadWaits ==
  ASSUME Pending, OtherStep, predict # "none"
  PROVE  UNCHANGED mainVars
<1>1. ASSUME NEW w \in Workers, RunStep(w)  PROVE UNCHANGED mainVars
  BY <1>1, RunFrame
<1>2. CASE QueryCalcModel \/ CheckPool \/ Launch \/ SkipModel \/ EndOfEvent
  BY <1>2, SizesAssumption DEF Pending, QueryCalcModel, CheckPool, Launch, SkipModel,
     EndOfEvent, ModelIds
<1>3. CASE Stop \/ Start \/ Disconnect \/ \E m \in ModelIds : Submit(m) \/ Edit(m)
  BY <1>3 DEF Stop, Start, Disconnect, Submit, Edit, Pending
<1>4. CASE UNCHANGED vars
  BY <1>4 DEF vars
<1>. QED  BY <1>1, <1>2, <1>3, <1>4 DEF OtherStep

\* Pending statements and types are kept by every step.
LEMMA AlarmStep == AlarmInv /\ [ServiceNext]_serviceVars => AlarmInv'
<1>. SUFFICES ASSUME AlarmInv, [ServiceNext]_serviceVars  PROVE AlarmInv'
  OBVIOUS
<1>. USE DEF AlarmInv
<1>1. ASSUME NEW m \in ModelIds, RaiseAlarm(m)  PROVE AlarmInv'
  BY <1>1, CreateUuidFresh DEF RaiseAlarm, Compare, AlarmTypeOK, Pending, Known, vars,
     mainVars, plantVars, Submitted, Predicted, Copy
<1>2. ASSUME NEW m \in ModelIds, InsertTFNLAlarm(m)  PROVE AlarmInv'
  <2>1. mapCalcModelAlarm[m] \in AlarmIds
    BY <1>2 DEF InsertTFNLAlarm, AlarmTypeOK, Pending, Known
  <2>. QED  BY <1>2, <2>1 DEF InsertTFNLAlarm, Exec, plantVars, AlarmTypeOK, Pending
<1>3. ASSUME NEW m \in ModelIds, EndAlarm(m)  PROVE AlarmInv'
  BY <1>3 DEF EndAlarm, Compare, AlarmTypeOK, Pending, Known, vars, mainVars, plantVars,
     Submitted, Predicted, Copy
<1>4. ASSUME NEW m \in ModelIds, UpdateTFNLAlarm(m)  PROVE AlarmInv'
  BY <1>4 DEF UpdateTFNLAlarm, Exec, plantVars, AlarmTypeOK, Pending
<1>5. ASSUME NEW m \in ModelIds, NothingToDo(m)  PROVE AlarmInv'
  BY <1>5 DEF NothingToDo, Compare, alarmVars, plantVars, AlarmTypeOK, Pending
<1>6. ASSUME NEW m \in ModelIds, PlantMoves(m)  PROVE AlarmInv'
  BY <1>6 DEF PlantMoves, AlarmTypeOK, Pending, Known, vars, mainVars, Submitted, Predicted,
     Copy
<1>7. CASE ServiceEnds
  BY <1>7 DEF ServiceEnds, NoAlarms, plantVars, AlarmTypeOK, Pending
<1>8. CASE OtherStep /\ UNCHANGED alarmVars
  BY <1>8, MainThreadWaits DEF alarmVars, plantVars, AlarmTypeOK, Pending, Known, mainVars,
     Submitted, Predicted, Copy
<1>9. CASE HistorianChanges
  BY <1>9 DEF HistorianChanges, AlarmTypeOK, Pending, Known, vars, mainVars, Submitted,
     Predicted, Copy
<1>. QED  BY <1>1, <1>2, <1>3, <1>4, <1>5, <1>6, <1>7, <1>8, <1>9, ServiceCases

\* A service that has not been started has no alarm and no statement to execute.
LEMMA AlarmInit == ServiceInit => AlarmInv
BY DEF ServiceInit, NoAlarms, AlarmInv, AlarmTypeOK, Pending

\* Every state the service reaches has the types of AlarmTypeOK.
THEOREM AlarmTypeCorrect == ServiceSpec => []AlarmTypeOK
<1>1. AlarmInv => AlarmTypeOK
  BY DEF AlarmInv
<1>. QED  BY <1>1, AlarmInit, AlarmStep, PTL DEF ServiceSpec

(***************************************************************************)
(* The map and the table agree, as long as the connection is not lost.     *)
(***************************************************************************)

\* The process that runs is connected.
Connected == timer # "down" => online

\* No method of DataBaseHelper that a run calls touches the connection.
LEMMA RunKeepsConnection ==
  ASSUME NEW w \in Workers, RunStep(w)
  PROVE  UNCHANGED online
BY DEF RunStep, StartCalcModel, FetchCondtions, CondtionFailed, FetchIndexes, IndexFailed,
   ReplaceEquation, StoreEquation, StoreFilterData, CommitPoints, ReplaceHistogram,
   StoreHistogram, FitDistributions, TrainModel, FitXnsyResult, Complete, Fail,
   UpdateCalcModelStatus, DeleteEquation, InsertEquation, BeginFilterData,
   TransactionFails, CommitFilterData, DeleteCngkData, InsertCngkRow, ReturnCngkData,
   dbVars

\* A connection that is never lost is usable while the service is up.
LEMMA ConnectedStep ==
  ASSUME "loss" \notin Faults, Connected, [Next]_vars
  PROVE  Connected'
<1>. USE DEF Connected
<1>1. ASSUME NEW w \in Workers, RunStep(w)  PROVE Connected'
  BY <1>1, RunFrame, RunKeepsConnection DEF mainVars
<1>2. CASE TimerStep
  BY <1>2 DEF TimerStep, QueryCalcModel, IsOpen, CheckPool, Launch, PredictModel, SkipModel,
     EndOfEvent, dbVars
<1>3. CASE Stop \/ Exit \/ Crash \/ Start \/ Disconnect
  BY <1>3 DEF Stop, Exit, Crash, Start, Disconnect, Open, dbVars
<1>4. CASE \E m \in ModelIds : Submit(m) \/ Edit(m)
  BY <1>4 DEF Submit, Edit, SubmitRow, EditRow, mainVars
<1>5. CASE UNCHANGED vars
  BY <1>5 DEF vars, dbVars, mainVars
<1>. QED  BY <1>1, <1>2, <1>3, <1>4, <1>5 DEF Next

\* An alarm in the map stays in the table while nothing ends it.
LEMMA KnownStep ==
  ASSUME "loss" \notin Faults, "insert" \notin Refused,
         AlarmInv, Connected, KnownAlarmOpen, [ServiceNext]_serviceVars
  PROVE  KnownAlarmOpen'
<1>. USE DEF AlarmInv, KnownAlarmOpen
<1>1. ASSUME NEW m \in ModelIds, RaiseAlarm(m)  PROVE KnownAlarmOpen'
  BY <1>1 DEF RaiseAlarm, Compare, AlarmTypeOK, Known, vars, mainVars
<1>2. ASSUME NEW m \in ModelIds, InsertTFNLAlarm(m)  PROVE KnownAlarmOpen'
  <2>1. alarms' = [alarms EXCEPT ![m] = alarms[m] \cup {mapCalcModelAlarm[m]}]
    BY <1>2 DEF InsertTFNLAlarm, Exec, Outcome, Outcomes, Pending, Connected
  <2>. QED  BY <1>2, <2>1 DEF InsertTFNLAlarm, AlarmTypeOK, Known
<1>3. ASSUME NEW m \in ModelIds, EndAlarm(m)  PROVE KnownAlarmOpen'
  BY <1>3 DEF EndAlarm, Compare, Known
<1>4. ASSUME NEW m \in ModelIds, UpdateTFNLAlarm(m)  PROVE KnownAlarmOpen'
  BY <1>4 DEF UpdateTFNLAlarm, Exec, AlarmTypeOK, Known
<1>5. ASSUME NEW m \in ModelIds, NothingToDo(m)  PROVE KnownAlarmOpen'
  BY <1>5 DEF NothingToDo, Compare, alarmVars, Known
<1>6. ASSUME NEW m \in ModelIds, PlantMoves(m)  PROVE KnownAlarmOpen'
  BY <1>6 DEF PlantMoves, Known, vars, mainVars
<1>7. CASE ServiceEnds
  BY <1>7 DEF ServiceEnds, NoAlarms, Known
<1>8. CASE OtherStep /\ UNCHANGED alarmVars
  BY <1>8, MainThreadWaits DEF alarmVars, Known, mainVars
<1>9. CASE HistorianChanges
  BY <1>9 DEF HistorianChanges, Known, vars, mainVars
<1>. QED  BY <1>1, <1>2, <1>3, <1>4, <1>5, <1>6, <1>7, <1>8, <1>9, ServiceCases

\* A service that has not been started needs no connection.
LEMMA ConnectedInit == ServiceInit => Connected
BY DEF ServiceInit, Init, Connected

\* Without losses of the connection and refused INSERTs, an alarm the process
\* believes open is open, whenever it was killed and started before
\* (mapCalcModelAlarm, TB_TFNL_ALARM).
THEOREM KnownAlarmsAreOpen ==
  ASSUME "loss" \notin Faults, "insert" \notin Refused
  PROVE  ServiceSpec => []KnownAlarmOpen
<1>1. ServiceInit => KnownAlarmOpen
  BY DEF ServiceInit, NoAlarms, KnownAlarmOpen, Known
<1>2. AlarmInv /\ Connected /\ KnownAlarmOpen /\ [ServiceNext]_serviceVars
        => (AlarmInv /\ Connected /\ KnownAlarmOpen)'
  BY AlarmStep, ConnectedStep, ServiceStepSimulates, KnownStep
<1>. QED  BY <1>1, <1>2, AlarmInit, ConnectedInit, PTL DEF ServiceSpec

\* Without stops and crashes nothing ends the process, so the map forgets nothing.
LEMMA NoEnd ==
  ASSUME "crash" \notin Faults, "stop" \notin Faults, timer # "stopping"
  PROVE  ~ServiceEnds
BY DEF ServiceEnds, Exit, Crash

\* The alarm that is raised is the only one.
OneAlarmInv ==
  /\ OpenAlarmKnown
  /\ timer # "stopping"
  /\ predict = "insert" => alarms[cursor] = {}

\* startPredictModel and the rest of the service keep the map and the one open alarm
\* in step, when nothing makes the process forget its map.
LEMMA OneAlarmStep ==
  ASSUME Faults \cap {"loss", "crash", "stop"} = {},
         Refused \cap {"insert", "update"} = {},
         AlarmInv, Connected, OneAlarmInv, [ServiceNext]_serviceVars
  PROVE  OneAlarmInv'
<1>. USE DEF AlarmInv, OneAlarmInv, OpenAlarmKnown
<1>0. timer' # "stopping"
  <2>1. ASSUME NEW w \in Workers, RunStep(w)  PROVE timer' # "stopping"
    BY <2>1, RunFrame DEF mainVars
  <2>2. CASE TimerStep
    BY <2>2 DEF TimerStep, QueryCalcModel, CheckPool, Launch, PredictModel, SkipModel,
       EndOfEvent
  <2>3. CASE Stop \/ Exit \/ Crash \/ Start \/ Disconnect
    BY <2>3 DEF Stop, Exit, Crash, Start, Disconnect, mainVars
  <2>4. CASE \E m \in ModelIds : Submit(m) \/ Edit(m)
    BY <2>4 DEF Submit, Edit, mainVars
  <2>5. CASE UNCHANGED vars
    BY <2>5 DEF vars, mainVars
  <2>. QED  BY <2>1, <2>2, <2>3, <2>4, <2>5, ServiceStepSimulates DEF Next
<1>1. ASSUME NEW m \in ModelIds, RaiseAlarm(m)  PROVE OneAlarmInv'
  BY <1>0, <1>1 DEF RaiseAlarm, Compare, AlarmTypeOK, Known, vars, mainVars
<1>2. ASSUME NEW m \in ModelIds, InsertTFNLAlarm(m)  PROVE OneAlarmInv'
  <2>1. alarms' = [alarms EXCEPT ![m] = alarms[m] \cup {mapCalcModelAlarm[m]}]
    BY <1>2 DEF InsertTFNLAlarm, Exec, Outcome, Outcomes, Pending, Connected
  <2>2. alarms[m] = {} /\ mapCalcModelAlarm[m] # NoAlarm
    BY <1>2 DEF InsertTFNLAlarm, Pending, Known
  <2>. QED  BY <1>0, <1>2, <2>1, <2>2 DEF InsertTFNLAlarm, AlarmTypeOK
<1>3. ASSUME NEW m \in ModelIds, EndAlarm(m)  PROVE OneAlarmInv'
  BY <1>0, <1>3 DEF EndAlarm, Compare
<1>4. ASSUME NEW m \in ModelIds, UpdateTFNLAlarm(m)  PROVE OneAlarmInv'
  <2>1. alarms' = [alarms EXCEPT ![m] = alarms[m] \ {mapCalcModelAlarm[m]}]
    BY <1>4 DEF UpdateTFNLAlarm, Exec, Outcome, Outcomes, Pending, Connected
  <2>2. alarms'[m] = {}
    BY <1>4, <2>1 DEF UpdateTFNLAlarm, AlarmTypeOK
  <2>. QED  BY <1>0, <1>4, <2>1, <2>2 DEF UpdateTFNLAlarm, AlarmTypeOK
<1>5. ASSUME NEW m \in ModelIds, NothingToDo(m)  PROVE OneAlarmInv'
  BY <1>0, <1>5 DEF NothingToDo, Compare, alarmVars
<1>6. ASSUME NEW m \in ModelIds, PlantMoves(m)  PROVE OneAlarmInv'
  BY <1>0, <1>6 DEF PlantMoves, vars, mainVars
<1>7. CASE ServiceEnds
  BY <1>7, NoEnd
<1>8. CASE OtherStep /\ UNCHANGED alarmVars
  BY <1>0, <1>8, MainThreadWaits DEF alarmVars, mainVars
<1>9. CASE HistorianChanges
  BY <1>0, <1>9 DEF HistorianChanges, vars, mainVars
<1>. QED  BY <1>1, <1>2, <1>3, <1>4, <1>5, <1>6, <1>7, <1>8, <1>9, ServiceCases

\* While neither the connection nor the process is lost, and no statement about an
\* alarm is refused, a model has one open alarm at most, and the map knows it
\* (startPredictModel).
THEOREM OneOpenAlarm ==
  ASSUME Faults \cap {"loss", "crash", "stop"} = {},
         Refused \cap {"insert", "update"} = {}
  PROVE  ServiceSpec => []OpenAlarmKnown
<1>1. ServiceInit => OneAlarmInv
  BY DEF ServiceInit, Init, NoAlarms, OneAlarmInv, OpenAlarmKnown
<1>2. AlarmInv /\ Connected /\ OneAlarmInv /\ [ServiceNext]_serviceVars
        => (AlarmInv /\ Connected /\ OneAlarmInv)'
  <2>1. "loss" \notin Faults
    OBVIOUS
  <2>. QED  BY <2>1, AlarmStep, ConnectedStep, ServiceStepSimulates, OneAlarmStep
<1>3. OneAlarmInv => OpenAlarmKnown
  BY DEF OneAlarmInv
<1>. QED  BY <1>1, <1>2, <1>3, AlarmInit, ConnectedInit, PTL DEF ServiceSpec
=============================================================================
