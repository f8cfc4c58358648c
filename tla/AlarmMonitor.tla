------------------------------ MODULE AlarmMonitor ------------------------------
(***************************************************************************)
(* The whole service: CapacityMonitor with the statements of               *)
(* startPredictModel in place of its step PredictModel.  For a model of    *)
(* type 4 or 5 the timer compares two values of the historian; an alarm is *)
(* raised when they are near each other and ended when they are not.       *)
(*                                                                         *)
(* Which alarm of a model is open is remembered in mapCalcModelAlarm only, *)
(* in the memory of the process; the rows of TB_TFNL_ALARM are written in  *)
(* statements of their own, whose results are not looked at.               *)
(***************************************************************************)
EXTENDS CapacityMonitor

CONSTANT
  MaxAlarms     \* bound: the open alarms of one model that are told apart

ASSUME AlarmAssumption == MaxAlarms \in Nat \ {0}

VARIABLES
  historian,          \* is the connection to the historian usable
  near,               \* the plant: the limits (types of model) each unit is near to
  predict,            \* startPredictModel: the statement it has to execute, or "none"
  mapCalcModelAlarm,  \* the alarm of each model this process has raised and not ended
  alarms              \* TB_TFNL_ALARM: the alarms of each model without an end time

plantVars == <<historian, near>>
alarmVars == <<plantVars, predict, mapCalcModelAlarm, alarms>>
serviceVars == <<vars, alarmVars>>

AlarmIds == 1..MaxAlarms
NoAlarm == 0

\* The types of model that are predicted: the upper and the lower limit.
Limits == {4, 5}
NoAlarms == [m \in ModelIds |-> NoAlarm]

Known(m) == mapCalcModelAlarm[m] # NoAlarm

\* createUuid(): a number no open alarm has.  When MaxAlarms are open, the last
\* number stands for several rows; it is used again once its alarm has ended.
CreateUuid(m) ==
  LET used == alarms[m] \cup {mapCalcModelAlarm[m]}
  IN  CHOOSE a \in AlarmIds : a \notin used \/ AlarmIds \subseteq used

ServiceInit ==
  /\ Init
  /\ historian \in BOOLEAN
  /\ near = [m \in ModelIds |-> {}]
  /\ predict = "none"
  /\ mapCalcModelAlarm = NoAlarms
  /\ alarms = [m \in ModelIds |-> {}]

AlarmTypeOK ==
  /\ historian \in BOOLEAN
  /\ near \in [ModelIds -> SUBSET Limits]
  /\ predict \in {"none", "insert", "update"}
  /\ mapCalcModelAlarm \in [ModelIds -> AlarmIds \cup {NoAlarm}]
  /\ alarms \in [ModelIds -> SUBSET AlarmIds]

-----------------------------------------------------------------------------
(***************************************************************************)
(* startPredictModel of the model at the cursor, on the main thread.       *)
(***************************************************************************)

\* The load and the limit are read and compared; the name of each point comes from
\* the database.  A value that cannot be read is whatever the uninitialised Tag holds.
Compare(m, close) ==
  /\ timer = "scan" /\ m = cursor /\ ~Submitted(m) /\ Predicted(m)
  /\ predict = "none"
  /\ \E done \in BOOLEAN :
       /\ Query(done)
       /\ historian /\ done => close = (Copy(m).type \in near[m])

\* An alarm is entered in the map, then inserted in the table.

\* A faulty variant: the map is not looked at before an alarm is raised.
RaiseAgain(m) ==
  /\ Compare(m, TRUE)
  /\ mapCalcModelAlarm' = [mapCalcModelAlarm EXCEPT ![m] = CreateUuid(m)]
  /\ predict' = "insert"
  /\ UNCHANGED <<vars, plantVars, alarms>>

\* A faulty variant: the alarm is not entered in the map.
RaiseUnmapped(m) ==
  /\ Compare(m, TRUE) /\ ~Known(m)
  /\ predict' = "insert"
  /\ UNCHANGED <<vars, plantVars, mapCalcModelAlarm, alarms>>

RaiseAlarm(m) ==
  /\ Compare(m, TRUE) /\ ~Known(m)
  /\ mapCalcModelAlarm' = [mapCalcModelAlarm EXCEPT ![m] = CreateUuid(m)]
  /\ predict' = "insert"
  /\ UNCHANGED <<vars, plantVars, alarms>>

\* A faulty variant: the INSERT without the lock.
InsertTFNLAlarmUnlocked(m) ==
  /\ predict = "insert" /\ m = cursor
  /\ \E done \in Outcome("insert") :
       alarms' = Exec(alarms, m, alarms[m] \cup {mapCalcModelAlarm[m]}, done)
  /\ predict' = "none"
  /\ cursor' = cursor + 1
  /\ UNCHANGED <<dbVars, timer, snapshot, runVars, plantVars, mapCalcModelAlarm>>

InsertTFNLAlarm(m) ==
  /\ predict = "insert" /\ m = cursor
  /\ \E done \in Outcome("insert") :
       alarms' = Exec(alarms, m, alarms[m] \cup {mapCalcModelAlarm[m]}, done)
  /\ predict' = "none"
  /\ PredictModel
  /\ UNCHANGED <<plantVars, mapCalcModelAlarm>>

\* The alarm in the map gets its end time, then it leaves the map.

\* A faulty variant: the alarm leaves the map first.
ForgetAlarm(m) ==
  /\ Compare(m, FALSE) /\ Known(m)
  /\ mapCalcModelAlarm' = [mapCalcModelAlarm EXCEPT ![m] = NoAlarm]
  /\ predict' = "update"
  /\ UNCHANGED <<vars, plantVars, alarms>>

EndAlarm(m) ==
  /\ Compare(m, FALSE) /\ Known(m)
  /\ predict' = "update"
  /\ UNCHANGED <<vars, plantVars, mapCalcModelAlarm, alarms>>

\* A faulty variant: the alarm stays in the map.
UpdateTFNLAlarmOnly(m) ==
  /\ predict = "update" /\ m = cursor
  /\ \E done \in Outcome("update") :
       alarms' = Exec(alarms, m, alarms[m] \ {mapCalcModelAlarm[m]}, done)
  /\ predict' = "none"
  /\ PredictModel
  /\ UNCHANGED <<plantVars, mapCalcModelAlarm>>

UpdateTFNLAlarm(m) ==
  /\ predict = "update" /\ m = cursor
  /\ \E done \in Outcome("update") :
       alarms' = Exec(alarms, m, alarms[m] \ {mapCalcModelAlarm[m]}, done)
  /\ mapCalcModelAlarm' = [mapCalcModelAlarm EXCEPT ![m] = NoAlarm]
  /\ predict' = "none"
  /\ PredictModel
  /\ UNCHANGED plantVars

\* The alarm is as it should be.
NothingToDo(m) ==
  /\ Compare(m, Known(m))
  /\ PredictModel
  /\ UNCHANGED alarmVars

StartPredictModel ==
  \E m \in ModelIds :
    \/ RaiseAlarm(m) \/ InsertTFNLAlarm(m)
    \/ EndAlarm(m) \/ UpdateTFNLAlarm(m)
    \/ NothingToDo(m)

ServiceTimer ==
  \/ StartPredictModel
  \/ /\ QueryCalcModel \/ CheckPool \/ Launch \/ SkipModel \/ EndOfEvent
     /\ UNCHANGED alarmVars

\* The map dies with the process.
ServiceEnds ==
  /\ Exit \/ Crash
  /\ predict' = "none"
  /\ mapCalcModelAlarm' = NoAlarms
  /\ UNCHANGED <<plantVars, alarms>>

\* The load crosses a limit that some configuration of the model is about.
PlantMoves(m) ==
  /\ \E limit \in Limits \cap {Config[m][v].type : v \in Versions} :
       near' = [near EXCEPT ![m] = IF limit \in @ THEN @ \ {limit} ELSE @ \cup {limit}]
  /\ UNCHANGED <<vars, historian, predict, mapCalcModelAlarm, alarms>>

\* The connection to the historian is lost, or is usable again.
HistorianChanges ==
  /\ historian' = ~historian
  /\ UNCHANGED <<vars, near, predict, mapCalcModelAlarm, alarms>>

ServiceNext ==
  \/ ServiceTimer
  \/ \E w \in Workers : RunStep(w) /\ UNCHANGED alarmVars
  \/ (Stop \/ Start \/ Disconnect) /\ UNCHANGED alarmVars
  \/ ServiceEnds
  \/ \E m \in ModelIds : (Submit(m) \/ Edit(m)) /\ UNCHANGED alarmVars
  \/ \E m \in ModelIds : PlantMoves(m)
  \/ HistorianChanges

ServiceSpec == ServiceInit /\ [][ServiceNext]_serviceVars

(***************************************************************************)
(* As for CapacityMonitor: the timer fires, threads are scheduled, a       *)
(* stopped service ends and is started again.  The plant, the historian    *)
(* and the Python server may do anything.                                  *)
(***************************************************************************)
ServiceFairness ==
  /\ WF_serviceVars(ServiceTimer)
  /\ WF_serviceVars(ServiceEnds /\ Exit) /\ WF_serviceVars(Start /\ UNCHANGED alarmVars)
  /\ \A w \in Workers : WF_serviceVars(RunStep(w) /\ w \notin AtServer /\ UNCHANGED alarmVars)

FairServiceSpec == ServiceSpec /\ ServiceFairness

-----------------------------------------------------------------------------
\* The service with its alarms is a CapacityMonitor: what is shown of the
\* calculation of models, liveness included, holds of the whole.
ImplementsCapacityMonitor == FairSpec

\* While neither the process nor the connection is lost, the map knows the one
\* open alarm of a model, if there is any; the row is missing only until the
\* INSERT (the map is written first), the alarm is ended before it leaves the map.
OpenAlarmKnown ==
  \A m \in ModelIds :
    \/ alarms[m] = {mapCalcModelAlarm[m]} \ {NoAlarm}
    \/ alarms[m] = {} /\ predict = "insert" /\ m = cursor

\* Also a process that is stopped or killed, and started again, between any two
\* statements keeps the half of it that its map is about: it never believes an
\* alarm open whose row is missing or ended, so it never ends an alarm twice.
KnownAlarmOpen ==
  \A m \in ModelIds :
    Known(m) => \/ mapCalcModelAlarm[m] \in alarms[m]
                \/ predict = "insert" /\ m = cursor

\* The timer predicts model m with configuration v: the service is up, the model is
\* valid and of a type that is predicted, and not submitted (a submitted model is
\* calculated, not predicted).  The values that are compared are those of the plant.
Watched(m, v) ==
  /\ timer \notin {"stopping", "down"} /\ historian
  /\ version[m] = v /\ Current(m).valid /\ Current(m).type \in Limits
  /\ status[m] # 1

Near(m) == Current(m).type \in near[m]

\* A plant that stays near the limit of a model has an open alarm in the end, if the
\* model is watched from some time on; stops, crashes, losses of the historian and
\* changes of the configuration before that notwithstanding.
AlarmIsRaised ==
  \A m \in ModelIds, v \in Versions :
    <>[](Watched(m, v) /\ Near(m)) => <>[](alarms[m] # {})

\* A plant that stays away from the limit has no open alarm in the end, if the
\* service does not lose its memory.  An alarm that was raised for another type, or
\* before the model was made invalid, is among those that are ended.
AlarmIsEnded ==
  \A m \in ModelIds, v \in Versions :
    <>[](Watched(m, v) /\ ~Near(m)) => <>[](alarms[m] = {})
=============================================================================
