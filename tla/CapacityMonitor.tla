----------------------------- MODULE CapacityMonitor -----------------------------
(***************************************************************************)
(* The calculation of load-following models (capacitymonitor.cpp,          *)
(* main.cpp).  The main thread's timer reads the submitted models and      *)
(* starts a run of startCalcModel for each on the thread pool; the runs    *)
(* read their points, fit or train the model and publish the result and    *)
(* the status through DataBaseHelper.                                      *)
(*                                                                         *)
(* A run works on the copy of the row that the timer read: calc[w].version *)
(* is the configuration its type and its time window come from.  Its       *)
(* conditions and indexes are read from the tables as they are then; so    *)
(* calc[w].source, what its result is computed from, may be a mixture.     *)
(***************************************************************************)
EXTENDS DataBaseHelper, FiniteSets

CONSTANTS
  MaxThreadCount,  \* size of the thread pool
  Config,          \* the configurations of each model
  SubmitFrom,      \* the statuses from which operators submit a model (again)
  EditFrom,        \* the statuses at which they change it without submitting it
  Faults           \* what the environment may do: see FaultKinds

\* "late": a run may not have written its first status when the next timer
\*         event reads the table.  "loss": connections break.  "crash": the
\*         process dies.  "stop": the service is stopped.
FaultKinds == {"late", "loss", "crash", "stop"}

\* CONDITION_TYPE (1..6 have a calculation), IS_VALID, and the number of rows of
\* TB_TFNL_CONDTION and of TB_TFNL_SSPGINDEX (INDEX_TYPE 1).
Configuration == [type : Nat, valid : BOOLEAN, condtions : Nat, indexes : Nat]

ASSUME ModelsAssumption == Config \in [ModelIds -> [Versions -> Configuration]]

ASSUME PoolAssumption ==
  /\ MaxThreadCount \in Nat \ {0}
  /\ IsFiniteSet(Workers)

ASSUME EnvironmentAssumption ==
  /\ SubmitFrom \subseteq XL_Status
  /\ EditFrom \subseteq XL_Status
  /\ Faults \subseteq FaultKinds

VARIABLES
  timer,     \* the main thread: waiting, inside timerEvent, stopping or down
  cursor,    \* timerEvent: the next model of the QMapIterator
  snapshot,  \* timerEvent: the rows queryCalcModel returned
  pc,        \* each pool thread: the next step of its run, or "idle"
  calc       \* each pool thread: the locals of its run

mainVars == <<timer, cursor, snapshot>>
runVars == <<pc, calc>>
vars == <<dbVars, mainVars, runVars>>

Step == { "idle", "start", "condtions", "condtionFailed", "indexes", "indexFailed",
          "equation", "insertEquation", "filterData", "commit", "cngk", "insertCngk",
          "weibull", "logistic", "train", "xnsy", "complete", "failure" }

Row == [status : XL_Status, version : Versions]

(***************************************************************************)
(* condtion: mapListCondtionPointInfo is not empty.  indexes: size of      *)
(* listSspgIndex.  points: mapListSspgPointInfo is not empty after the     *)
(* filter.  rows: histogram rows still to insert.  source is history: what *)
(* the run has read.                                                       *)
(***************************************************************************)
Calc == [model : ModelIds, version : Versions, source : Sources, condtion : BOOLEAN,
         indexes : Nat, points : BOOLEAN, rows : Nat]

NewCalc(m, v) == [model |-> m, version |-> v, source |-> {v}, condtion |-> FALSE,
                  indexes |-> 0, points |-> FALSE, rows |-> 0]
NoCalc == NewCalc(1, 1)
NoRow == [status |-> 0, version |-> 1]
NoSnapshot == [m \in ModelIds |-> NoRow]

Init ==
  /\ DBInit
  /\ timer = "down"
  /\ cursor = 1
  /\ snapshot = NoSnapshot
  /\ pc = [w \in Workers |-> "idle"]
  /\ calc = [w \in Workers |-> NoCalc]

TypeOK ==
  /\ DBTypeOK
  /\ timer \in {"wait", "scan", "launch", "stopping", "down"}
  /\ cursor \in 1..(NumModels + 1)
  /\ snapshot \in [ModelIds -> Row]
  /\ pc \in [Workers -> Step]
  /\ calc \in [Workers -> Calc]

Active == {w \in Workers : pc[w] # "idle"}

\* The runs that wait for an answer of the Python server.
AtServer == {w \in Workers : pc[w] \in {"weibull", "logistic", "train"}}

\* The configuration of model m as it is in the tables, and CONDITION_TYPE as run c
\* knows it.
Current(m) == Config[m][version[m]]
Type(c) == Config[c.model][c.version].type

-----------------------------------------------------------------------------
(***************************************************************************)
(* timerEvent, on the main thread.  The table is read once; then the       *)
(* models are visited in key order while the runs go on.                   *)
(***************************************************************************)

QueryCalcModel ==
  /\ timer = "wait"
  /\ "late" \in Faults \/ \A w \in Workers : pc[w] # "start"
  /\ \E reopened \in BOOLEAN :
       /\ IsOpen(reopened)
       /\ \E done \in Outcomes("select", reopened) :
            /\ snapshot' = IF done
                             THEN [m \in ModelIds |-> [status |-> status[m],
                                                       version |-> version[m]]]
                             ELSE NoSnapshot
            /\ cursor' = IF done THEN 1 ELSE NumModels + 1
  /\ timer' = "scan"
  /\ UNCHANGED runVars

\* The row of model m as timerEvent has read it.
Copy(m) == Config[m][snapshot[m].version]

\* A faulty variant: a model left at "calculating" is started again.
SubmittedOrCalculating(m) == Copy(m).valid /\ snapshot[m].status \in {1, 2}

Submitted(m) == Copy(m).valid /\ snapshot[m].status = 1

Predicted(m) == Copy(m).valid /\ Copy(m).type \in {4, 5}

(***************************************************************************)
(* activeThreadCount() is read, and only then the run is handed to the     *)
(* pool.  Workers are the pool's threads and the places of its queue: a    *)
(* run beyond MaxThreadCount would wait there for a thread.                *)
(***************************************************************************)

\* A faulty variant: the bound is compared with <=.
CheckPoolOffByOne ==
  /\ timer = "scan" /\ cursor \in ModelIds /\ Submitted(cursor)
  /\ IF Cardinality(Active) <= MaxThreadCount
       THEN timer' = "launch" /\ UNCHANGED cursor
       ELSE cursor' = cursor + 1 /\ UNCHANGED timer
  /\ UNCHANGED <<dbVars, snapshot, runVars>>

\* A faulty variant: one thread is kept free.
CheckPoolKeepOne ==
  /\ timer = "scan" /\ cursor \in ModelIds /\ Submitted(cursor)
  /\ IF Cardinality(Active) < MaxThreadCount - 1
       THEN timer' = "launch" /\ UNCHANGED cursor
       ELSE cursor' = cursor + 1 /\ UNCHANGED timer
  /\ UNCHANGED <<dbVars, snapshot, runVars>>

CheckPool ==
  /\ timer = "scan" /\ cursor \in ModelIds /\ Submitted(cursor)
  /\ IF Cardinality(Active) < MaxThreadCount
       THEN timer' = "launch" /\ UNCHANGED cursor
       ELSE cursor' = cursor + 1 /\ UNCHANGED timer
  /\ UNCHANGED <<dbVars, snapshot, runVars>>

Launch ==
  /\ timer = "launch"
  /\ \E w \in Workers \ Active :
       /\ pc' = [pc EXCEPT ![w] = "start"]
       /\ calc' = [calc EXCEPT ![w] = NewCalc(cursor, snapshot[cursor].version)]
  /\ timer' = "scan"
  /\ cursor' = cursor + 1
  /\ UNCHANGED <<dbVars, snapshot>>

\* startPredictModel runs on the main thread and reads points under the mutex;
\* the alarms it raises are in no table that a run reads.
PredictModel ==
  /\ timer = "scan" /\ cursor \in ModelIds /\ ~Submitted(cursor) /\ Predicted(cursor)
  /\ mutex = Free
  /\ cursor' = cursor + 1
  /\ UNCHANGED <<dbVars, timer, snapshot, runVars>>

SkipModel ==
  /\ timer = "scan" /\ cursor \in ModelIds /\ ~Submitted(cursor) /\ ~Predicted(cursor)
  /\ cursor' = cursor + 1
  /\ UNCHANGED <<dbVars, timer, snapshot, runVars>>

EndOfEvent ==
  /\ timer = "scan" /\ cursor = NumModels + 1
  /\ timer' = "wait"
  /\ cursor' = 1
  /\ snapshot' = NoSnapshot
  /\ UNCHANGED <<dbVars, runVars>>

-----------------------------------------------------------------------------
(***************************************************************************)
(* startCalcModel, on thread w of the pool.                                *)
(***************************************************************************)

\* Thread w goes to step `next` with locals c; a run that returns forgets them.
Goto(w, next, c) ==
  /\ pc' = [pc EXCEPT ![w] = next]
  /\ calc' = [calc EXCEPT ![w] = IF next = "idle" THEN NoCalc ELSE c]
  /\ UNCHANGED mainVars

\* The status is set to "calculating"; that the update failed is ignored.
StartCalcModel(w) ==
  /\ pc[w] = "start"
  /\ UpdateCalcModelStatus(calc[w].model, 2)
  /\ Goto(w, "condtions", calc[w])

\* The filter points: `got` of them have values in the time window, the loop
\* ends at the first that has none.
FetchCondtions(w) ==
  LET m == calc[w].model IN
  /\ pc[w] = "condtions"
  /\ \E done \in BOOLEAN :
       LET size == IF done THEN Current(m).condtions ELSE 0 IN
       /\ Query(done)
       /\ \E got \in 0..size :
            Goto(w, IF got = size THEN "indexes" ELSE "condtionFailed",
                 [calc[w] EXCEPT !.condtion = got > 0, !.source = @ \cup {version[m]}])
  /\ UNCHANGED dbVars

\* Status 4 is reported and the loop is left, but not the run.
CondtionFailed(w) ==
  /\ pc[w] = "condtionFailed"
  /\ UpdateCalcModelStatus(calc[w].model, 4)
  /\ Goto(w, "indexes", calc[w])

\* LeastSquaresCurve::ReturnPoint and LeastSquareSurface::ReturnPoint.
CurveResult(points) == IF points THEN 0 ELSE -1
SurfaceResult(points) == 0

\* The switch on ConditionType: the step that follows the filter.
AfterFilter(type, size, points) ==
  LET fit(result) == IF result = 0 THEN "equation" ELSE "failure"
  IN CASE type \in {1, 2} /\ size \in {2, 4} -> fit(CurveResult(points))
       [] type \in {1, 2} /\ size = 3        -> fit(SurfaceResult(points))
       [] type = 3                           -> "cngk"
       [] type \in {4, 5} /\ points          -> "train"
       [] type = 6                           -> "xnsy"
       [] OTHER                              -> "idle"

\* The calculation points and the filter.  A time stamp is kept only if every
\* index and at least one filter point have a value there.
FetchIndexes(w) ==
  LET m == calc[w].model IN
  /\ pc[w] = "indexes"
  /\ \E done \in BOOLEAN, points \in BOOLEAN :
       LET size == IF done THEN Current(m).indexes ELSE 0 IN
       /\ Query(done)
       /\ \E got \in 0..size :
            /\ points => got = size /\ size > 0 /\ calc[w].condtion
            /\ Goto(w, IF got = size THEN AfterFilter(Type(calc[w]), size, points)
                                     ELSE "indexFailed",
                    [calc[w] EXCEPT !.indexes = size, !.points = points,
                                    !.source = @ \cup {version[m]}])
  /\ UNCHANGED dbVars

IndexFailed(w) ==
  /\ pc[w] = "indexFailed"
  /\ UpdateCalcModelStatus(calc[w].model, 4)
  /\ Goto(w, AfterFilter(Type(calc[w]), calc[w].indexes, calc[w].points), calc[w])

\* Types 1, 2, 3 and 6: the old equation is deleted, the new one inserted.
ReplaceEquation(w) ==
  /\ pc[w] = "equation"
  /\ DeleteEquation(w, calc[w].model)
  /\ Goto(w, "insertEquation", calc[w])

\* Only types 1 and 2 look at the result of insertEquation, and store the points.

\* A faulty variant: the points are not stored.
StoreEquationOnly(w) ==
  /\ pc[w] = "insertEquation"
  /\ \E done \in BOOLEAN :
       /\ InsertEquation(w, calc[w].model, calc[w].source, done)
       /\ Goto(w, IF done THEN "complete" ELSE "idle", calc[w])

StoreEquation(w) ==
  /\ pc[w] = "insertEquation"
  /\ \E done \in BOOLEAN :
       /\ InsertEquation(w, calc[w].model, calc[w].source, done)
       /\ IF Type(calc[w]) \in {1, 2}
            THEN Goto(w, IF done THEN "filterData" ELSE "idle", calc[w])
            ELSE Goto(w, "complete", calc[w])

\* That insertFilterData failed is ignored.
StoreFilterData(w) ==
  /\ pc[w] = "filterData"
  /\ \/ /\ BeginFilterData(w, calc[w].model, IF calc[w].points THEN calc[w].source ELSE {})
        /\ Goto(w, "commit", calc[w])
     \/ /\ TransactionFails
        /\ Goto(w, "complete", calc[w])

CommitPoints(w) ==
  /\ pc[w] = "commit"
  /\ CommitFilterData(w, calc[w].model)
  /\ Goto(w, "complete", calc[w])

\* Type 3: the load histogram, counted from the filter points, is stored (the
\* points are of no use to the run any more) ...
ReplaceHistogram(w) ==
  /\ pc[w] = "cngk"
  /\ DeleteCngkData(w, calc[w].model)
  /\ \E rows \in 0..CngkRows :
       /\ rows > 0 => calc[w].condtion
       /\ Goto(w, "insertCngk", [calc[w] EXCEPT !.rows = rows, !.condtion = FALSE])

\* A faulty variant: the loop over the bars runs once too often.
StoreHistogramOffByOne(w) ==
  /\ pc[w] = "insertCngk"
  /\ \/ /\ calc[w].rows >= 0
        /\ InsertCngkRow(w, calc[w].model, calc[w].source)
        /\ Goto(w, "insertCngk", [calc[w] EXCEPT !.rows = @ - 1])
     \/ /\ calc[w].rows < 0
        /\ ReturnCngkData(w)
        /\ Goto(w, "weibull", calc[w])

\* A faulty variant: the lock is not released before the server is called.
StoreHistogramLocked(w) ==
  /\ pc[w] = "insertCngk"
  /\ \/ /\ calc[w].rows > 0
        /\ InsertCngkRow(w, calc[w].model, calc[w].source)
        /\ Goto(w, "insertCngk", [calc[w] EXCEPT !.rows = @ - 1])
     \/ /\ calc[w].rows = 0
        /\ UNCHANGED dbVars
        /\ Goto(w, "weibull", calc[w])

StoreHistogram(w) ==
  /\ pc[w] = "insertCngk"
  /\ \/ /\ calc[w].rows > 0
        /\ InsertCngkRow(w, calc[w].model, calc[w].source)
        /\ Goto(w, "insertCngk", [calc[w] EXCEPT !.rows = @ - 1])
     \/ /\ calc[w].rows = 0
        /\ ReturnCngkData(w)
        /\ Goto(w, "weibull", calc[w])

\* ... and the Python server fits both distributions or one call throws.

FitDistributions(w) ==
  /\ \/ pc[w] = "weibull" /\ Goto(w, "logistic", calc[w])
     \/ pc[w] = "logistic" /\ Goto(w, "equation", calc[w])
     \/ pc[w] \in {"weibull", "logistic"} /\ Goto(w, "failure", calc[w])
  /\ UNCHANGED dbVars

\* Types 4 and 5: the Python server trains the model; it answers 1 or not, or throws.
TrainModel(w) ==
  /\ pc[w] = "train"
  /\ \E next \in {"complete", "failure"} : Goto(w, next, calc[w])
  /\ UNCHANGED dbVars

\* Type 6: the curves are fitted to stored results; without any, the run returns.
FitXnsyResult(w) ==
  /\ pc[w] = "xnsy"
  /\ \E done, stored \in BOOLEAN :
       /\ Query(done)
       /\ Goto(w, IF CurveResult(done /\ stored) = 0 THEN "equation" ELSE "idle", calc[w])
  /\ UNCHANGED dbVars

Complete(w) ==
  /\ pc[w] = "complete"
  /\ UpdateCalcModelStatus(calc[w].model, 3)
  /\ Goto(w, "idle", calc[w])

Fail(w) ==
  /\ pc[w] = "failure"
  /\ UpdateCalcModelStatus(calc[w].model, 4)
  /\ Goto(w, "idle", calc[w])

RunStep(w) ==
  \/ StartCalcModel(w) \/ FetchCondtions(w) \/ CondtionFailed(w)
  \/ FetchIndexes(w) \/ IndexFailed(w)
  \/ ReplaceEquation(w) \/ StoreEquation(w)
  \/ StoreFilterData(w) \/ CommitPoints(w)
  \/ ReplaceHistogram(w) \/ StoreHistogram(w)
  \/ FitDistributions(w) \/ TrainModel(w) \/ FitXnsyResult(w)
  \/ Complete(w) \/ Fail(w)

TimerStep ==
  QueryCalcModel \/ CheckPool \/ Launch \/ PredictModel \/ SkipModel \/ EndOfEvent

-----------------------------------------------------------------------------
(***************************************************************************)
(* The service is stopped and started (main.cpp), and the environment.     *)
(***************************************************************************)

\* exit(0) ends the event loop; the process ends when the pool is done.
Stop ==
  /\ "stop" \in Faults /\ timer = "wait"
  /\ timer' = "stopping"
  /\ UNCHANGED <<dbVars, cursor, snapshot, runVars>>

Exit ==
  /\ timer = "stopping" /\ Active = {}
  /\ timer' = "down"
  /\ CloseConnection
  /\ UNCHANGED <<cursor, snapshot, runVars>>

Crash ==
  /\ "crash" \in Faults /\ timer # "down"
  /\ timer' = "down"
  /\ cursor' = 1
  /\ snapshot' = NoSnapshot
  /\ pc' = [w \in Workers |-> "idle"]
  /\ calc' = [w \in Workers |-> NoCalc]
  /\ CloseConnection

\* start(), the first time or again: no status is looked at, a run that was cut
\* off is not resumed.
Start ==
  /\ timer = "down"
  /\ timer' = "wait"
  /\ \E opened \in BOOLEAN :
       /\ "loss" \notin Faults => opened
       /\ Open(opened)
  /\ UNCHANGED <<cursor, snapshot, runVars>>

Submit(m) ==
  /\ status[m] \in SubmitFrom
  /\ SubmitRow(m)
  /\ UNCHANGED <<mainVars, runVars>>

Edit(m) ==
  /\ status[m] \in EditFrom
  /\ EditRow(m)
  /\ UNCHANGED <<mainVars, runVars>>

Disconnect ==
  /\ "loss" \in Faults
  /\ LoseConnection
  /\ UNCHANGED <<mainVars, runVars>>

Next ==
  \/ TimerStep
  \/ \E w \in Workers : RunStep(w)
  \/ Stop \/ Exit \/ Crash \/ Start \/ Disconnect
  \/ \E m \in ModelIds : Submit(m) \/ Edit(m)

Spec == Init /\ [][Next]_vars

(***************************************************************************)
(* The timer fires again and again, threads are scheduled, the database    *)
(* and the historian answer or fail.  The sockets to the Python server     *)
(* have no timeout: a run that waits there may wait for ever.  Nobody has  *)
(* to submit a model, and nothing has to break.                            *)
(***************************************************************************)
Fairness ==
  /\ WF_vars(TimerStep)
  /\ WF_vars(Exit) /\ WF_vars(Start)
  /\ \A w \in Workers : WF_vars(RunStep(w) /\ w \notin AtServer)

FairSpec == Spec /\ Fairness

-----------------------------------------------------------------------------
(***************************************************************************)
(* Safety, whatever the environment does.                                  *)
(***************************************************************************)

\* The timer hands a run to the pool only when a thread is free for it, so no
\* run waits in the pool's queue with a copy of the row that grows old.
PoolBound == Cardinality(Active) <= MaxThreadCount

\* insertEquation is no transaction and forgets whether its DELETE was executed, yet
\* a model never has two equations where the server refuses no DELETE: the connection
\* cannot come back between the DELETE and the INSERT.
EquationUnique == \A m \in ModelIds : Len(equation[m]) <= 1

\* A run keeps mutex_ from the first statement of a method to the last.
MutexHeld ==
  \A w \in Workers : pc[w] \in {"insertEquation", "commit", "insertCngk"} => mutex = w

\* Why it holds: mutex_ is held between the two statements and the connection
\* comes back only in queryCalcModel, under mutex_; so a run that is about to
\* insert over a usable connection finds no equation of its model.
EquationGap ==
  /\ MutexHeld
  /\ \A w \in Workers :
       pc[w] = "insertEquation" /\ online => equation[calc[w].model] = << >>

\* The bars of a stored load histogram (insertCNGKData) come from one run: rows
\* of two runs, or of two configurations, are never mixed.
HistogramOfOneRun ==
  \A m \in ModelIds :
    /\ Len(cngkData[m]) <= CngkRows
    /\ \A i, j \in DOMAIN cngkData[m] : cngkData[m][i] = cngkData[m][j]

\* All threads share one connection, so a statement of another thread would
\* become part of the open transaction of insertFilterData.  While it is open no
\* run but its owner changes a table.
TransactionIsolation ==
  [][(tx.open /\ \E w \in Workers : w # mutex /\ <<pc[w], calc[w]>>' # <<pc[w], calc[w]>>)
       => UNCHANGED tables]_vars

(***************************************************************************)
(* Safety in an orderly environment: no connection is lost, every run      *)
(* writes its first status within a timer period, and operators submit a   *)
(* model only from "being configured" or "complete".                       *)
(***************************************************************************)

\* A model is calculated by one run at a time, although the timer decides on a
\* snapshot of the table that runs and operators change meanwhile.
OneRunPerModel ==
  \A v, w \in Active : calc[v].model = calc[w].model => v = w

\* What a calculation with configuration v leaves behind: the equation, and for a
\* curve or surface the points it was fitted to.
IsResult(m, v, rows, points) ==
  LET type == Config[m][v].type IN
  /\ type \in {1, 2, 3, 6} => rows = <<{v}>>
  /\ type \in {1, 2} => \/ points = {v}
                        \/ points = {} /\ Config[m][v].indexes = 3

\* What a model reported complete publishes was computed from its present
\* configuration and no other, although a run reads the parts of it at different
\* times; also after a crash between two statements of the run.
CompleteIsCurrent ==
  \A m \in ModelIds :
    status[m] = 3 => IsResult(m, version[m], equation[m], filterData[m])

\* The runs of model m, and what they work on, are the jobs of ModelJob.
RunsOf(m) == {w \in Active : calc[w].model = m}

Jobs == [m \in ModelIds |-> {<<w, calc[w].version>> : w \in RunsOf(m)}]

Job == INSTANCE ModelJob WITH Runs <- Workers, job <- Jobs

\* The statuses are the life of a job, whatever the timer and the other runs do
\* meanwhile: nobody but the one job of a model touches its results and its status,
\* and it says "complete" after the last of its results.
ImplementsModelJob == Job!JobSpec

(***************************************************************************)
(* Liveness.                                                               *)
(***************************************************************************)

Waits(m) == Current(m).valid /\ status[m] = 1

\* A submitted valid model is calculated in the end, provided the service stays
\* up, the Python server does not hold all threads, and the other models are not
\* submitted for ever (threads are given out in key order, so they could take
\* every one that becomes free).
Progress ==
  \A m \in ModelIds :
    <>[](/\ timer \notin {"stopping", "down"}
         /\ Cardinality(AtServer) < MaxThreadCount
         /\ \A n \in ModelIds \ {m} : ~Waits(n))
      => (Waits(m) ~> ~Waits(m))

\* When no valid model is submitted any more, the runs end: none waits for ever
\* for mutex_ or for another run, also while some wait for the Python server.
RunsEnd ==
  <>[](\A m \in ModelIds : ~Waits(m)) => <>[](Active \subseteq AtServer)

(***************************************************************************)
(* What databasehelper.h says of the program, and the code does not keep.   *)
(***************************************************************************)

\* "2: calculating" (XL_Status): some run calculates the model.
CalculatingIsRun ==
  \A m \in ModelIds : status[m] = 2 => \E w \in Active : calc[w].model = m

\* "4: calculation failed" (XL_Status): a model that is reported failed does not
\* become complete without being calculated again.
FailedIsFinal == [][\A m \in ModelIds : status[m] = 4 => status'[m] # 3]_vars

\* "3: calculation complete" (XL_Status): the equation of the model is stored.
CompleteHasEquation ==
  \A m \in ModelIds :
    status[m] = 3 /\ Current(m).type \in {1, 2, 3, 6} => equation[m] # << >>
=============================================================================
