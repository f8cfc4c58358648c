--------------------------- MODULE OrderlyRuns_proofs ---------------------------
(***************************************************************************)
(* Theorems about CapacityMonitor in an orderly environment: no connection *)
(* is lost, every run writes its first status within a timer period, the   *)
(* server refuses no statement that writes, and operators submit a model   *)
(* only from "being configured" or "complete".  Crashes, stops, refused    *)
(* SELECTs and any number of models, threads and configurations remain.    *)
(***************************************************************************)
EXTENDS CapacityMonitor_proofs

(***************************************************************************)
(* One run per model.                                                      *)
(***************************************************************************)

Orderly ==
  /\ Faults \cap {"loss", "late"} = {}
  /\ "update" \notin Refused
  /\ SubmitFrom \subseteq {0, 3}

\* The snapshot of timerEvent is out of date, but not about a model that is still to
\* be visited and was submitted when it was taken: its row has not changed.
SnapshotInv ==
  timer \in {"scan", "launch"} =>
    \A m \in ModelIds :
      m >= cursor /\ snapshot[m].status = 1 => status[m] = 1 /\ RunsOf(m) = {}

\* OneRunPerModel alone is not inductive: why the timer finds no model at 1 that a run
\* works on is that the status is 1 before the first step of the run only.
OneRunInv ==
  /\ timer # "down" => online
  /\ timer = "down" => Active = {}
  /\ timer = "launch" => snapshot[cursor].status = 1
  /\ OneRunPerModel
  /\ \A w \in Active :
       status[calc[w].model] \in IF pc[w] = "start" THEN {1} ELSE {2, 4}
  /\ SnapshotInv

\* What a step of a run does to the statuses, when no UPDATE fails: it is never at
\* "start" again, and it leaves its model at 2 or 4 unless it ends.
LEMMA RunEffect ==
  ASSUME Orderly, TypeInv, online, NEW w \in Workers, RunStep(w)
  PROVE  \E next, c :
           /\ Goto(w, next, c) /\ next # "start"
           /\ c.model = calc[w].model /\ c.version = calc[w].version
           /\ \/ UNCHANGED status /\ pc[w] # "start"
              \/ \E s \in {2, 3, 4} : /\ status' = [status EXCEPT ![calc[w].model] = s]
                                      /\ s = 3 => next = "idle"
           /\ UNCHANGED <<version, online>>
<1>. DEFINE m == calc[w].model
            Same(c) == c.model = calc[w].model /\ c.version = calc[w].version
            Effect(next, c) ==
              /\ Goto(w, next, c) /\ next # "start" /\ Same(c)
              /\ \/ UNCHANGED status /\ pc[w] # "start"
                 \/ \E s \in {2, 3, 4} : /\ status' = [status EXCEPT ![m] = s]
                                         /\ s = 3 => next = "idle"
              /\ UNCHANGED <<version, online>>
<1>. SUFFICES \E next, c : Effect(next, c)
  OBVIOUS
<1>. HIDE DEF Effect
<1>0. \A s : UpdateCalcModelStatus(m, s) => /\ status' = [status EXCEPT ![m] = s]
                                            /\ UNCHANGED <<version, online>>
  BY DEF UpdateCalcModelStatus, Exec, Outcome, Outcomes, Orderly
<1>1. ASSUME NEW next, NEW c, NEW s \in {2, 3, 4}, Goto(w, next, c), next # "start",
             Same(c), UpdateCalcModelStatus(m, s), s = 3 => next = "idle"
      PROVE  Effect(next, c)
  BY <1>0, <1>1 DEF Effect
<1>2. ASSUME NEW next, NEW c, Goto(w, next, c), next # "start", Same(c),
             UNCHANGED <<status, version, online>>, pc[w] # "start"
      PROVE  Effect(next, c)
  BY <1>2 DEF Effect
<1>3. \A type, size, points : AfterFilter(type, size, points) # "start"
  BY DEF AfterFilter, CurveResult, SurfaceResult
<1>4. CASE StartCalcModel(w) \/ CondtionFailed(w)
  BY <1>1, <1>4 DEF StartCalcModel, CondtionFailed
<1>5. CASE IndexFailed(w)
  BY <1>1, <1>3, <1>5 DEF IndexFailed
<1>6. CASE Complete(w) \/ Fail(w)
  BY <1>1, <1>6 DEF Complete, Fail
<1>a. \A d, i, p, r, src : /\ Same([calc[w] EXCEPT !.condtion = d, !.source = src])
                          /\ Same([calc[w] EXCEPT !.indexes = i, !.points = p,
                                                  !.source = src])
                          /\ Same([calc[w] EXCEPT !.rows = r, !.condtion = d])
                          /\ Same([calc[w] EXCEPT !.rows = r])
  BY CalcType DEF TypeInv, Calc
<1>7. CASE FetchCondtions(w)
  BY <1>2, <1>a, <1>7, ZenonT(30) DEF FetchCondtions, dbVars, tables
<1>8. CASE FetchIndexes(w)
  <2>1. PICK done \in BOOLEAN, points \in BOOLEAN :
          LET size == IF done THEN Current(m).indexes ELSE 0 IN
          \E got \in 0..size :
            Goto(w, IF got = size THEN AfterFilter(Type(calc[w]), size, points)
                                  ELSE "indexFailed",
                 [calc[w] EXCEPT !.indexes = size, !.points = points,
                                 !.source = @ \cup {version[m]}])
    BY <1>8 DEF FetchIndexes
  <2>. DEFINE size == IF done THEN Current(m).indexes ELSE 0
              c == [calc[w] EXCEPT !.indexes = size, !.points = points,
                                   !.source = @ \cup {version[m]}]
              next(got) == IF got = size THEN AfterFilter(Type(calc[w]), size, points)
                                         ELSE "indexFailed"
  <2>2. PICK got : Goto(w, next(got), c)
    BY <2>1
  <2>3. next(got) # "start"
    BY <1>3
  <2>4. Same(c)
    BY <1>a
  <2>5. pc[w] # "start" /\ UNCHANGED <<status, version, online>>
    BY <1>8 DEF FetchIndexes, dbVars, tables
  <2>. HIDE DEF c, next
  <2>. QED  BY <1>2, <2>2, <2>3, <2>4, <2>5
<1>9. CASE ReplaceEquation(w) \/ StoreEquation(w)
  BY <1>2, <1>9 DEF ReplaceEquation, StoreEquation, DeleteEquation, InsertEquation
<1>10. CASE StoreFilterData(w) \/ CommitPoints(w)
  BY <1>2, <1>10 DEF StoreFilterData, CommitPoints, BeginFilterData, TransactionFails,
     CommitFilterData, dbVars, tables
<1>11. CASE ReplaceHistogram(w)
  <2>1. PICK rows : Goto(w, "insertCngk", [calc[w] EXCEPT !.rows = rows, !.condtion = FALSE])
    BY <1>11 DEF ReplaceHistogram
  <2>. QED  BY <1>2, <1>a, <1>11, <2>1 DEF ReplaceHistogram, DeleteCngkData
<1>12. CASE StoreHistogram(w)
  BY <1>2, <1>a, <1>12 DEF StoreHistogram, InsertCngkRow, ReturnCngkData, tables
<1>13. CASE FitDistributions(w) \/ TrainModel(w) \/ FitXnsyResult(w)
  BY <1>2, <1>13 DEF FitDistributions, TrainModel, FitXnsyResult, dbVars, tables
<1>. QED
  BY <1>4, <1>5, <1>6, <1>7, <1>8, <1>9, <1>10, <1>11, <1>12, <1>13 DEF RunStep

\* A run that moves on, or ends, takes no other run with it.
LEMMA RunOneRunStep ==
  ASSUME Orderly, TypeInv, OneRunInv, NEW w \in Workers, RunStep(w)
  PROVE  OneRunInv'
<1>. DEFINE m == calc[w].model
<1>1. pc[w] # "idle" /\ UNCHANGED mainVars
  BY RunFrame
<1>2. w \in Active /\ timer # "down" /\ online
  BY <1>1 DEF Active, OneRunInv
<1>3. PICK next, c :
        /\ Goto(w, next, c) /\ next # "start" /\ c.model = m
        /\ \/ UNCHANGED status /\ pc[w] # "start"
           \/ \E s \in {2, 3, 4} : /\ status' = [status EXCEPT ![m] = s]
                                   /\ s = 3 => next = "idle"
        /\ UNCHANGED <<version, online>>
  BY <1>2, RunEffect
<1>4. m \in ModelIds /\ status \in [ModelIds -> XL_Status]
  BY CalcType DEF TypeInv, TypeOK, DBTypeOK
<1>5. \A u \in Workers : u # w => pc'[u] = pc[u] /\ calc'[u] = calc[u]
  BY <1>3 DEF Goto, TypeInv, TypeOK
<1>6. pc'[w] = next /\ (next # "idle" => calc'[w].model = m)
  BY <1>3 DEF Goto, TypeInv, TypeOK
<1>7. Active' \subseteq Active /\ \A u \in Active' : calc'[u].model = calc[u].model
  BY <1>1, <1>5, <1>6 DEF Active
<1>8. OneRunPerModel'
  BY <1>7 DEF OneRunInv, OneRunPerModel
<1>9. \A u \in Active : u # w => calc[u].model # m
  BY <1>2 DEF OneRunInv, OneRunPerModel
<1>10. ASSUME NEW u \in Active'
       PROVE  status'[calc'[u].model] \in IF pc'[u] = "start" THEN {1} ELSE {2, 4}
  <2>1. CASE u = w
    <3>1. status[m] \in IF pc[w] = "start" THEN {1} ELSE {2, 4}
      BY <1>2 DEF OneRunInv
    <3>2. next # "idle" /\ calc'[u].model = m
      BY <1>6, <1>10, <2>1 DEF Active
    <3>. QED  BY <1>3, <1>4, <1>6, <2>1, <3>1, <3>2
  <2>2. CASE u # w
    <3>1. u \in Active /\ pc'[u] = pc[u] /\ calc'[u] = calc[u]
      BY <1>5, <1>10, <2>2 DEF Active
    <3>2. calc[u].model # m
      BY <1>9, <2>2, <3>1
    <3>3. status'[calc[u].model] = status[calc[u].model]
      BY <1>3, <1>4, <3>1, <3>2, CalcType DEF TypeInv, Active
    <3>. QED  BY <3>1, <3>3 DEF OneRunInv
  <2>. QED  BY <2>1, <2>2
<1>11. SnapshotInv'
  <2>1. ASSUME NEW n \in ModelIds, RunsOf(n) = {}, status[n] = 1
        PROVE  RunsOf(n)' = {} /\ status'[n] = 1
    <3>1. n # m
      BY <1>2, <2>1 DEF RunsOf
    <3>. QED  BY <1>3, <1>4, <1>7, <2>1, <3>1 DEF RunsOf
  <2>. QED  BY <1>1, <2>1 DEF OneRunInv, SnapshotInv, mainVars
<1>. QED  BY <1>1, <1>2, <1>3, <1>7, <1>8, <1>10, <1>11 DEF OneRunInv, mainVars

\* The timer starts a run only for a model that is at 1, and that no run works on.
LEMMA TimerOneRunStep ==
  ASSUME Orderly, TypeInv, OneRunInv, TimerStep
  PROVE  OneRunInv'
<1>1. CASE QueryCalcModel
  <2>1. /\ \A w \in Workers : pc[w] # "start"
        /\ UNCHANGED <<status, pc, calc>> /\ timer' = "scan" /\ online'
    BY <1>1 DEF QueryCalcModel, Orderly, OneRunInv, IsOpen, tables, runVars
  <2>2. \A m \in ModelIds : snapshot'[m].status = 1 => status[m] = 1
    BY <1>1 DEF QueryCalcModel, NoSnapshot, NoRow
  <2>3. \A m \in ModelIds : status[m] = 1 => RunsOf(m) = {}
    BY <2>1 DEF OneRunInv, RunsOf, Active
  <2>. QED  BY <2>1, <2>2, <2>3 DEF OneRunInv, OneRunPerModel, SnapshotInv, RunsOf, Active
<1>2. CASE CheckPool \/ PredictModel \/ SkipModel \/ EndOfEvent
  <2>1. /\ UNCHANGED <<status, online, pc, calc>> /\ timer # "down" /\ timer' # "down"
        /\ timer' \in {"scan", "launch"} =>
              /\ timer \in {"scan", "launch"} /\ UNCHANGED snapshot
              /\ cursor' \in Nat /\ cursor' >= cursor
        /\ timer' = "launch" => snapshot[cursor].status = 1 /\ UNCHANGED cursor
    BY <1>2, SizesAssumption DEF CheckPool, PredictModel, SkipModel, EndOfEvent, dbVars, tables,
       runVars, Submitted, TypeInv, TypeOK
  <2>2. \A m \in ModelIds : m \in Nat /\ cursor \in Nat
    BY SizesAssumption DEF ModelIds, TypeInv, TypeOK
  <2>. QED  BY <2>1, <2>2 DEF OneRunInv, OneRunPerModel, SnapshotInv, RunsOf, Active
<1>3. CASE Launch
  <2>1. PICK w \in Workers \ Active :
          /\ pc' = [pc EXCEPT ![w] = "start"]
          /\ calc' = [calc EXCEPT ![w] = NewCalc(cursor, snapshot[cursor].version)]
    BY <1>3 DEF Launch
  <2>2. /\ UNCHANGED <<status, online, snapshot>> /\ timer = "launch" /\ timer' = "scan"
        /\ cursor' = cursor + 1
    BY <1>3 DEF Launch, dbVars, tables
  <2>3. cursor \in ModelIds /\ status[cursor] = 1 /\ RunsOf(cursor) = {}
    BY <2>2 DEF TypeInv, OneRunInv, SnapshotInv, ModelIds
  <2>4. /\ calc'[w].model = cursor /\ pc'[w] = "start"
        /\ \A u \in Workers : u # w => pc'[u] = pc[u] /\ calc'[u] = calc[u]
        /\ Active' = Active \cup {w}
    BY <2>1 DEF NewCalc, TypeInv, TypeOK, Active
  <2>5. \A u \in Active : u # w /\ calc[u].model # cursor
    BY <2>3 DEF RunsOf
  <2>6. \A m \in ModelIds : m >= cursor + 1 => m # cursor /\ m >= cursor
    BY <2>3 DEF ModelIds
  <2>7. OneRunPerModel'
    BY <2>4, <2>5 DEF OneRunInv, OneRunPerModel, Active
  <2>8. \A u \in Active' :
          status'[calc'[u].model] \in IF pc'[u] = "start" THEN {1} ELSE {2, 4}
    BY <2>2, <2>3, <2>4, <2>5 DEF OneRunInv, Active
  <2>9. SnapshotInv'
    BY <2>2, <2>4, <2>5, <2>6 DEF OneRunInv, SnapshotInv, RunsOf, Active
  <2>. QED  BY <2>2, <2>7, <2>8, <2>9 DEF OneRunInv
<1>. QED  BY <1>1, <1>2, <1>3 DEF TimerStep

\* The environment submits no model that a run works on.
LEMMA OneRunStep == Orderly /\ TypeInv /\ OneRunInv /\ [Next]_vars => OneRunInv'
<1>. SUFFICES ASSUME Orderly, TypeInv, OneRunInv, [Next]_vars  PROVE OneRunInv'
  OBVIOUS
<1>1. ASSUME NEW w \in Workers, RunStep(w)  PROVE OneRunInv'
  BY <1>1, RunOneRunStep
<1>2. CASE TimerStep
  BY <1>2, TimerOneRunStep
<1>3. CASE Stop \/ Disconnect
  BY <1>3 DEF Stop, Disconnect, Orderly, OneRunInv, OneRunPerModel, SnapshotInv, RunsOf, Active,
     dbVars, tables, runVars
<1>4. CASE Exit \/ Crash
  BY <1>4 DEF Exit, Crash, CloseConnection, OneRunInv, OneRunPerModel, SnapshotInv, Active,
     runVars
<1>5. CASE Start
  BY <1>5 DEF Start, Open, Orderly, OneRunInv, OneRunPerModel, SnapshotInv, Active, tables,
     runVars
<1>6. CASE \E m \in ModelIds : Submit(m) \/ Edit(m)
  <2>1. PICK m \in ModelIds : Submit(m) \/ Edit(m)
    BY <1>6
  <2>2. /\ UNCHANGED <<mainVars, runVars, online>>
        /\ \/ UNCHANGED status
           \/ status' = [status EXCEPT ![m] = 1] /\ status[m] \in {0, 3}
    BY <2>1 DEF Submit, Edit, SubmitRow, EditRow, Orderly
  <2>3. \A n \in ModelIds : n # m => status'[n] = status[n]
    BY <2>2 DEF TypeInv, TypeOK, DBTypeOK
  <2>4. \A u \in Active : calc[u].model \in ModelIds /\ status[calc[u].model] \notin {0, 3}
    BY CalcType DEF TypeInv, OneRunInv, Active
  <2>5. \A u \in Active : status'[calc[u].model] = status[calc[u].model]
    BY <2>2, <2>3, <2>4
  <2>6. SnapshotInv'
    BY <2>2, <2>3 DEF OneRunInv, SnapshotInv, RunsOf, Active, mainVars, runVars
  <2>. QED
    BY <2>2, <2>5, <2>6 DEF OneRunInv, OneRunPerModel, Active, mainVars, runVars
<1>7. CASE UNCHANGED vars
  BY <1>7 DEF vars, dbVars, tables, mainVars, runVars, OneRunInv, OneRunPerModel, SnapshotInv,
     RunsOf, Active
<1>. QED  BY <1>1, <1>2, <1>3, <1>4, <1>5, <1>6, <1>7 DEF Next

\* A service that has not been started has no runs.
LEMMA OneRunInit == Init => OneRunInv
BY DEF Init, OneRunInv, OneRunPerModel, SnapshotInv, Active

\* In an orderly environment timerEvent starts no second run of a model, although it
\* decides on a snapshot of TB_TFNL_MODEL.
THEOREM OneRun ==
  ASSUME Orderly
  PROVE  Spec => []OneRunPerModel
<1>1. OneRunInv => OneRunPerModel
  BY DEF OneRunInv
<1>. QED  BY <1>1, TypeInit, TypeStep, OneRunInit, OneRunStep, PTL DEF Spec

(***************************************************************************)
(* What a complete model publishes, and the jobs of ModelJob.              *)
(***************************************************************************)

\* No statement that writes is refused, and a submitted model is not changed.
Calm ==
  /\ Orderly
  /\ Refused \subseteq {"select"}
  /\ EditFrom \subseteq {0}

\* What the steps of the switch know of the type and the points of their run.
SwitchInv(w) ==
  LET c == calc[w]
      size == Config[c.model][c.version].indexes
  IN  /\ pc[w] = "indexFailed" => c.indexes \in {0, size}
      /\ pc[w] \in {"cngk", "insertCngk", "weibull", "logistic"} => Type(c) = 3
      /\ pc[w] = "train" => Type(c) \in {4, 5}
      /\ pc[w] = "xnsy" => Type(c) = 6
      /\ pc[w] \in {"equation", "insertEquation"} => Type(c) \in {1, 2, 3, 6}
      /\ pc[w] \in {"filterData", "commit"} => Type(c) \in {1, 2}
      /\ pc[w] \in {"equation", "insertEquation", "filterData", "commit"} /\ Type(c) \in {1, 2}
           => c.points \/ size = 3

\* What run w has stored so far.
StoredInv(w) ==
  LET c == calc[w]
      m == c.model
  IN  /\ pc[w] = "insertEquation" => equation[m] = << >>
      /\ pc[w] \in {"filterData", "commit"} => equation[m] = <<{c.version}>>
      /\ pc[w] = "commit" => tx.open /\ tx.rows = IF c.points THEN {c.version} ELSE {}
      /\ pc[w] = "complete" => IsResult(m, c.version, equation[m], filterData[m])

\* A run works on the present configuration of its model, and has read no other.
SourceInv(w) ==
  LET c == calc[w]
  IN  c.version = version[c.model] /\ c.source = {c.version}

\* The rows of the snapshot that are still to be started are the present ones.
VersionInv ==
  timer \in {"scan", "launch"} =>
    \A m \in ModelIds :
      m >= cursor /\ snapshot[m].status = 1 => snapshot[m].version = version[m]

CurrentInv ==
  /\ VersionInv
  /\ \A w \in Active : SwitchInv(w) /\ StoredInv(w) /\ SourceInv(w)
  /\ CompleteIsCurrent

\* The switch sends a run where its type belongs; a fit of a curve needs points, that
\* of a surface three indexes.
LEMMA AfterFilterCases ==
  ASSUME NEW type, NEW size, NEW points \in BOOLEAN,
         NEW next, next = AfterFilter(type, size, points)
  PROVE  /\ next \in {"equation", "failure", "cngk", "train", "xnsy", "idle"}
         /\ next = "equation" => type \in {1, 2} /\ (points \/ size = 3)
         /\ next = "cngk" => type = 3
         /\ next = "train" => type \in {4, 5}
         /\ next = "xnsy" => type = 6
BY DEF AfterFilter, CurveResult, SurfaceResult

\* The tables say of every model but m what they said.
OnlyModel(m) ==
  \A n \in ModelIds \ {m} :
    /\ status'[n] = status[n] /\ equation'[n] = equation[n]
    /\ filterData'[n] = filterData[n]

\* What a step of run w leaves to show: the other runs are about other models, and the
\* transaction is theirs as long as they hold the mutex.
LEMMA RunKeepsOthers ==
  ASSUME TypeInv, SharedInv, OneRunInv, CurrentInv,
         NEW w \in Workers, NEW next, NEW c, pc[w] # "idle", Goto(w, next, c),
         OnlyModel(calc[w].model), UNCHANGED version,
         mutex \in {Free, w} \/ UNCHANGED tx,
         next # "idle" => SwitchInv(w)' /\ StoredInv(w)' /\ SourceInv(w)',
         status'[calc[w].model] = 3 =>
           IsResult(calc[w].model, version[calc[w].model], equation'[calc[w].model],
                    filterData'[calc[w].model])
  PROVE  CurrentInv'
<1>. DEFINE m == calc[w].model
<1>1. w \in Active /\ m \in ModelIds
  BY CalcType DEF Active, TypeInv
<1>2. \A u \in Workers : u # w => pc'[u] = pc[u] /\ calc'[u] = calc[u]
  BY DEF Goto, TypeInv, TypeOK
<1>3. pc'[w] = next
  BY DEF Goto, TypeInv, TypeOK
<1>4. ASSUME NEW u \in Active'
      PROVE  (SwitchInv(u) /\ StoredInv(u) /\ SourceInv(u))'
  <2>1. CASE u = w
    BY <1>3, <1>4, <2>1 DEF Active
  <2>2. CASE u # w
    <3>1. u \in Active /\ pc'[u] = pc[u] /\ calc'[u] = calc[u]
      BY <1>2, <1>4, <2>2 DEF Active
    <3>2. calc[u].model # m /\ calc[u].model \in ModelIds
      BY <1>1, <2>2, <3>1, CalcType DEF OneRunInv, OneRunPerModel, TypeInv, Active
    <3>3. /\ equation'[calc[u].model] = equation[calc[u].model]
          /\ filterData'[calc[u].model] = filterData[calc[u].model]
      BY <3>2 DEF OnlyModel
    <3>4. pc[u] = "commit" => UNCHANGED tx
      BY <2>2, <3>1, FreeAssumption DEF SharedInv, MutexHeld, Active
    <3>5. SwitchInv(u) /\ StoredInv(u) /\ SourceInv(u)
      BY <3>1 DEF CurrentInv
    <3>6. SwitchInv(u)'
      BY <3>1, <3>5 DEF SwitchInv, Type
    <3>7. StoredInv(u)'
      BY <3>1, <3>3, <3>4, <3>5, ZenonT(30) DEF StoredInv, IsResult
    <3>8. SourceInv(u)'
      BY <3>1, <3>5 DEF SourceInv
    <3>. QED  BY <3>6, <3>7, <3>8
  <2>. QED  BY <2>1, <2>2
<1>5. CompleteIsCurrent'
  <2>1. ASSUME NEW n \in ModelIds, status'[n] = 3
        PROVE  IsResult(n, version'[n], equation'[n], filterData'[n])
    <3>1. CASE n = m
      BY <2>1, <3>1
    <3>2. CASE n # m
      BY <2>1, <3>2 DEF OnlyModel, CurrentInv, CompleteIsCurrent, IsResult
    <3>. QED  BY <3>1, <3>2
  <2>2. ASSUME NEW n \in ModelIds, status'[n] = 3
        PROVE  IsResult(n, version[n], equation[n], filterData[n])'
    BY <2>1, <2>2 DEF IsResult
  <2>. QED  BY <2>2 DEF CompleteIsCurrent
<1>6. VersionInv'
  BY DEF CurrentInv, VersionInv, Goto, mainVars
<1>. QED  BY <1>4, <1>5, <1>6 DEF CurrentInv

\* Every step of startCalcModel leaves its run what the later steps rely on.
LEMMA RunCurrentStep ==
  ASSUME Calm, TypeInv, SharedInv, OneRunInv, CurrentInv, NEW w \in Workers, RunStep(w)
  PROVE  CurrentInv'
<1>. DEFINE m == calc[w].model
            v == calc[w].version
            Fine == SwitchInv(w)' /\ StoredInv(w)' /\ SourceInv(w)'
<1>0. /\ m \in ModelIds /\ v \in Versions
      /\ status \in [ModelIds -> XL_Status] /\ equation \in [ModelIds -> Seq(Sources)]
      /\ filterData \in [ModelIds -> Sources]
      /\ pc \in [Workers -> Step] /\ calc \in [Workers -> Calc] /\ calc[w] \in Calc
  BY CalcType DEF TypeInv, TypeOK, DBTypeOK
<1>1. pc[w] # "idle"
  BY RunFrame
<1>2. w \in Active /\ online
  BY <1>1 DEF Active, OneRunInv
<1>3. SwitchInv(w) /\ StoredInv(w) /\ v = version[m] /\ calc[w].source = {v}
  BY <1>2 DEF CurrentInv, SourceInv
<1>4. ASSUME NEW next, NEW c, Goto(w, next, c), OnlyModel(m), UNCHANGED version,
             mutex \in {Free, w} \/ UNCHANGED tx,
             next # "idle" => Fine,
             status'[m] = 3 => IsResult(m, v, equation'[m], filterData'[m])
      PROVE  CurrentInv'
  <2>1. status'[m] = 3 => IsResult(m, version[m], equation'[m], filterData'[m])
    BY <1>3, <1>4
  <2>. QED  BY <1>1, <1>4, <2>1, RunKeepsOthers
<1>. HIDE DEF Fine
\* A status other than 3 is written, or none: the tables keep the results.
<1>5. \A s \in XL_Status :
        UpdateCalcModelStatus(m, s) =>
          /\ OnlyModel(m) /\ status'[m] = s
          /\ UNCHANGED <<version, equation, filterData, tx>>
  BY <1>0, <1>2 DEF UpdateCalcModelStatus, Exec, Outcome, Outcomes, Calm, Orderly, OnlyModel
<1>6. UNCHANGED dbVars => OnlyModel(m) /\ UNCHANGED <<status, version, equation, filterData, tx>>
  BY DEF dbVars, tables, OnlyModel
<1>7. status[m] # 3
  BY <1>2 DEF OneRunInv
\* A run that goes to a step that presupposes nothing.
<1>8. ASSUME NEW next, NEW c, Goto(w, next, c), UNCHANGED version,
             next \in {"condtions", "condtionFailed", "indexes", "failure", "idle"},
             c.model = m, c.version = v, c.source = {v}
      PROVE  next # "idle" => Fine
  BY <1>0, <1>3, <1>8 DEF Fine, Goto, SwitchInv, StoredInv, SourceInv
<1>9. CASE StartCalcModel(w)
  <2>1. Goto(w, "condtions", calc[w]) /\ UpdateCalcModelStatus(m, 2)
    BY <1>9 DEF StartCalcModel
  <2>. QED  BY <1>3, <1>4, <1>5, <1>8, <2>1 DEF XL_Status
<1>10. CASE CondtionFailed(w)
  <2>1. Goto(w, "indexes", calc[w]) /\ UpdateCalcModelStatus(m, 4)
    BY <1>10 DEF CondtionFailed
  <2>. QED  BY <1>3, <1>4, <1>5, <1>8, <2>1 DEF XL_Status
<1>11. CASE Fail(w)
  <2>1. Goto(w, "idle", calc[w]) /\ UpdateCalcModelStatus(m, 4)
    BY <1>11 DEF Fail
  <2>. QED  BY <1>4, <1>5, <2>1 DEF XL_Status
<1>12. CASE Complete(w)
  <2>1. Goto(w, "idle", calc[w]) /\ UpdateCalcModelStatus(m, 3) /\ pc[w] = "complete"
    BY <1>12 DEF Complete
  <2>2. IsResult(m, v, equation[m], filterData[m])
    BY <1>3, <2>1 DEF StoredInv
  <2>. QED  BY <1>4, <1>5, <2>1, <2>2 DEF XL_Status
<1>13. CASE FetchCondtions(w)
  <2>1. PICK size, got :
          Goto(w, IF got = size THEN "indexes" ELSE "condtionFailed",
               [calc[w] EXCEPT !.condtion = got > 0, !.source = @ \cup {version[m]}])
    BY <1>13 DEF FetchCondtions
  <2>. DEFINE next == IF got = size THEN "indexes" ELSE "condtionFailed"
              c == [calc[w] EXCEPT !.condtion = got > 0, !.source = @ \cup {version[m]}]
  <2>2. c.model = m /\ c.version = v /\ c.source = {v}
    BY <1>0, <1>3 DEF Calc
  <2>3. next \in {"condtions", "condtionFailed", "indexes", "failure", "idle"}
    OBVIOUS
  <2>4. UNCHANGED dbVars
    BY <1>13 DEF FetchCondtions
  <2>5. Goto(w, next, c)
    BY <2>1
  <2>6. /\ OnlyModel(m) /\ UNCHANGED <<version, equation, filterData, tx>>
        /\ status'[m] # 3
    BY <1>6, <1>7, <2>4
  <2>. HIDE DEF next, c
  <2>7. next # "idle" => Fine
    BY <1>8, <2>2, <2>3, <2>5, <2>6
  <2>. QED  BY <1>4, <2>5, <2>6, <2>7
\* A run that leaves the filter, with its points, for a step of the switch.
<1>14. ASSUME NEW size, NEW points \in BOOLEAN, NEW next, NEW c,
              next = AfterFilter(Type(calc[w]), size, points), Goto(w, next, c),
              c.model = m, c.version = v, c.source = {v}, c.points = points,
              size \in {0, Config[m][v].indexes}, UNCHANGED version
       PROVE  next # "idle" => Fine
  <2>1. /\ next \in {"equation", "failure", "cngk", "train", "xnsy", "idle"}
        /\ next = "equation" => Type(calc[w]) \in {1, 2} /\ (points \/ size = 3)
        /\ next = "cngk" => Type(calc[w]) = 3
        /\ next = "train" => Type(calc[w]) \in {4, 5}
        /\ next = "xnsy" => Type(calc[w]) = 6
    BY <1>14, AfterFilterCases
  <2>2. ASSUME next # "idle"
        PROVE  pc'[w] = next /\ calc'[w] = c
    BY <1>0, <1>14, <2>2 DEF Goto
  <2>3. ASSUME next # "idle"  PROVE Type(calc'[w]) = Type(calc[w])
    BY <1>14, <2>2, <2>3 DEF Type
  <2>4. ASSUME next # "idle"  PROVE SwitchInv(w)'
    <3>1. ASSUME next = "equation"
          PROVE  calc'[w].points \/ Config[calc'[w].model][calc'[w].version].indexes = 3
      BY <1>14, <2>1, <2>2, <2>4, <3>1
    <3>. QED  BY <2>1, <2>2, <2>3, <2>4, <3>1 DEF SwitchInv
  <2>5. ASSUME next # "idle"  PROVE StoredInv(w)' /\ SourceInv(w)'
    BY <1>3, <1>14, <2>1, <2>2, <2>5 DEF StoredInv, SourceInv
  <2>. QED  BY <2>4, <2>5 DEF Fine
<1>15. CASE FetchIndexes(w)
  <2>1. PICK done \in BOOLEAN, points \in BOOLEAN :
          LET size == IF done THEN Current(m).indexes ELSE 0 IN
          \E got \in 0..size :
            Goto(w, IF got = size THEN AfterFilter(Type(calc[w]), size, points)
                                  ELSE "indexFailed",
                 [calc[w] EXCEPT !.indexes = size, !.points = points,
                                 !.source = @ \cup {version[m]}])
    BY <1>15 DEF FetchIndexes
  <2>. DEFINE size == IF done THEN Current(m).indexes ELSE 0
              c == [calc[w] EXCEPT !.indexes = size, !.points = points,
                                   !.source = @ \cup {version[m]}]
              next(got) == IF got = size THEN AfterFilter(Type(calc[w]), size, points)
                                         ELSE "indexFailed"
  <2>2. PICK got : Goto(w, next(got), c)
    BY <2>1
  <2>3. size \in {0, Config[m][v].indexes}
    BY <1>3 DEF Current
  <2>4. /\ c.model = m /\ c.version = v /\ c.source = {v} /\ c.points = points
        /\ c.indexes = size
    BY <1>0, <1>3 DEF Calc
  <2>5. UNCHANGED dbVars
    BY <1>15 DEF FetchIndexes
  <2>6. /\ OnlyModel(m) /\ UNCHANGED <<version, equation, filterData, tx>>
        /\ status'[m] # 3
    BY <1>6, <1>7, <2>5
  <2>. HIDE DEF c, size
  <2>7. next(got) # "idle" => Fine
    <3>1. CASE got = size
      BY <1>14, <2>2, <2>3, <2>4, <2>6, <3>1
    <3>2. CASE got # size
      <4>1. pc'[w] = "indexFailed" /\ calc'[w] = c
        BY <1>0, <2>2, <3>2 DEF Goto
      <4>. QED
        BY <2>3, <2>4, <2>6, <1>3, <4>1 DEF Fine, SwitchInv, StoredInv, SourceInv
    <3>. QED  BY <3>1, <3>2
  <2>. HIDE DEF next
  <2>. QED  BY <1>4, <2>2, <2>6, <2>7
<1>16. CASE IndexFailed(w)
  <2>. DEFINE next == AfterFilter(Type(calc[w]), calc[w].indexes, calc[w].points)
  <2>1. Goto(w, next, calc[w]) /\ UpdateCalcModelStatus(m, 4) /\ pc[w] = "indexFailed"
    BY <1>16 DEF IndexFailed
  <2>2. calc[w].indexes \in {0, Config[m][v].indexes} /\ calc[w].points \in BOOLEAN
    BY <1>0, <1>3, <2>1 DEF SwitchInv, Calc
  <2>3. OnlyModel(m) /\ status'[m] = 4 /\ UNCHANGED <<version, equation, filterData, tx>>
    BY <1>5, <2>1 DEF XL_Status
  <2>4. next # "idle" => Fine
    BY <1>3, <1>14, <2>1, <2>2, <2>3
  <2>. HIDE DEF next
  <2>. QED  BY <1>4, <2>1, <2>3, <2>4
\* The results are stored one after the other.
<1>17. ASSUME NEW next, Goto(w, next, calc[w]), next # "idle"
       PROVE  pc'[w] = next /\ calc'[w] = calc[w]
  BY <1>0, <1>17 DEF Goto
<1>18. CASE ReplaceEquation(w)
  <2>1. /\ Goto(w, "insertEquation", calc[w]) /\ pc[w] = "equation" /\ mutex = Free
        /\ equation' = [equation EXCEPT ![m] = << >>]
        /\ UNCHANGED <<status, version, filterData, tx>>
    BY <1>2, <1>18 DEF ReplaceEquation, DeleteEquation, Exec, Outcome, Outcomes, Calm
  <2>2. Fine
    <3>1. pc'[w] = "insertEquation" /\ calc'[w] = calc[w]
      BY <1>17, <2>1
    <3>2. equation'[m] = << >>
      BY <1>0, <2>1
    <3>3. SwitchInv(w)'
      BY <1>3, <2>1, <3>1 DEF SwitchInv, Type
    <3>4. StoredInv(w)'
      BY <3>1, <3>2 DEF StoredInv
    <3>5. SourceInv(w)'
      BY <1>3, <2>1, <3>1 DEF SourceInv
    <3>. QED  BY <3>3, <3>4, <3>5 DEF Fine
  <2>. QED  BY <1>0, <1>4, <1>7, <2>1, <2>2 DEF OnlyModel
<1>19. CASE StoreEquation(w)
  <2>1. PICK next \in {"filterData", "complete"} :
          /\ Goto(w, next, calc[w]) /\ pc[w] = "insertEquation" /\ mutex = w
          /\ next = (IF Type(calc[w]) \in {1, 2} THEN "filterData" ELSE "complete")
          /\ equation' = [equation EXCEPT ![m] = Append(equation[m], {v})]
          /\ UNCHANGED <<status, version, filterData, tx>>
    BY <1>2, <1>3, <1>19 DEF StoreEquation, InsertEquation, Exec, Outcome, Outcomes, Calm
  <2>2. equation'[m] = <<{v}>>
    <3>1. equation[m] = << >> /\ equation'[m] = Append(equation[m], {v})
      BY <1>0, <1>3, <2>1 DEF StoredInv
    <3>2. Append(<< >>, {v}) = <<{v}>>
      OBVIOUS
    <3>. QED  BY <3>1, <3>2
  <2>3. pc'[w] = next /\ calc'[w] = calc[w]
    BY <1>17, <2>1
  <2>4. Type(calc'[w]) = Type(calc[w])
    BY <2>3 DEF Type
  <2>5. SwitchInv(w)' /\ SourceInv(w)'
    BY <1>3, <2>1, <2>3, <2>4 DEF SwitchInv, SourceInv, Type
  <2>6. StoredInv(w)'
    BY <2>1, <2>2, <2>3 DEF StoredInv, IsResult, Type
  <2>7. Fine
    BY <2>5, <2>6 DEF Fine
  <2>. QED  BY <1>0, <1>4, <1>7, <2>1, <2>7 DEF OnlyModel
<1>20. CASE StoreFilterData(w)
  <2>. DEFINE source == IF calc[w].points THEN calc[w].source ELSE {}
  <2>1. /\ Goto(w, "commit", calc[w]) /\ pc[w] = "filterData" /\ mutex = Free
        /\ BeginFilterData(w, m, source)
    <3>1. ~TransactionFails
      BY <1>2 DEF TransactionFails
    <3>2. /\ Goto(w, "commit", calc[w]) /\ pc[w] = "filterData"
          /\ BeginFilterData(w, m, source)
      BY <1>20, <3>1, Zenon DEF StoreFilterData
    <3>. QED  BY <3>2 DEF BeginFilterData
  <2>. HIDE DEF source
  <2>2. tx' = [open |-> TRUE, rows |-> source] /\ UNCHANGED tables
    BY <1>2, <2>1 DEF BeginFilterData, Outcome, Outcomes, Calm
  <2>3. source = IF calc[w].points THEN {v} ELSE {}
    BY <1>3 DEF source
  <2>4. pc'[w] = "commit" /\ calc'[w] = calc[w]
    BY <1>17, <2>1
  <2>5. SwitchInv(w)' /\ SourceInv(w)'
    BY <1>3, <2>1, <2>2, <2>4 DEF SwitchInv, SourceInv, Type, tables
  <2>6. StoredInv(w)'
    BY <1>3, <2>1, <2>2, <2>3, <2>4 DEF StoredInv, tables
  <2>7. Fine
    BY <2>5, <2>6 DEF Fine
  <2>. QED  BY <1>4, <1>7, <2>1, <2>2, <2>7 DEF OnlyModel, tables
<1>21. CASE CommitPoints(w)
  <2>1. /\ Goto(w, "complete", calc[w]) /\ pc[w] = "commit" /\ mutex = w
        /\ filterData' = [filterData EXCEPT ![m] = IF calc[w].points THEN {v} ELSE {}]
        /\ UNCHANGED <<status, version, equation>>
    BY <1>2, <1>3, <1>21 DEF CommitPoints, CommitFilterData, StoredInv, Exec, Outcome, Outcomes, Calm
  <2>2. Type(calc[w]) \in {1, 2} /\ (calc[w].points \/ Config[m][v].indexes = 3)
    BY <1>3, <2>1 DEF SwitchInv
  <2>3. pc'[w] = "complete" /\ calc'[w] = calc[w]
    BY <1>17, <2>1
  <2>4. IsResult(m, v, equation'[m], filterData'[m])
    BY <1>0, <1>3, <2>1, <2>2 DEF IsResult, StoredInv
  <2>5. SwitchInv(w)' /\ SourceInv(w)'
    BY <1>3, <2>1, <2>3 DEF SwitchInv, SourceInv
  <2>6. StoredInv(w)'
    BY <2>3, <2>4 DEF StoredInv, IsResult
  <2>7. Fine
    BY <2>5, <2>6 DEF Fine
  <2>. QED  BY <1>0, <1>4, <1>7, <2>1, <2>7 DEF OnlyModel
<1>22. CASE ReplaceHistogram(w)
  <2>1. PICK rows : Goto(w, "insertCngk", [calc[w] EXCEPT !.rows = rows, !.condtion = FALSE])
    BY <1>22 DEF ReplaceHistogram
  <2>. DEFINE c == [calc[w] EXCEPT !.rows = rows, !.condtion = FALSE]
  <2>2. c.model = m /\ c.version = v /\ c.source = {v}
    BY <1>0, <1>3 DEF Calc
  <2>3. /\ mutex = Free /\ pc[w] = "cngk"
        /\ UNCHANGED <<status, version, equation, filterData, tx>>
    BY <1>22 DEF ReplaceHistogram, DeleteCngkData
  <2>. HIDE DEF c
  <2>4. pc'[w] = "insertCngk" /\ calc'[w] = c
    BY <1>0, <2>1 DEF Goto, c
  <2>5. Fine
    BY <1>3, <2>2, <2>3, <2>4 DEF Fine, SwitchInv, StoredInv, SourceInv, Type
  <2>. QED  BY <1>4, <1>7, <2>1, <2>3, <2>5 DEF OnlyModel
<1>23. CASE StoreHistogram(w)
  <2>1. PICK next \in {"insertCngk", "weibull"} :
          \/ \E rows : Goto(w, next, [calc[w] EXCEPT !.rows = rows])
          \/ Goto(w, next, calc[w])
    BY <1>23 DEF StoreHistogram
  <2>2. \A rows : LET c == [calc[w] EXCEPT !.rows = rows]
                  IN  c.model = m /\ c.version = v /\ c.source = {v}
    BY <1>0, <1>3 DEF Calc
  <2>3. PICK c : Goto(w, next, c) /\ c.model = m /\ c.version = v /\ c.source = {v}
    BY <1>3, <2>1, <2>2
  <2>4. /\ mutex = w /\ pc[w] = "insertCngk"
        /\ UNCHANGED <<status, version, equation, filterData, tx>>
    BY <1>23 DEF StoreHistogram, InsertCngkRow, ReturnCngkData, tables
  <2>5. pc'[w] = next /\ calc'[w] = c
    BY <1>0, <2>1, <2>3 DEF Goto
  <2>6. Fine
    BY <1>3, <2>1, <2>3, <2>4, <2>5 DEF Fine, SwitchInv, StoredInv, SourceInv, Type
  <2>. QED  BY <1>4, <1>7, <2>3, <2>4, <2>6 DEF OnlyModel
\* The Python server answers, or the stored results are fitted.
<1>24. ASSUME NEW next \in {"logistic", "equation", "failure", "complete", "idle"},
              Goto(w, next, calc[w]), UNCHANGED dbVars,
              next = "logistic" => Type(calc[w]) = 3,
              next = "equation" => Type(calc[w]) \in {3, 6},
              next = "complete" => Type(calc[w]) \in {4, 5}
       PROVE  CurrentInv'
  <2>1. /\ OnlyModel(m) /\ UNCHANGED <<version, equation, filterData, tx>>
        /\ status'[m] # 3
    BY <1>6, <1>7, <1>24
  <2>2. ASSUME next # "idle"  PROVE pc'[w] = next /\ calc'[w] = calc[w]
    BY <1>17, <1>24, <2>2
  <2>3. ASSUME next # "idle"  PROVE SwitchInv(w)' /\ SourceInv(w)'
    <3>1. pc'[w] = next /\ calc'[w] = calc[w]
      BY <2>2, <2>3
    <3>2. SwitchInv(w)'
      <4>1. /\ next \in {"logistic", "equation", "failure", "complete"}
            /\ next = "logistic" => Type(calc[w]) = 3
            /\ next = "equation" => Type(calc[w]) \in {3, 6}
        BY <1>24, <2>3
      <4>. QED  BY <3>1, <4>1 DEF SwitchInv, Type
    <3>3. SourceInv(w)'
      BY <1>3, <2>1, <3>1 DEF SourceInv
    <3>. QED  BY <3>2, <3>3
  <2>4. ASSUME next # "idle"  PROVE StoredInv(w)'
    BY <1>24, <2>1, <2>2, <2>4 DEF StoredInv, IsResult, Type
  <2>5. next # "idle" => Fine
    BY <2>3, <2>4 DEF Fine
  <2>. QED  BY <1>4, <1>24, <2>1, <2>5
<1>25. CASE FitDistributions(w)
  BY <1>3, <1>24, <1>25 DEF FitDistributions, SwitchInv
<1>26. CASE TrainModel(w)
  BY <1>3, <1>24, <1>26 DEF TrainModel, SwitchInv
<1>27. CASE FitXnsyResult(w)
  BY <1>3, <1>24, <1>27 DEF FitXnsyResult, SwitchInv
<1>. QED
  BY <1>9, <1>10, <1>11, <1>12, <1>13, <1>15, <1>16, <1>18, <1>19, <1>20, <1>21, <1>22, <1>23,
     <1>25, <1>26, <1>27 DEF RunStep

\* What a state without a change of the tables and the runs keeps.
LEMMA TablesKeep ==
  ASSUME CurrentInv, UNCHANGED <<tables, tx, pc, calc>>
  PROVE  /\ \A w \in Active' : SwitchInv(w)' /\ StoredInv(w)' /\ SourceInv(w)'
         /\ CompleteIsCurrent'
<1>. USE DEF tables
<1>1. ASSUME NEW w \in Active'  PROVE SwitchInv(w)' /\ StoredInv(w)' /\ SourceInv(w)'
  <2>1. SwitchInv(w) /\ StoredInv(w) /\ SourceInv(w)
    BY <1>1 DEF CurrentInv, Active
  <2>2. SwitchInv(w)'
    BY <2>1 DEF SwitchInv, Type
  <2>3. StoredInv(w)'
    BY <2>1 DEF StoredInv, IsResult
  <2>4. SourceInv(w)'
    BY <2>1 DEF SourceInv
  <2>. QED  BY <2>2, <2>3, <2>4
<1>2. CompleteIsCurrent'
  BY DEF CurrentInv, CompleteIsCurrent, IsResult
<1>. QED  BY <1>1, <1>2

\* A run starts with the present configuration of its model.
LEMMA TimerCurrentStep ==
  ASSUME Calm, TypeInv, OneRunInv, CurrentInv, TimerStep
  PROVE  CurrentInv'
<1>1. CASE QueryCalcModel
  <2>1. UNCHANGED <<tables, tx, pc, calc>>
    BY <1>1 DEF QueryCalcModel, IsOpen, runVars
  <2>2. VersionInv'
    BY <1>1, <2>1 DEF QueryCalcModel, NoSnapshot, NoRow, VersionInv, tables
  <2>. QED  BY <2>1, <2>2, TablesKeep DEF CurrentInv
<1>2. CASE CheckPool \/ PredictModel \/ SkipModel \/ EndOfEvent
  <2>1. UNCHANGED <<tables, tx, pc, calc>>
    BY <1>2 DEF CheckPool, PredictModel, SkipModel, EndOfEvent, dbVars, runVars
  <2>2. /\ timer' \in {"scan", "launch"} =>
              /\ timer \in {"scan", "launch"} /\ UNCHANGED snapshot
              /\ cursor' \in Nat /\ cursor' >= cursor
    BY <1>2, SizesAssumption DEF CheckPool, PredictModel, SkipModel, EndOfEvent, TypeInv, TypeOK
  <2>3. \A m \in ModelIds : m \in Nat /\ cursor \in Nat
    BY SizesAssumption DEF ModelIds, TypeInv, TypeOK
  <2>4. VersionInv'
    BY <2>1, <2>2, <2>3 DEF CurrentInv, VersionInv, tables
  <2>. QED  BY <2>1, <2>4, TablesKeep DEF CurrentInv
<1>3. CASE Launch
  <2>1. PICK w \in Workers \ Active :
          /\ pc' = [pc EXCEPT ![w] = "start"]
          /\ calc' = [calc EXCEPT ![w] = NewCalc(cursor, snapshot[cursor].version)]
    BY <1>3 DEF Launch
  <2>2. /\ UNCHANGED <<tables, tx, snapshot>> /\ timer = "launch" /\ timer' = "scan"
        /\ cursor' = cursor + 1
    BY <1>3 DEF Launch, dbVars
  <2>3. cursor \in ModelIds /\ snapshot[cursor].version = version[cursor]
    BY <2>2 DEF TypeInv, OneRunInv, CurrentInv, VersionInv, ModelIds
  <2>4. /\ calc'[w] = NewCalc(cursor, version[cursor]) /\ pc'[w] = "start"
        /\ \A u \in Workers : u # w => pc'[u] = pc[u] /\ calc'[u] = calc[u]
        /\ Active' = Active \cup {w}
    BY <2>1, <2>3 DEF TypeInv, TypeOK, Active
  <2>5. SwitchInv(w)' /\ StoredInv(w)' /\ SourceInv(w)'
    BY <2>2, <2>4 DEF SwitchInv, StoredInv, SourceInv, NewCalc, tables
  <2>6. ASSUME NEW u \in Active' \ {w}
        PROVE  SwitchInv(u)' /\ StoredInv(u)' /\ SourceInv(u)'
    <3>1. /\ pc'[u] = pc[u] /\ calc'[u] = calc[u]
          /\ SwitchInv(u) /\ StoredInv(u) /\ SourceInv(u)
      BY <2>4, <2>6 DEF CurrentInv, Active
    <3>. QED
      BY <2>2, <3>1, ZenonT(30) DEF SwitchInv, StoredInv, SourceInv, Type, IsResult, tables
  <2>7. CompleteIsCurrent'
    BY <2>2 DEF CurrentInv, CompleteIsCurrent, IsResult, tables
  <2>8. VersionInv'
    <3>1. \A m \in ModelIds : m >= cursor + 1 => m >= cursor
      BY <2>3 DEF ModelIds
    <3>. QED  BY <2>2, <3>1 DEF CurrentInv, VersionInv, tables
  <2>. QED  BY <2>5, <2>6, <2>7, <2>8 DEF CurrentInv
<1>. QED  BY <1>1, <1>2, <1>3 DEF TimerStep

\* Operators change no model that a run works on, or that is to be started.
LEMMA CurrentStep ==
  ASSUME Calm, TypeInv, SharedInv, OneRunInv, CurrentInv, [Next]_vars
  PROVE  CurrentInv'
<1>1. ASSUME NEW w \in Workers, RunStep(w)  PROVE CurrentInv'
  BY <1>1, RunCurrentStep
<1>2. CASE TimerStep
  BY <1>2, TimerCurrentStep
<1>3. CASE Stop \/ Start
  <2>1. UNCHANGED <<tables, tx, pc, calc>> /\ timer' \notin {"scan", "launch"}
    BY <1>3 DEF Stop, Start, Open, dbVars, runVars
  <2>. QED  BY <2>1, TablesKeep DEF CurrentInv, VersionInv
<1>4. CASE Exit \/ Crash
  <2>1. Active' = {} /\ UNCHANGED tables /\ timer' = "down"
    BY <1>4 DEF Exit, Crash, CloseConnection, Active, runVars
  <2>. QED  BY <2>1 DEF CurrentInv, VersionInv, CompleteIsCurrent, IsResult, tables
<1>5. CASE Disconnect
  BY <1>5 DEF Disconnect, Calm, Orderly
<1>6. CASE \E m \in ModelIds : Submit(m) \/ Edit(m)
  <2>1. PICK m \in ModelIds : Submit(m) \/ Edit(m)
    BY <1>6
  <2>2. /\ UNCHANGED <<mainVars, runVars, equation, filterData, tx>>
        /\ status[m] \in {0, 3} /\ status'[m] # 3
        /\ \A n \in ModelIds \ {m} : status'[n] = status[n] /\ version'[n] = version[n]
    <3>1. status \in [ModelIds -> XL_Status] /\ version \in [ModelIds -> Versions]
      BY DEF TypeInv, TypeOK, DBTypeOK
    <3>2. /\ UNCHANGED <<mainVars, runVars, equation, filterData, tx>>
          /\ status[m] \in {0, 3}
          /\ \E s \in {0, 1} : status' = [status EXCEPT ![m] = s]
          /\ \E v \in Versions : version' = [version EXCEPT ![m] = v]
      <4>1. CASE Submit(m)
        BY <3>1, <4>1 DEF Submit, SubmitRow, Calm, Orderly
      <4>2. CASE Edit(m)
        <5>1. status[m] = 0 /\ UNCHANGED status
          BY <4>2 DEF Edit, EditRow, Calm
        <5>2. status' = [status EXCEPT ![m] = 0]
          BY <3>1, <5>1
        <5>. QED  BY <4>2, <5>1, <5>2 DEF Edit, EditRow
      <4>. QED  BY <2>1, <4>1, <4>2
    <3>. QED  BY <3>1, <3>2
  <2>3. ASSUME NEW u \in Active'
        PROVE  SwitchInv(u)' /\ StoredInv(u)' /\ SourceInv(u)'
    <3>1. u \in Active
      BY <2>2, <2>3 DEF Active, runVars
    <3>2. calc[u].model \in ModelIds \ {m}
      BY <2>2, <3>1, CalcType DEF TypeInv, OneRunInv, Active
    <3>3. SwitchInv(u) /\ StoredInv(u) /\ SourceInv(u)
      BY <3>1 DEF CurrentInv
    <3>4. SwitchInv(u)'
      BY <2>2, <3>3 DEF SwitchInv, Type, runVars
    <3>5. StoredInv(u)'
      BY <2>2, <3>3 DEF StoredInv, IsResult, runVars
    <3>6. SourceInv(u)'
      BY <2>2, <3>2, <3>3 DEF SourceInv, runVars
    <3>. QED  BY <3>4, <3>5, <3>6
  <2>4. CompleteIsCurrent'
    BY <2>2 DEF CurrentInv, CompleteIsCurrent, IsResult
  <2>5. VersionInv'
    BY <2>2 DEF CurrentInv, VersionInv, OneRunInv, SnapshotInv, mainVars
  <2>. QED  BY <2>3, <2>4, <2>5 DEF CurrentInv
<1>7. CASE UNCHANGED vars
  <2>1. UNCHANGED <<tables, tx, pc, calc, mainVars>>
    BY <1>7 DEF vars, dbVars, runVars
  <2>. QED  BY <2>1, TablesKeep DEF CurrentInv, VersionInv, mainVars, tables
<1>. QED  BY <1>1, <1>2, <1>3, <1>4, <1>5, <1>6, <1>7 DEF Next

\* The invariant of the orderly runs.
OrderlyInv == TypeInv /\ SharedInv /\ OneRunInv /\ CurrentInv

LEMMA OrderlyInit == Init => OrderlyInv
<1>1. Init => SharedInv
  BY DEF Init, DBInit, NoTx, SharedInv, Active, MutexHeld, EquationGap, EquationUnique
<1>2. Init => CurrentInv
  BY DEF Init, DBInit, CurrentInv, VersionInv, Active, CompleteIsCurrent
<1>. QED  BY <1>1, <1>2, TypeInit, OneRunInit DEF OrderlyInv

LEMMA OrderlyStep == Calm /\ OrderlyInv /\ [Next]_vars => OrderlyInv'
BY TypeStep, SharedStep, OneRunStep, CurrentStep DEF OrderlyInv, Calm

\* In a calm environment a model that is reported complete publishes the equation and
\* the points of its present configuration (startCalcModel, insertEquation,
\* insertFilterData).
THEOREM CompletePublishesCurrent ==
  ASSUME Calm
  PROVE  Spec => []CompleteIsCurrent
<1>1. OrderlyInv => CompleteIsCurrent
  BY DEF OrderlyInv, CurrentInv
<1>. QED  BY <1>1, OrderlyInit, OrderlyStep, PTL DEF Spec

\* A run is the job of its model; the job ends with the run.
LEMMA RunJob ==
  ASSUME OrderlyInv, NEW w \in Workers, NEW next, NEW c, pc[w] # "idle", Goto(w, next, c),
         c.model = calc[w].model, c.version = calc[w].version
  PROVE  /\ <<w, calc[w].version>> \in Jobs[calc[w].model]
         /\ next # "idle" => UNCHANGED Jobs
         /\ next = "idle" => Jobs' = [Jobs EXCEPT ![calc[w].model] = {}]
<1>. DEFINE m == calc[w].model
<1>1. m \in ModelIds /\ w \in Active
  BY CalcType DEF OrderlyInv, TypeInv, Active
<1>2. \A u \in Workers : u # w => pc'[u] = pc[u] /\ calc'[u] = calc[u]
  BY DEF OrderlyInv, TypeInv, TypeOK, Goto
<1>3. pc'[w] = next /\ (next # "idle" => calc'[w] = c)
  BY DEF OrderlyInv, TypeInv, TypeOK, Goto
<1>4. <<w, calc[w].version>> \in Jobs[m]
  BY <1>1 DEF Jobs, RunsOf
<1>5. ASSUME next # "idle"  PROVE UNCHANGED Jobs
  <2>1. Active' = Active
    BY <1>1, <1>2, <1>3, <1>5 DEF Active
  <2>2. \A u \in Active : calc'[u].model = calc[u].model /\ calc'[u].version = calc[u].version
    BY <1>2, <1>3, <1>5 DEF Active
  <2>3. \A n \in ModelIds : RunsOf(n)' = RunsOf(n)
    BY <2>1, <2>2 DEF RunsOf
  <2>. QED  BY <2>2, <2>3 DEF Jobs, RunsOf
<1>6. ASSUME next = "idle"  PROVE Jobs' = [Jobs EXCEPT ![m] = {}]
  <2>1. Active' = Active \ {w}
    BY <1>2, <1>3, <1>6 DEF Active
  <2>2. \A u \in Active : u # w => calc[u].model # m
    BY <1>1 DEF OrderlyInv, OneRunInv, OneRunPerModel
  <2>3. \A n \in ModelIds : n = m => RunsOf(n)' = {}
    BY <1>2, <2>1, <2>2 DEF RunsOf, Active
  <2>4. ASSUME NEW n \in ModelIds \ {m}
        PROVE  RunsOf(n)' = RunsOf(n) /\ \A u \in RunsOf(n) : calc'[u] = calc[u]
    BY <1>2, <2>1, <2>4 DEF RunsOf, Active
  <2>5. Jobs'[m] = {} /\ \A n \in ModelIds \ {m} : Jobs'[n] = Jobs[n]
    BY <1>1, <2>3, <2>4 DEF Jobs
  <2>. QED  BY <2>5 DEF Jobs
<1>. QED  BY <1>4, <1>5, <1>6

\* Each statement of a run is a step of its job, the rest of startCalcModel a stutter.
LEMMA RunSimulates ==
  ASSUME Calm, OrderlyInv, NEW w \in Workers, RunStep(w)
  PROVE  [Job!JobNext]_Job!jobVars
<1>. DEFINE m == calc[w].model
            v == calc[w].version
<1>0. /\ m \in ModelIds /\ v \in Versions /\ calc[w] \in Calc
      /\ status \in [ModelIds -> XL_Status] /\ equation \in [ModelIds -> Seq(Sources)]
      /\ filterData \in [ModelIds -> Sources]
  BY CalcType DEF OrderlyInv, TypeInv, TypeOK, DBTypeOK
<1>1. pc[w] # "idle" /\ w \in Active /\ online
  BY RunFrame DEF Active, OrderlyInv, OneRunInv
<1>2. /\ SwitchInv(w) /\ StoredInv(w) /\ calc[w].source = {v}
      /\ pc[w] # "start" => status[m] \in {2, 4}
  BY <1>1 DEF OrderlyInv, OneRunInv, CurrentInv, SourceInv
<1>3. ASSUME NEW next, NEW c, Goto(w, next, c), c.model = m, c.version = v
      PROVE  /\ <<w, v>> \in Jobs[m]
             /\ next # "idle" => UNCHANGED Jobs
             /\ next = "idle" => Jobs' = [Jobs EXCEPT ![m] = {}]
  BY <1>1, <1>3, RunJob
\* A status is written.
<1>4. \A s : UpdateCalcModelStatus(m, s) =>
               /\ status' = [status EXCEPT ![m] = s]
               /\ UNCHANGED <<version, equation, filterData>>
  BY <1>1 DEF UpdateCalcModelStatus, Exec, Outcome, Outcomes, Calm, Orderly
<1>5. ASSUME NEW s \in {2, 4}, NEW next, Goto(w, next, calc[w]), UpdateCalcModelStatus(m, s),
             next = "idle" => s = 4
      PROVE  Job!JobNext
  <2>1. CASE next = "idle"
    <3>1. Job!GiveUp(m)
      BY <1>3, <1>4, <1>5, <2>1 DEF Job!GiveUp
    <3>. QED  BY <1>0, <3>1 DEF Job!JobNext
  <2>2. CASE next # "idle"
    <3>1. Job!Report(m)
      BY <1>3, <1>4, <1>5, <2>2 DEF Job!Report
    <3>. QED  BY <1>0, <3>1 DEF Job!JobNext
  <2>. QED  BY <2>1, <2>2
\* The tables that ModelJob is about stay as they are.
<1>6. ASSUME NEW next, NEW c, Goto(w, next, c), c.model = m, c.version = v,
             UNCHANGED <<status, version, equation, filterData>>
      PROVE  [Job!JobNext]_Job!jobVars
  <2>1. CASE next = "idle"
    <3>1. Job!GiveUp(m)
      BY <1>3, <1>6, <2>1 DEF Job!GiveUp
    <3>. QED  BY <1>0, <3>1 DEF Job!JobNext
  <2>2. CASE next # "idle"
    BY <1>3, <1>6, <2>2 DEF Job!jobVars
  <2>. QED  BY <2>1, <2>2
\* A result is withdrawn or stored.
<1>7. ASSUME NEW next, next # "idle", Goto(w, next, calc[w]), pc[w] # "start",
             UNCHANGED <<status, version>>,
             \/ /\ \E rows \in {<< >>, <<{v}>>} : equation' = [equation EXCEPT ![m] = rows]
                /\ UNCHANGED filterData
             \/ /\ \E points \in {{}, {v}} : filterData' = [filterData EXCEPT ![m] = points]
                /\ UNCHANGED equation
      PROVE  Job!JobNext
  <2>1. <<w, v>> \in Jobs[m] /\ UNCHANGED Jobs /\ <<w, v>>[2] = v
    BY <1>3, <1>7
  <2>2. Job!Store(m)
    BY <1>2, <1>7, <2>1 DEF Job!Store
  <2>. QED  BY <1>0, <2>2 DEF Job!JobNext
<1>8. CASE StartCalcModel(w)
  BY <1>5, <1>8 DEF StartCalcModel
<1>9. CASE CondtionFailed(w)
  BY <1>5, <1>9 DEF CondtionFailed
<1>10. CASE IndexFailed(w)
  BY <1>5, <1>10 DEF IndexFailed
<1>11. CASE Fail(w)
  BY <1>5, <1>11 DEF Fail
<1>12. CASE Complete(w)
  <2>1. Goto(w, "idle", calc[w]) /\ UpdateCalcModelStatus(m, 3) /\ pc[w] = "complete"
    BY <1>12 DEF Complete
  <2>2. IsResult(m, v, equation[m], filterData[m])
    BY <1>2, <2>1 DEF StoredInv
  <2>3. <<w, v>> \in Jobs[m] /\ Jobs' = [Jobs EXCEPT ![m] = {}] /\ <<w, v>>[2] = v
    BY <1>3, <2>1
  <2>4. Job!Complete(m)
    BY <1>4, <2>1, <2>2, <2>3 DEF Job!Complete
  <2>. QED  BY <1>0, <2>4 DEF Job!JobNext
<1>13. ASSUME \E next, c : Goto(w, next, c) /\ c.model = m /\ c.version = v,
              UNCHANGED <<status, version, equation, filterData>>
       PROVE  [Job!JobNext]_Job!jobVars
  BY <1>6, <1>13
<1>14. \E next, c : Goto(w, next, c) /\ c.model = m /\ c.version = v
  BY <1>1, RunEffect, ZenonT(30) DEF OrderlyInv, Calm
<1>15. CASE FetchCondtions(w) \/ FetchIndexes(w) \/ FitDistributions(w) \/ TrainModel(w)
              \/ FitXnsyResult(w)
  <2>1. UNCHANGED dbVars
    BY <1>15 DEF FetchCondtions, FetchIndexes, FitDistributions, TrainModel, FitXnsyResult
  <2>. QED  BY <1>13, <1>14, <2>1 DEF dbVars, tables
<1>16. CASE ReplaceHistogram(w) \/ StoreHistogram(w) \/ StoreFilterData(w)
  <2>1. UNCHANGED <<status, version, equation, filterData>>
    BY <1>16 DEF ReplaceHistogram, StoreHistogram, StoreFilterData, DeleteCngkData, InsertCngkRow,
       ReturnCngkData, BeginFilterData, TransactionFails, dbVars, tables
  <2>. QED  BY <1>13, <1>14, <2>1
<1>17. CASE ReplaceEquation(w)
  <2>1. /\ Goto(w, "insertEquation", calc[w]) /\ pc[w] = "equation"
        /\ equation' = [equation EXCEPT ![m] = << >>]
        /\ UNCHANGED <<status, version, filterData>>
    BY <1>1, <1>17 DEF ReplaceEquation, DeleteEquation, Exec, Outcome, Outcomes, Calm
  <2>. QED  BY <1>7, <2>1
<1>18. CASE StoreEquation(w)
  <2>1. PICK next \in {"filterData", "complete"} :
          /\ Goto(w, next, calc[w]) /\ pc[w] = "insertEquation"
          /\ equation' = [equation EXCEPT ![m] = Append(equation[m], {v})]
          /\ UNCHANGED <<status, version, filterData>>
    BY <1>1, <1>2, <1>18 DEF StoreEquation, InsertEquation, Exec, Outcome, Outcomes, Calm
  <2>2. Append(<< >>, {v}) = <<{v}>>
    OBVIOUS
  <2>3. equation' = [equation EXCEPT ![m] = <<{v}>>]
    BY <1>2, <2>1, <2>2 DEF StoredInv
  <2>. QED  BY <1>7, <2>1, <2>3
<1>19. CASE CommitPoints(w)
  <2>1. /\ Goto(w, "complete", calc[w]) /\ pc[w] = "commit"
        /\ filterData' = [filterData EXCEPT ![m] = IF calc[w].points THEN {v} ELSE {}]
        /\ UNCHANGED <<status, version, equation>>
    BY <1>1, <1>2, <1>19 DEF CommitPoints, CommitFilterData, StoredInv, Exec, Outcome, Outcomes, Calm
  <2>2. PICK points \in {{}, {v}} : filterData' = [filterData EXCEPT ![m] = points]
    BY <2>1
  <2>. QED  BY <1>7, <2>1, <2>2
<1>. QED
  BY <1>8, <1>9, <1>10, <1>11, <1>12, <1>15, <1>16, <1>17, <1>18, <1>19 DEF RunStep

\* Launch is the beginning of a job, a crash the end of all, and what operators do is
\* the same for both.
LEMMA StepSimulates ==
  ASSUME Calm, OrderlyInv, [Next]_vars
  PROVE  [Job!JobNext]_Job!jobVars
<1>1. ASSUME NEW w \in Workers, RunStep(w)  PROVE [Job!JobNext]_Job!jobVars
  BY <1>1, RunSimulates
<1>2. ASSUME UNCHANGED <<tables, pc, calc>>  PROVE [Job!JobNext]_Job!jobVars
  <2>1. UNCHANGED Jobs
    BY <1>2 DEF Jobs, RunsOf, Active
  <2>. QED  BY <1>2, <2>1 DEF Job!jobVars, tables
<1>3. CASE Launch
  <2>1. PICK w \in Workers \ Active :
          /\ pc' = [pc EXCEPT ![w] = "start"]
          /\ calc' = [calc EXCEPT ![w] = NewCalc(cursor, snapshot[cursor].version)]
    BY <1>3 DEF Launch
  <2>2. UNCHANGED tables /\ timer = "launch"
    BY <1>3 DEF Launch, dbVars
  <2>3. /\ cursor \in ModelIds /\ status[cursor] = 1 /\ RunsOf(cursor) = {}
        /\ snapshot[cursor].version = version[cursor]
    BY <2>2 DEF OrderlyInv, TypeInv, OneRunInv, SnapshotInv, CurrentInv, VersionInv, ModelIds
  <2>4. /\ calc'[w] = NewCalc(cursor, version[cursor]) /\ pc'[w] = "start"
        /\ \A u \in Workers : u # w => pc'[u] = pc[u] /\ calc'[u] = calc[u]
        /\ Active' = Active \cup {w}
    BY <2>1, <2>3 DEF OrderlyInv, TypeInv, TypeOK, Active
  <2>5. Jobs[cursor] = {}
    BY <2>3 DEF Jobs
  <2>6. ASSUME NEW n \in ModelIds, n # cursor  PROVE Jobs'[n] = Jobs[n]
    <3>1. RunsOf(n)' = RunsOf(n) /\ \A u \in RunsOf(n) : calc'[u] = calc[u]
      BY <2>4, <2>6 DEF RunsOf, Active, NewCalc
    <3>. QED  BY <3>1 DEF Jobs
  <2>7. \A n \in ModelIds : n = cursor => RunsOf(n)' = {w}
    <3>1. calc'[w].model = cursor /\ w \in Active'
      BY <2>4 DEF NewCalc
    <3>2. \A u \in Active' : u # w => calc'[u].model # cursor
      BY <2>3, <2>4 DEF RunsOf, Active
    <3>. QED  BY <3>1, <3>2 DEF RunsOf
  <2>8. Jobs'[cursor] = {<<w, version[cursor]>>}
    BY <2>3, <2>4, <2>7 DEF Jobs, NewCalc
  <2>9. Jobs' = [Jobs EXCEPT ![cursor] = {<<w, version[cursor]>>}]
    BY <2>6, <2>8 DEF Jobs
  <2>10. Job!Begin(cursor)
    BY <2>2, <2>3, <2>5, <2>9 DEF Job!Begin, tables
  <2>. QED  BY <2>3, <2>10 DEF Job!JobNext
<1>4. CASE Crash
  <2>1. Active' = {} /\ UNCHANGED tables
    BY <1>4 DEF Crash, CloseConnection, Active
  <2>2. Jobs' = [m \in ModelIds |-> {}]
    BY <2>1 DEF Jobs, RunsOf
  <2>3. Job!Lost
    BY <2>1, <2>2 DEF Job!Lost, tables
  <2>. QED  BY <2>3 DEF Job!JobNext
<1>5. ASSUME NEW m \in ModelIds, Submit(m) \/ Edit(m)  PROVE [Job!JobNext]_Job!jobVars
  <2>1. UNCHANGED Jobs
    BY <1>5 DEF Submit, Edit, runVars, Jobs, RunsOf, Active
  <2>2. Job!Submit(m) \/ Job!Edit(m)
    BY <1>5, <2>1 DEF Submit, Edit, SubmitRow, EditRow, Job!Submit, Job!Edit
  <2>. QED  BY <2>2 DEF Job!JobNext
<1>6. CASE QueryCalcModel \/ CheckPool \/ PredictModel \/ SkipModel \/ EndOfEvent
  BY <1>2, <1>6 DEF QueryCalcModel, IsOpen, CheckPool, PredictModel, SkipModel, EndOfEvent,
     dbVars, runVars
<1>7. CASE Stop \/ Exit \/ Start \/ Disconnect
  BY <1>2, <1>7 DEF Stop, Exit, Start, Disconnect, CloseConnection, Open, LoseConnection, dbVars,
     runVars
<1>8. CASE UNCHANGED vars
  BY <1>2, <1>8 DEF vars, dbVars, runVars
<1>. QED
  BY <1>1, <1>3, <1>4, <1>5, <1>6, <1>7, <1>8 DEF Next, TimerStep

\* In a calm environment the calculation of models is ModelJob: the statuses in
\* TB_TFNL_MODEL are the life of one job per model, whatever timerEvent, the other runs
\* and crashes do between its statements.
THEOREM RunsImplementModelJob ==
  ASSUME Calm
  PROVE  Spec => ImplementsModelJob
<1>1. Init => Job!JobInit
  BY DEF Init, DBInit, Job!JobInit, Jobs, RunsOf, Active
<1>2. OrderlyInv /\ [Next]_vars => [Job!JobNext]_Job!jobVars
  BY StepSimulates
<1>. QED
  BY <1>1, <1>2, OrderlyInit, OrderlyStep, PTL DEF Spec, ImplementsModelJob, Job!JobSpec
=============================================================================
