--------------------------------- MODULE ModelJob ---------------------------------
(***************************************************************************)
(* What the calculation promises to those who read TB_TFNL_MODEL, in an    *)
(* orderly environment: XL_STATUS is the life of a job.  A model that is   *)
(* submitted gets one job at a time; only its job writes its results and   *)
(* its status; and a job reports "complete" when the results stored for    *)
(* the model are those of the configuration the model has.                 *)
(***************************************************************************)
EXTENDS Naturals, Sequences

CONSTANTS
  ModelIds,     \* the models
  Versions,     \* the configurations of a model
  Runs,         \* names of jobs
  SubmitFrom,   \* the statuses from which operators submit a model
  EditFrom,     \* the statuses at which they change it without submitting it
  IsResult(_, _, _, _)  \* model, configuration, equation and points: are these its results

VARIABLES
  status,       \* XL_STATUS of each model
  version,      \* the configuration of each model
  job,          \* the jobs of each model, each with its configuration
  equation,     \* the equations stored for each model
  filterData    \* the points stored for each model

jobVars == <<status, version, job, equation, filterData>>

JobInit ==
  /\ status = [m \in ModelIds |-> 0]
  /\ version = [m \in ModelIds |-> 1]
  /\ job = [m \in ModelIds |-> {}]
  /\ equation = [m \in ModelIds |-> << >>]
  /\ filterData = [m \in ModelIds |-> {}]

Submit(m) ==
  /\ status[m] \in SubmitFrom
  /\ status' = [status EXCEPT ![m] = 1]
  /\ \E v \in Versions : version' = [version EXCEPT ![m] = v]
  /\ UNCHANGED <<job, equation, filterData>>

Edit(m) ==
  /\ status[m] \in EditFrom
  /\ \E v \in Versions : version' = [version EXCEPT ![m] = v]
  /\ UNCHANGED <<status, job, equation, filterData>>

Begin(m) ==
  /\ job[m] = {} /\ status[m] = 1
  /\ \E r \in Runs : job' = [job EXCEPT ![m] = {<<r, version[m]>>}]
  /\ UNCHANGED <<status, version, equation, filterData>>

\* "Calculating", or "failed" ahead of the end of the job.
Report(m) ==
  /\ job[m] # {}
  /\ \E s \in {2, 4} : status' = [status EXCEPT ![m] = s]
  /\ UNCHANGED <<version, job, equation, filterData>>

\* A result is withdrawn, or that of the job is stored.
Store(m) ==
  /\ status[m] \in {2, 4}
  /\ \E j \in job[m] :
       \/ /\ \E rows \in {<< >>, <<{j[2]}>>} : equation' = [equation EXCEPT ![m] = rows]
          /\ UNCHANGED filterData
       \/ /\ \E source \in {{}, {j[2]}} : filterData' = [filterData EXCEPT ![m] = source]
          /\ UNCHANGED equation
  /\ UNCHANGED <<status, version, job>>

Complete(m) ==
  /\ \E j \in job[m] : IsResult(m, j[2], equation[m], filterData[m])
  /\ status' = [status EXCEPT ![m] = 3]
  /\ job' = [job EXCEPT ![m] = {}]
  /\ UNCHANGED <<version, equation, filterData>>

\* The job ends without a result; it may not say so.
GiveUp(m) ==
  /\ job[m] # {}
  /\ status' \in {status, [status EXCEPT ![m] = 4]}
  /\ job' = [job EXCEPT ![m] = {}]
  /\ UNCHANGED <<version, equation, filterData>>

\* All jobs end with the process that runs them.
Lost ==
  /\ job' = [m \in ModelIds |-> {}]
  /\ UNCHANGED <<status, version, equation, filterData>>

JobNext ==
  \/ \E m \in ModelIds :
       Submit(m) \/ Edit(m) \/ Begin(m) \/ Report(m) \/ Store(m) \/ Complete(m) \/ GiveUp(m)
  \/ Lost

JobSpec == JobInit /\ [][JobNext]_jobVars
=================================================================================
