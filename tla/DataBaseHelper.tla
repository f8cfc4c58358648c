----------------------------- MODULE DataBaseHelper -----------------------------
(***************************************************************************)
(* DataBaseHelper, the singleton through which every thread of the service *)
(* reads and writes the Oracle schema (databasehelper.cpp).                *)
(*                                                                         *)
(* One connection is shared by all threads.  Every method takes mutex_     *)
(* for its whole body, so a method that executes ONE statement is one      *)
(* atomic action guarded by a free mutex.  The methods that execute        *)
(* several statements are one action per statement: the connection may be  *)
(* lost, or the process may die, between two of them.                      *)
(*                                                                         *)
(* Outside a transaction each statement commits on its own.  A statement   *)
(* executed on a lost connection changes nothing, and the server may       *)
(* refuse a statement of a usable one.                                     *)
(*                                                                         *)
(* What operators write about a model (its row of TB_TFNL_MODEL, its rows  *)
(* of TB_TFNL_CONDTION and TB_TFNL_SSPGINDEX) is one of MaxVersion         *)
(* configurations.  What a row of a result holds is abstracted to its      *)
(* source: the set of configurations that were read to compute it.         *)
(***************************************************************************)
EXTENDS Integers, Sequences

CONSTANTS
  NumModels,     \* rows of TB_TFNL_MODEL; the ids are 1..NumModels, in key order
  MaxVersion,    \* bound: the configurations of a model that are told apart
  CngkRows,      \* bound: rows of one load histogram written by insertCNGKData
  Refused,       \* the kinds of statements that a usable connection may refuse
  Workers,       \* the threads of the pool, the callers that hold the mutex
  Free           \* value of mutex_ when no thread holds it

ASSUME SizesAssumption ==
  /\ NumModels \in Nat \ {0}
  /\ MaxVersion \in Nat \ {0}
  /\ CngkRows \in Nat

StatementKinds == {"select", "insert", "delete", "update", "commit"}

ASSUME RefusedAssumption == Refused \subseteq StatementKinds

ASSUME FreeAssumption == Free \notin Workers

ModelIds == 1..NumModels
Versions == 1..MaxVersion

\* XL_STATUS: 0 being configured, 1 submitted, 2 calculating, 3 complete, 4 failed.
XL_Status == 0..4

Sources == SUBSET Versions

VARIABLES
  status,        \* TB_TFNL_MODEL.XL_STATUS
  version,       \* what operators write about each model: its configuration
  equation,      \* TB_TFNL_EQUATION: the rows of each model
  filterData,    \* TB_TFNL_FILTERDATA: the sources of the points of each model
  cngkData,      \* TB_TFNL_CNGKDATA: the rows of each model
  online,        \* is the connection usable
  mutex,         \* mutex_, or the thread that holds it
  tx             \* the transaction of insertFilterData and the rows it has not committed

tables == <<status, version, equation, filterData, cngkData>>
dbVars == <<tables, online, mutex, tx>>

NoTx == [open |-> FALSE, rows |-> {}]

DBInit ==
  /\ status = [m \in ModelIds |-> 0]
  /\ version = [m \in ModelIds |-> 1]
  /\ equation = [m \in ModelIds |-> << >>]
  /\ filterData = [m \in ModelIds |-> {}]
  /\ cngkData = [m \in ModelIds |-> << >>]
  /\ online = FALSE
  /\ mutex = Free
  /\ tx = NoTx

DBTypeOK ==
  /\ status \in [ModelIds -> XL_Status]
  /\ version \in [ModelIds -> Versions]
  /\ equation \in [ModelIds -> Seq(Sources)]
  /\ filterData \in [ModelIds -> Sources]
  /\ cngkData \in [ModelIds -> Seq(Sources)]
  /\ online \in BOOLEAN
  /\ mutex \in Workers \cup {Free}
  /\ tx \in [open : BOOLEAN, rows : Sources]

(***************************************************************************)
(* Statements.                                                             *)
(***************************************************************************)

\* May a statement be executed: never on a lost connection, and on a usable one
\* the server may refuse it.
Outcomes(kind, usable) ==
  IF usable THEN IF kind \in Refused THEN BOOLEAN ELSE {TRUE} ELSE {FALSE}

Outcome(kind) == Outcomes(kind, online)

\* What a statement makes of the rows of model m.
Exec(table, m, rows, done) == IF done THEN [table EXCEPT ![m] = rows] ELSE table

\* A SELECT under the mutex; if it fails the error is only logged and the list is
\* empty.
Query(done) == mutex = Free /\ done \in Outcome("select")

\* A faulty variant: the QMutexLocker is missing.
UpdateStatusUnlocked(m, s) ==
  /\ \E done \in Outcome("update") : status' = Exec(status, m, s, done)
  /\ UNCHANGED <<version, equation, filterData, cngkData, online, mutex, tx>>

UpdateCalcModelStatus(m, s) ==
  /\ mutex = Free
  /\ \E done \in Outcome("update") : status' = Exec(status, m, s, done)
  /\ UNCHANGED <<version, equation, filterData, cngkData, online, mutex, tx>>

(***************************************************************************)
(* queryCalcModel starts with isOpen(), the only place that opens a lost   *)
(* connection again; `reopened` says whether it did: the driver may not    *)
(* have noticed the loss yet, or open() may fail.                          *)
(***************************************************************************)

\* A faulty variant: isOpen() before the lock is taken.
ReopenUnlocked(reopened) ==
  /\ online => reopened
  /\ online' = reopened
  /\ UNCHANGED <<tables, mutex, tx>>

IsOpen(reopened) ==
  /\ mutex = Free
  /\ online => reopened
  /\ online' = reopened
  /\ UNCHANGED <<tables, mutex, tx>>

(***************************************************************************)
(* insertEquation: DELETE, then INSERT, without a transaction.  The method *)
(* returns the result of the INSERT, `done`; that of the DELETE is lost.   *)
(***************************************************************************)

\* A faulty variant: the DELETE is missing.
KeepEquation(w, m) ==
  /\ mutex = Free
  /\ mutex' = w
  /\ UNCHANGED <<tables, online, tx>>

DeleteEquation(w, m) ==
  /\ mutex = Free
  /\ mutex' = w
  /\ \E done \in Outcome("delete") : equation' = Exec(equation, m, << >>, done)
  /\ UNCHANGED <<status, version, filterData, cngkData, online, tx>>

InsertEquation(w, m, source, done) ==
  /\ mutex = w
  /\ mutex' = Free
  /\ done \in Outcome("insert")
  /\ equation' = Exec(equation, m, Append(equation[m], source), done)
  /\ UNCHANGED <<status, version, filterData, cngkData, online, tx>>

(***************************************************************************)
(* insertFilterData: transaction(), DELETE and INSERTs, commit().  The     *)
(* statements that the server refuses are left out of the transaction,     *)
(* which is committed all the same.  A commit that fails is rolled back by *)
(* the code.  The rollback itself can fail only if the connection is gone  *)
(* by then, see LoseConnection, and then the server has discarded the      *)
(* rows: the code only logs it, so both failures leave the same state.     *)
(***************************************************************************)
BeginFilterData(w, m, source) ==
  /\ mutex = Free /\ online
  /\ mutex' = w
  /\ \E deleted \in Outcome("delete"), inserted \in Outcome("insert") :
       tx' = [open |-> TRUE, rows |-> (IF deleted THEN {} ELSE filterData[m])
                                        \cup (IF inserted THEN source ELSE {})]
  /\ UNCHANGED <<tables, online>>

\* transaction() fails and the method returns.
TransactionFails ==
  /\ mutex = Free /\ ~online
  /\ UNCHANGED dbVars

\* A faulty variant: the transaction is rolled back where it should be committed.
RollbackFilterData(w, m) ==
  /\ mutex = w
  /\ mutex' = Free
  /\ tx' = NoTx
  /\ UNCHANGED <<tables, online>>

CommitFilterData(w, m) ==
  /\ mutex = w
  /\ mutex' = Free
  /\ \E done \in Outcome("commit") :
       filterData' = Exec(filterData, m, tx.rows, tx.open /\ done)
  /\ tx' = NoTx
  /\ UNCHANGED <<status, version, equation, cngkData, online>>

(***************************************************************************)
(* insertCNGKData: DELETE, then one INSERT per bar of the histogram, each  *)
(* committed on its own.                                                   *)
(***************************************************************************)

\* A faulty variant: the DELETE is missing.
KeepCngkData(w, m) ==
  /\ mutex = Free
  /\ mutex' = w
  /\ UNCHANGED <<tables, online, tx>>

DeleteCngkData(w, m) ==
  /\ mutex = Free
  /\ mutex' = w
  /\ \E done \in Outcome("delete") : cngkData' = Exec(cngkData, m, << >>, done)
  /\ UNCHANGED <<status, version, equation, filterData, online, tx>>

InsertCngkRow(w, m, source) ==
  /\ mutex = w
  /\ \E done \in Outcome("insert") :
       cngkData' = Exec(cngkData, m, Append(cngkData[m], source), done)
  /\ UNCHANGED <<status, version, equation, filterData, online, mutex, tx>>

ReturnCngkData(w) ==
  /\ mutex = w
  /\ mutex' = Free
  /\ UNCHANGED <<tables, online, tx>>

(***************************************************************************)
(* The environment: operators edit TB_TFNL_MODEL from a session of their   *)
(* own (another program), and connections break.                           *)
(***************************************************************************)

\* Model m is submitted, with the configuration it had or with another one.
SubmitRow(m) ==
  /\ status' = [status EXCEPT ![m] = 1]
  /\ \E v \in Versions : version' = [version EXCEPT ![m] = v]
  /\ UNCHANGED <<equation, filterData, cngkData, online, mutex, tx>>

\* Model m gets another configuration and keeps its status.
EditRow(m) ==
  /\ \E v \in Versions : version' = [version EXCEPT ![m] = v]
  /\ UNCHANGED <<status, equation, filterData, cngkData, online, mutex, tx>>

\* The connection breaks; the server discards what was not committed.
LoseConnection ==
  /\ online
  /\ online' = FALSE
  /\ tx' = NoTx
  /\ UNCHANGED <<tables, mutex>>

\* The process ends: its session, its transaction and its mutex are gone.
CloseConnection ==
  /\ online' = FALSE
  /\ tx' = NoTx
  /\ mutex' = Free
  /\ UNCHANGED tables

\* open() at service start.
Open(opened) ==
  /\ online' = opened
  /\ UNCHANGED <<tables, mutex, tx>>
=================================================================================
