# CapacityMonitor in TLA+

CapacityMonitor is a Windows service (Qt 4, C++).  Every ten seconds it reads the
load-following models of a power plant from an Oracle database.  A model that an
operator has submitted is *calculated* on a thread pool: its points are read from a
historian, filtered, fitted (or sent to a Python server over Thrift), and the result
and a status are written back.  A model of real-time evaluation is *predicted* on the
main thread: two values are compared and an alarm is raised or ended.

This directory holds a TLA+ model of that service, the configurations that model-check
it with TLC, and theorems about it that TLAPS proves.  `PROJECT.json` says which lines
each definition models.

## Inventory

| part | state it keeps | operations | what is hard about it |
|---|---|---|---|
| timer (`capacitymonitor.cpp:18`) | the iterator over the rows just read | `timerEvent`: read all models, start runs, predict | decides on a snapshot while runs and operators change the table; reads the size of the pool, then starts a run |
| calculation (`capacitymonitor.cpp:106`) | locals of `startCalcModel`, one copy per pool thread | fetch filter points, fetch indexes, filter, fit / train, store, report | up to four runs at once; failures in the middle; results of calls ignored; ends that write no status |
| points, filter, histogram (`capacitymonitor.cpp:126`, `:199`, `:633`, `:693`) | maps of points, local to a run | collect, remove, lay out, count | values missing at some time stamps; conditions keyed by point name; limits; a map that is filled while it is iterated; an uninitialised read |
| alarms (`capacitymonitor.cpp:492`) | `mapCalcModelAlarm`, in memory | `startPredictModel` | the map and `TB_TFNL_ALARM` are written in separate steps; a restart forgets the map |
| `DataBaseHelper` (`databasehelper.cpp`) | one connection, one mutex; the tables | one method per statement or group of statements | transactions and single statements of all threads on one connection; the connection breaks and only `queryCalcModel` opens it again |
| `LeastSquaresCurve`, `LeastSquareSurface` | none | `ReturnPoint` | the result code for no points; a matrix of 36 sums written out by hand |
| Thrift calls (generated) | a socket per run; in the concurrent client, a table of waiting threads | four calls, a processor | replies in any order, read by any thread; exceptions; a connection that breaks; a server that never answers |
| Thrift structs (generated) | the object that is read | `read` and `write` of ten structs | a peer of another version; fields missing, repeated, unknown; an end in the middle |
| service (`main.cpp`) | none | `start`, `stop` | what a restart finds |
| `ConfigIni`, `RtdbApp`, log file | settings | read once | nothing of interest here |

The main thread calls `DataBaseHelper`, starts runs, and emits `sendPredictModel`, which
is connected directly and so runs inside `timerEvent`.  Pool threads call
`DataBaseHelper`, the historian and the Python server.  All threads meet at
`DataBaseHelper::mutex_`.  Outside the process, operators edit the models with another
program, and Oracle, the historian, the network and the Python server fail on their own.

What makes each part right:

* timer: no more runs than threads; never two runs of one model, when operators and
  the machine behave; a submitted model is started in the end;
* calculation: what is published for a complete model belongs to its configuration;
  every run ends; the status says what the runs do (it does not, see *Findings*);
* points: what is kept, handed to a fit and counted is what the conditions and the
  historian say, whatever is missing;
* `DataBaseHelper`: one equation per model; a histogram of one run; a transaction that
  holds no statement of another thread;
* alarms: one open alarm per model, raised and ended when the plant says so;
* fits: the equations that are solved are those of a least squares fit;
* clients: a call ends, with the answer to this call or with an exception;
* structs: what is read is what was sent, or the read throws, and the next message
  begins where this one ends.

## Modules

| module | models |
|---|---|
| `DataBaseHelper` | the tables, the connection, `mutex_`, and each method the calculation uses |
| `CapacityMonitor` | timer, thread pool, every branch of `startCalcModel`, service start and stop, crashes, operators; extends `DataBaseHelper` |
| `ModelJob` | what readers of `TB_TFNL_MODEL` rely on: the abstract specification of a calculation |
| `AlarmMonitor` | the whole service: `CapacityMonitor` with the statements of `startPredictModel` in place of its single step `PredictModel`; it is shown to implement `CapacityMonitor` |
| `LeastSquares` | the systems of equations of the two fits, and what a least squares fit is |
| `CalcPoints` | inside one run: the loops over points, the filter, the layout for fit and training, the fits, the load histogram; extends `LeastSquares` |
| `RemoteCall` | what a caller of the Python server relies on: the abstract specification of a call |
| `ServiceConnection` | streams to the server, its processor, and their failures |
| `ServiceClients` | the plain and the concurrent generated client; extends `ServiceConnection`, implements `RemoteCall` |
| `ServiceStructs` | inside one message: the readers and writers of the arguments and results |
| `MC...` | the instances for TLC |
| `..._proofs` | theorems and proofs; `OrderlyRuns_proofs` and `AlarmMonitor_proofs` build on `CapacityMonitor_proofs`; `CalcLayout_proofs` (the points of fits and trainings, the equations) on `CalcPoints_proofs` (what is collected and kept), and `CalcHistogram_proofs` on both |

Definitions named *a faulty variant* are not part of the system: each is a plausible bug
of the definition below it, and shows that the property it breaks can fail.

### `DataBaseHelper` and `CapacityMonitor`

`status[m]` is `XL_STATUS` of model `m` in `TB_TFNL_MODEL`.  `version[m]` numbers the
*configuration* of the model, which is everything else operators write about it: its row
(type, validity, time window, limits) and its rows of the condition and index tables.
`Config[m][v]` gives what a configuration decides: the type, `IS_VALID` and the numbers of
condition and index rows.  `equation`, `filterData` and `cngkData` are the result tables; a
row is abstracted to its *source*, the set of configurations that were read to compute it.
A run takes its type and its time window from the copy of the row the timer made
(`calc[w].version`), but reads conditions and indexes from the tables later, so a source
may have two members.

`online` is the connection: a statement on a lost connection changes nothing and a query
on it returns nothing, as in `QSqlQuery`.  `Refused` says which kinds of statements the
server may refuse on a usable connection (a lock, a full tablespace, a constraint).
A commit may be refused, too; the rollback that follows it fails only if the connection is
gone, and then the server discards what was open.
`mutex` is `DataBaseHelper::mutex_`; a method with one statement is one action guarded by
`mutex = Free`; a method with several is one action per statement, with the mutex held
between them, so that a connection may break or the process may die there.  `tx` is the
transaction of `insertFilterData`: a refused statement is left out of it and it is
committed all the same.

`timer`, `cursor`, `snapshot` are the main thread: `QueryCalcModel` reads all rows under
the mutex, then each model in key order is refused or accepted by the pool (`CheckPool`,
`Launch`), predicted, or skipped.  The service begins `"down"` and is started by `Start`.
`pc[w]` and `calc[w]` are a pool thread and the locals of its `startCalcModel`;
`calc[w].source` is the only one the code does not have.

| steps of a run | code |
|---|---|
| `StartCalcModel` | status 2, line 111; the result of the update is ignored |
| `FetchCondtions`, `CondtionFailed` | lines 126-154; a point without values writes status 4 and leaves the loop only |
| `FetchIndexes`, `IndexFailed`, `AfterFilter` | lines 163-266 and the switch; which outcomes the filter can have is `CalcPoints!Outcome` |
| `ReplaceEquation`, `StoreEquation`, `StoreFilterData`, `CommitPoints` | `insertEquation` and `insertFilterData` |
| `ReplaceHistogram`, `StoreHistogram`, `FitDistributions` | type 3 |
| `TrainModel` | types 4 and 5; in this step and those of `FitDistributions` a run waits for the server (`AtServer`) |
| `FitXnsyResult` | type 6 |
| `Complete`, `Fail` | status 3, status 4 |

The environment is switched on piece by piece with `Faults`: `"late"` lets a timer event
come before a run has written its first status (nothing in the code prevents it: the run
may wait for the mutex that the timer gets first), `"loss"` breaks connections, `"crash"`
kills the process, `"stop"` stops the service.  `SubmitFrom` says from which statuses
operators submit a model, with the configuration it has or another one, and `EditFrom` at
which they change its configuration without submitting it.

### `ModelJob`

The promise of the comment on `XL_Status`: a submitted model gets one job at a time; only
that job touches the results and the status; it says "complete" when the results stored
are those of the configuration the model has, and it may end without a result, also
without saying so.  Timer, snapshots, pool, mutex, connection and the steps between two
statements are not in it.  `CapacityMonitor!Job` maps the runs of a model to its jobs.

### `AlarmMonitor`

`mapCalcModelAlarm` is the map in memory, `alarms[m]` the rows of `TB_TFNL_ALARM` of model
`m` without an end time, `near[m]` the limits the unit is near to (`PlantMoves` changes
them at any time), `historian` the connection to the historian, `predict` the statement of
`startPredictModel` still to execute.  `RaiseAlarm` writes the map, `InsertTFNLAlarm` the
row; `UpdateTFNLAlarm` writes the end and then takes the alarm off the map; `NothingToDo`
is the prediction that changes nothing.  Stops and crashes (`ServiceEnds`) lose the map and
not the rows.  A value that cannot be read is arbitrary: the `Tag` of line 101 is not
initialised.  Operators may make a model invalid, or turn it into the other limit, while
its alarm is open: the next prediction compares with the new limit, or does not happen.

### `CalcPoints`

A run over the rows it may find (`Inputs`), each with the answer of the historian to the
read of its point: values at some time stamps, or an error, which `GetHisValue` turns into
none.  Two rows on one point are two reads, and the second may differ from the first, or
fail.  A condition is stored under the name of its point before the point is read, so the
last row *tried* governs all values of its point (`Tried`, `Governs`), even if its own read
gave none and ended the loop.  Each iteration of the loops is a step:
`FetchCondtion`, `FetchIndex`, `Filter`, `CountLoad`, `Divide`; the layout functions, pure
and without a loop the filter could disturb, are one step (`Prepare`), and so are the fits
to what was laid out (`Fit`), up to the system of equations that `LeastSquares` says they
solve.  Maps are functions
on their keys, a `QMapIterator` is the set of keys it has still to visit (it iterates a
copy of the map, so `remove` and insertion do not disturb it).  Values are multiples of
1/`Unit`; percentages are fractions.  `FH_Condtion` is uninitialised when a time stamp has
no load (`MayCount`): then 0 may or may not be counted.

### `LeastSquares`

`polyfit` and `Calculation` build the matrices as the code does: by powers in a loop, and
as 36 entries and 6 right sides in the order of `Edata` and `Ndata`.  `Normal` is the
reference: the normal equations of any list of terms.  Whether a matrix has an inverse is
not looked at by the code and not by the model either: `inv()` and rounding are left out.

### `RemoteCall`, `ServiceConnection`, `ServiceClients`

A message is a record of method, kind, number and the result field that is set; what it
carries is the call it belongs to.  `DispatchCall` is the processor: it answers one of the
requests that have arrived, in any order, by a result, by a `CalcException` the method
declares, by a `TApplicationException`, and by the latter for a method it does not know.
`startCalcModel` uses the plain client with a connection of its own: `OpenTransport`,
`SyncSend`, `SyncRecv`; when a call throws, the socket is closed as its scope is left.
`CapacityMonitorServiceConcurrentClient` and the processor are generated beside it and the
service creates neither (the processor is what the Python server does with a call); the
concurrent client shares a connection:
`GenerateSeqId`, `Send`, `GetPending`, `ReadMessage`; a thread reads whichever message is
next and hands it over.  The class `TConcurrentClientSyncInfo` that does the waiting is in
the Thrift library and is modelled from the calls and comments in the generated code.

### `ServiceStructs`

The generated readers differ only in the fields they know, and so do the writers.  `Fields`
holds these fields for each of the ten structs, `Required` the flags, and one reader and
one writer (`WireFields`) stand for all.  What is on the connection is a sequence of tokens
as `TBinaryProtocol` gives them: the head of a field, a value, the head of a list, a stop.
`WriteStruct` is this program writing; `PeerWrites`, `PeerStops` are a Python server
generated from another version of the interface; `Lose` ends the connection in the middle.

The reader takes one step for each turn of its loops.  `stage` says which loop it is in: of
the fields of the struct, of the elements of a list (`field`, with `left` elements to come
and those of `list` read), or of the fields of an inner struct, which is an element of the
list or the exception of a result (`part`).  `ReadScalarField`, `ReadListBegin`,
`ReadStructBegin` and `SkipField` are the branches of the `switch`, `ReadElement` and `EndList`
the `for` over a list, and `ReadStop` the end of a struct with the test of its flags.
`Open` follows a value token by token with the stack of the types that are still open: it is
what `skip` does, however deep the value, and by `Encodes` also what it means that tokens
are a value of a type.

A reader blocks until its bytes have come, so it may as well start when writing has ended.
What a reader that takes tokens for something else makes of them depends on bytes the model
does not have; it ends as `"garbled"`.  After an exception the partly filled object is thrown
away by every caller, so it is not modelled further.  After a read that returned, the next
struct comes on the same connection (`NextStruct`); `InSync` is the reason that
`ServiceClients` may take a message as a whole.  Of what Thrift can send, the types `bool`, `byte`,
`i64`, `map` and `set` and the depth at which `skip` gives up are left out.

## Runs

| run | what it checks | instance |
|---|---|---|
| `shared_connection` | `TypeOK`, `PoolBound`, `EquationUnique`, `EquationGap`, `HistogramOfOneRun`, `TransactionIsolation` | a curve and a histogram model, lost connections, crashes, refused INSERTs, UPDATEs and commits |
| `orderly_runs` | `OneRunPerModel`, `CompleteIsCurrent`, `ImplementsModelJob` | a curve that becomes a surface and a model of stored results; crash, stop, edits, resubmission, refused SELECTs |
| `submitted_progress` | `Progress`, `RunsEnd` | a histogram and a trained model, a server that may never answer, crashes |
| `alarms_known` | `AlarmTypeOK`, `OpenAlarmKnown`, `AlarmIsEnded` | one unit with three configurations (a limit, the same made invalid, the other limit), a historian that comes and goes |
| `alarms_restart` | `KnownAlarmOpen`, `AlarmIsRaised`, `ImplementsCapacityMonitor` | an evaluated model beside a curve, stops and crashes between any two statements, a historian that comes and goes |
| `service_calls` | `ClientsTypeOK`, `OneMessagePerCall`, `GivenUpIfBroken`, `ImplementsRemoteCall` | a run with its own connection and two threads that share one, a method the server does not know, breaks |
| `calc_points` | `PointsTypeOK`, `FilteredPoints`, `Outcome`, `FitInputs`, `Fitted`, `TrainingRows`, `CountedLoads`, `Shares` | about thirteen thousand inputs |
| `service_structs` | `StructsTypeOK`, `InSync`, `ReadsWhatWasSent`, `Verdict`, `RoundTrip` | each struct of the calls, written by this program or by a peer of another version, one after another on one connection |

Bounds.  The service runs have at most two models, configurations 1..`MaxVersion`, and at
most two active runs (three places, so that a third could be seen).  Two models are the fewest
that contend for the pool and the connection; two runs of one model are the fewest that
overwrite each other's results; a second version is the fewest that can be mixed up with
the first, and the three of `alarms_known` are the kinds of change an alarm can meet; one
bar of a histogram (`CngkRows`) is enough to see bars of two runs side by side, because
a second run would append its own and exceed `CngkRows`.  `shared_connection` has
one configuration per model, because a second one multiplies its two million states; that
bars of two configurations do not mix either, nor with more bars or edits meanwhile, is
the theorem `OneHistogram`, which has no bound.  `MaxAlarms` is the number of open alarms of a model
that are told apart; when more are open, the last number stands for several
(`CreateUuid`), which is why only properties that survive that are checked with 1.  The
pool threads are symmetric; symmetry is used for safety runs only.  Two threads of the
concurrent client are the fewest that hand messages over, and one call each is enough for
replies to overtake; the second call of a caller is covered by the proofs, which have no
bound.  The inputs of `calc_points` come in three families: values below, on and above
the limits under every flag, with up to two conditions on two points or on one, where the
two reads give every pair of answers, a failing one included; up to four
indexes in any order with values here and there or a failing read; three loads, each
missing, outside its limits, in one bar, or with a gap between the bars, beside flows on and
above 3, and with a second condition on the load that is read or fails.
In `service_structs` a peer writes up to `MaxFields` fields, four, so that every field of the
widest struct can come with one more: repeated, unknown, or of another type (261 thousand
states; the proofs have no bound on fields, elements, members and values).  There are two
values where repeating a field must be noticed, complete and incomplete elements, and lists
of the wrong elements.  A connection that ends earlier than within the last field is a
message with fewer fields, so `Lose` cuts the last field and the stop at every token, when
the reader stands before them: it reads what comes before in any case.

The orderly runs assume what the code relies on without enforcing it: no connection is
lost, no statement that writes is refused, a run writes its first status within a timer
period, operators submit a model only at 0 or 3 and otherwise change it only at 0.  Without
the first two, a lost first status starts the model again, or a model is complete without
its result; without the third, a second event starts it twice; with 4 in `SubmitFrom`, the
run that reported 4 and went on meets the run of the new submission; a model that is
changed at 1 or 2 gets a result of both configurations, and one that is changed at 3 keeps
the result of the old one.
`OpenAlarmKnown` and `AlarmIsEnded` are checked without losses, stops, crashes and refused
statements, after which they do not hold: an alarm that was open stays open in the table
for ever and a second one is inserted beside it.

`CHECK_DEADLOCK FALSE` stands only in `service_calls`, where callers have used up
`MaxCalls`.

### Findings

Four runs check what a comment of the repository says, and TLC finds a behaviour of the
code that disagrees.  The comments are the one at `databasehelper.h:28` on `XL_Status` and,
for the last run, the one at `capacitymonitor.cpp:357` on the list of loads.

| run | comment | what the code does |
|---|---|---|
| `stuck_calculating` | 2 is "being calculated" | a run of type 4 or 5 without points returns and leaves 2 |
| `failed_then_complete` | 4 is "calculation failed" | the run writes 4, goes on and writes 3 |
| `complete_without_equation` | 3 is "calculation complete" | `insertEquation` failed, its result is ignored |
| `unfiltered_loads` | "values of points that meet the filter conditions" | the histogram is counted from the points as they were read, and limits count as inclusive whatever their flags say |

`CountedLoads` says how far the code is from that last comment: the loads are those that
meet every condition, those the filter rejects though the load itself is within its closed
limits, and zeros for some time stamps without a load, since `FH_Condtion` is uninitialised.
`stuck_calculating` has no faults; a crash leaves a model at 2 as well, which no run shows.

Observed while modelling, without a run: `LeastSquareSurface::ReturnPoint` returns 0 for
no points although its comment (`LeastSquareSurface.h:39`) promises -1 on failure
(`SurfaceResult`); the description of a second-stage point written "ⅠⅠ级" contains "Ⅰ级"
and is taken for the first stage (`Kind`); the limits of a row whose read failed replace
those of an earlier row on the same point, whose values were read (`Governs`).

### Fairness

`FairSpec` assumes weak fairness of the timer (Qt fires it again and again), of each run
outside the calls of the Python server (threads are scheduled, the historian answers or
fails), of the end of a stopping process and of its restart.  Nothing is assumed of
operators, faults or the Python server: the sockets have no timeout, so a run may wait at
the server for ever.  `Progress` therefore speaks of behaviours in which the server does not
hold every thread and the service stays up (one that is stopping waits for its threads, a
hung one included), and `RunsEnd` says that all runs end that do not wait there.  Weak
fairness of a run is enough although runs wait for a mutex: both properties only speak of
behaviours in which the other runs end and leave the mutex free.  `FairServiceSpec` assumes
the same of the whole service and nothing of the plant and the historian; `alarms_restart`
also shows that it implies `FairSpec`.

`FairClientsSpec` assumes weak fairness of a call in progress and of the server on each
connection; nobody has to call, and nothing has to break.  That a server which neither
answers nor breaks does not occur is an assumption of this run alone; `RemoteCall` then says
that every call ends.  `FairSpec` covers the servers for which it is false.

## Proofs

For every value of the constants that satisfies the declared assumptions (positive
bounds, types of the constant tables, `Free` is no thread, finitely many threads, own
connections and the shared one differ; the fields of the other end are values of the types
they announce, and the objects written have the types of their members):

| theorem | states | assuming |
|---|---|---|
| `TypeCorrect` | `Spec => []TypeOK` | |
| `PoolBounded` | `Spec => []PoolBound` | |
| `IsolatedTransaction` | `Spec => TransactionIsolation` | |
| `OneEquation`, `NoEquationInGap` | `Spec => []EquationUnique`, `Spec => []EquationGap` | no DELETE is refused |
| `OneHistogram` | `Spec => []HistogramOfOneRun` | no DELETE is refused |
| `OneRun` | `Spec => []OneRunPerModel` | `Orderly` |
| `CompletePublishesCurrent` | `Spec => []CompleteIsCurrent` | `Calm` |
| `RunsImplementModelJob` | `Spec => ImplementsModelJob` | `Calm` |
| `ServiceImplementsSpec` | `ServiceSpec => Spec`, so all of these hold of the service with its alarms | |
| `AlarmTypeCorrect` | `ServiceSpec => []AlarmTypeOK` | |
| `KnownAlarmsAreOpen` | `ServiceSpec => []KnownAlarmOpen` | no losses, no INSERT refused |
| `OneOpenAlarm` | `ServiceSpec => []OpenAlarmKnown` | no losses, crashes, stops, no INSERT or UPDATE refused |
| `ClientsTypeCorrect` | `ClientsSpec => []ClientsTypeOK` | |
| `GivenUpOnlyIfBroken` | `ClientsSpec => []GivenUpIfBroken` | |
| `ClientsImplementRemoteCall` | `ClientsSpec` implements the safety part of `RemoteCall` | |
| `OneMessage` | `ClientsSpec => []OneMessagePerCall` | |
| `PointsTypes` | `PointsSpec => []PointsTypeOK` | |
| `FilterIsRight` | `PointsSpec => []FilteredPoints` | |
| `OutcomeIsRight` | `PointsSpec => []Outcome` | |
| `FitInputsAreRight` | `PointsSpec => []FitInputs` | |
| `TrainingRowsAreRight` | `PointsSpec => []TrainingRows` | |
| `FittedIsRight` | `PointsSpec => []Fitted` | |
| `CountedLoadsAreRight` | `PointsSpec => []CountedLoads` | |
| `SharesAreRight` | `PointsSpec => []Shares` | |
| `StructsTypeCorrect` | `StructsSpec => []StructsTypeOK` | |
| `StaysInSync` | `StructsSpec => []InSync` | |
| `ReadsCorrectly` | `StructsSpec => []ReadsWhatWasSent` | |
| `VerdictCorrect` | `StructsSpec => []Verdict` | |
| `RoundTripCorrect` | `StructsSpec => []RoundTrip` | |

`Orderly`: no connection is lost, first statuses are written within a timer period, no
UPDATE is refused, models are submitted from 0 and 3 only.  `Calm`: besides, only SELECTs
are refused, and models are edited only at 0.  Crashes and stops remain in both.  The
assumptions are needed: with a refused DELETE, for one, a second equation stays beside the
first, since `insertEquation` forgets the result of its DELETE.

The inductive invariants, and why they are needed:

* `TypeInv` adds to the types that the timer hands over only models it visits.
* `PoolInv`: between `activeThreadCount()` and the start of the run a thread stays free,
  since pool threads only end meanwhile.
* `SharedInv`: the steps between the statements of a method hold the mutex, a run about to
  insert over a usable connection finds no equation (`EquationGap`), a service that is down
  has no runs (because `start` opens the connection without the mutex), an open transaction
  belongs to the run at its commit.  A second equation would need the connection to come
  back between DELETE and INSERT, which `mutex_` excludes, or a refused DELETE.
* `HistogramInv`: a run that inserts over a usable connection finds only bars of its own
  and no more than it has inserted.
* `OneRunInv`: `OneRunPerModel` is not inductive, because nothing in it keeps the timer from
  starting a second run.  What does is that a model with a run is at 2 or 4, or at 1 before
  the first step of the run only, and that the snapshot, out of date as it is, is right about
  the submitted models still to be visited (`SnapshotInv`).
* `CurrentInv`: every run, its sources and the snapshot of a submitted model have the
  configuration the model has, which no operator changes meanwhile; and what the result
  tables hold is known at each step of a run, so that it is the result of the configuration
  when the run gets to "complete".
* `RunsImplementModelJob` uses both: a step of run `w` is a step of the one job of its model
  or changes nothing there, and every other model keeps its job.
* `AlarmInv`, `OneAlarmInv`: a pending statement belongs to the model at the cursor and to
  the alarm the map holds; while nothing is lost the map and the open rows agree.
* `ClientsInv`: the numbers of calls in progress differ, a message with number `n` carries
  the question of the thread that waits for `n`, and a connection of its own holds at most
  the message of the present call.  The second is what makes the hand-over safe although
  the reader does not know whose message it reads; the third is why the plain client may
  ignore the number of a reply.
* `MessagesInv`: counting requests, replies and the message handed over, each waiting
  thread of an unbroken connection has exactly one, and all messages belong to waiting
  threads; a thread reads only when nothing is handed over, so no message is overwritten.
* `PointsInv` says what the loops over points have collected so far.  `CondtionsInv`: the
  map of conditions holds the last condition stored for each point, read or not, although the
  list of points holds the values of every read.  `FilterPointsInv`: a time stamp has exactly the values of the
  filter points read.  `RowsInv`: a time stamp has as many points as index rows were read
  exactly if every index has a value there, and then they lie in the order of the rows;
  this is what the filter's comparison of two lengths rests on, since a count alone does
  not say which indexes were counted.  `KeptInv`: no complete time stamp is missing, and of
  those visited only the kept ones are left.  `BarsInv`: there are bars only with loads,
  so no bar is divided by 0.
* `LayoutInv` adds what was prepared: with the orders 0, 1, ... once each, the last point of
  an order is its only one.  For a training, `FlattenSeq` is followed one row at a time:
  the values of the first `i` rows are the first `i * columns` of the list.
* `FitsInv` says that what is fitted are the normal equations of the kept points.
  `CurveIsNormal` and `SurfaceIsNormal` prove it of `polyfit` and of `Calculation` for every
  list of points: each of the 36 entries written out by hand is the sum of the product of
  its two terms.
* `SharesInv`: `Divide` fills gaps while it goes and visits a copy of the keys, so there is no
  gap up to the next bar to visit only, a filled bar is never visited, and a bar that is still
  to visit holds its count and not its share yet.
* `LoadsInv`: of the time stamps visited those at low flows with a load in its limits
  (`Loaded`) are in `loads`, in order of time, and some of those without a load; and a load that
  meets its condition is within the closed limits.  That a time stamp has no two points of
  one kind (`OneKind`, `OneRow`) is where `~Ambiguous` is needed.
* `SyncInv`: `InSync` is not inductive, because it says nothing of a reader inside a list or a
  member, and nothing of what it has read so far.  `SyncInv` names the place for each `stage`
  (`AtStruct`, `AtList`, `AtElement`, `AtMember`): which field, element and member the reader is
  at, that what is left on the wire is the rest of the message from there, cut off if the
  connection was lost, and that all before that place is understood.  A list of elements the
  reader does not expect is entered all the same, since it ignores `_etype`: then the next
  token is one it cannot take for an element, which is why such a list ends the read.
* `SkipField` needs that a value of any depth is skipped as a whole and nothing after it:
  the stack of open types depends only on the tokens so far, is empty after the last token
  of the value, and not before.
* `RoundTripCorrect` adds that of the fields this program wrote none repeats, none is skipped,
  and the flags are all set, so that the meaning of the message is the object.

What a recursion over data computes is proved without an induction theorem: of the inputs for
which the statement fails there would be a least one, by `NatLessThanWellFounded`
(`LeastExists`), and one step of the recursion shows that it is none.  A sum that the
community modules define by a fold is first shown to satisfy the equations of its
recursion.

Only model-checked: liveness and fairness (`Progress`, `RunsEnd`, `AlarmIsRaised`,
`AlarmIsEnded`, the fairness of both implementations), which the prover does not reach.
Every invariant and every action property of the passing runs is stated by a theorem, and so
are the safety parts of the three implementations.

## Not modelled

* the solution of the equations (`inv()` of OpenCV, floating point), the settings
  (`ConfigIni`), the log file, the commented-out `RtdbApp` and prediction code,
  `updatePubIndexValue`, which only that code calls;
* the bytes of Thrift values and messages; `printTo`, `swap`, `operator=`, the multiface and
  the null handler of the generated code;
* the historian's mutex (`CapacityMonitor::mutex_`), held only around one read;
* `iTagNum` and the buffer of tags: how many tags the external historian returns is not
  known here;
* pause and resume of the service, which it does not implement.

## Plan

Done: the calculation, its orderly environment with `ModelJob`, refused statements,
configurations that change, the alarms, the clients, the structs, the equations of the
fits, and the proofs of all their safety properties.  Left:

* Assumptions of `KnownAlarmsAreOpen` under lost connections: which alarms may then differ.
* The part of `ImplementsCapacityMonitor` and `ImplementsRemoteCall` that is about fairness, and
  the four liveness properties, for a prover that handles ENABLED.
