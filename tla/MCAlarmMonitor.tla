----------------------------- MODULE MCAlarmMonitor -----------------------------
(***************************************************************************)
(* Instances of AlarmMonitor for TLC.                                      *)
(***************************************************************************)
EXTENDS AlarmMonitor

CONSTANT w1

OneWorker == {w1}

Limit(type, valid) == [type |-> type, valid |-> valid, condtions |-> 1, indexes |-> 1]
Curve == [type |-> 1, valid |-> TRUE, condtions |-> 1, indexes |-> 2]

\* A limit that is evaluated, made invalid, or turned into the other limit of the unit.
ChangedLimit == << <<Limit(4, TRUE), Limit(4, FALSE), Limit(5, TRUE)>> >>

\* A limit, and a curve whose calculation holds the mutex for several statements.
LimitAndCurve == << <<Limit(4, TRUE)>>, <<Curve>> >>
=================================================================================
