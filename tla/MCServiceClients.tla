---------------------------- MODULE MCServiceClients ----------------------------
(***************************************************************************)
(* An instance of ServiceClients for TLC: one run with a connection of its *)
(* own, two threads that share one, and two methods, of which the server   *)
(* knows the first.                                                        *)
(***************************************************************************)
EXTENDS ServiceClients

CONSTANTS run, t1, t2, shared, logistic, train

RunAndThreads == {run, t1, t2}
OneRun == {run}
TwoConnections == {run, shared}
TwoMethods == {logistic, train}
FirstMethod == {logistic}
=================================================================================
