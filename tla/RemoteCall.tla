-------------------------------- MODULE RemoteCall --------------------------------
(***************************************************************************)
(* What a caller of the Python server relies on: a call comes to an end,   *)
(* either with the server's answer to this very call or with an exception  *)
(* (TException).  startCalcModel needs no more: it publishes the answer or *)
(* reports that the calculation failed.                                    *)
(***************************************************************************)
EXTENDS Integers

CONSTANTS
  Callers,    \* the threads that call
  Methods,    \* the methods of the service
  MaxCalls    \* bound: the calls of one caller

VARIABLES
  state,      \* of each caller: "idle", "asked", "returned" or "thrown"
  question,   \* the last call of each caller
  value       \* what it returned: the call it is the answer of, or NoValue

rpcVars == <<state, question, value>>

\* Two calls are never the same, so neither are their answers.
Question == [caller : Callers, fname : Methods, number : 1..MaxCalls]

\* Of a caller that has not called yet.
NoQuestion == [number |-> 0]
NoValue == [number |-> 0]

RPCInit ==
  /\ state = [c \in Callers |-> "idle"]
  /\ question = [c \in Callers |-> NoQuestion]
  /\ value = [c \in Callers |-> NoValue]

NextQuestion(c, m) == [caller |-> c, fname |-> m, number |-> question[c].number + 1]

Ask(c, m) ==
  /\ state[c] # "asked" /\ question[c].number < MaxCalls
  /\ state' = [state EXCEPT ![c] = "asked"]
  /\ question' = [question EXCEPT ![c] = NextQuestion(c, m)]
  /\ value' = [value EXCEPT ![c] = NoValue]

Return(c) ==
  /\ state[c] = "asked"
  /\ state' = [state EXCEPT ![c] = "returned"]
  /\ value' = [value EXCEPT ![c] = question[c]]
  /\ UNCHANGED question

Throw(c) ==
  /\ state[c] = "asked"
  /\ state' = [state EXCEPT ![c] = "thrown"]
  /\ UNCHANGED <<question, value>>

RPCNext ==
  \E c \in Callers :
    \/ \E m \in Methods : Ask(c, m)
    \/ Return(c) \/ Throw(c)

RPCSpec ==
  /\ RPCInit /\ [][RPCNext]_rpcVars
  /\ \A c \in Callers : WF_rpcVars(Return(c) \/ Throw(c))
=================================================================================
