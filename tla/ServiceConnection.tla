----------------------------- MODULE ServiceConnection -----------------------------
(***************************************************************************)
(* Connections to the Python server and the server's end of them, the      *)
(* generated CapacityMonitorServiceProcessor (CapacityMonitorService.cpp). *)
(*                                                                         *)
(* A message is a record; what arguments and results hold is abstracted to *)
(* the call they belong to.  A server may work on several requests of a    *)
(* connection at a time, so replies come in any order.  It answers in the  *)
(* end, or the connection breaks.                                          *)
(***************************************************************************)
EXTENDS Sequences, SequencesExt

CONSTANTS
  Callers,      \* the threads that call
  Methods,      \* the methods a client knows
  ProcessMap,   \* processMap_: the methods the server knows
  MaxCalls,     \* bound: the calls of one caller
  Connections,  \* the connections
  Breaks        \* FALSE: connections do not break

ASSUME ServiceAssumption ==
  /\ ProcessMap \subseteq Methods
  /\ MaxCalls \in Nat \ {0}
  /\ Breaks \in BOOLEAN

VARIABLES
  transport,  \* of each connection: "closed", "open", or "broken" (the peer is gone)
  requests,   \* the requests on their way, oldest first
  replies     \* the replies on their way, oldest first

connectionVars == <<transport, requests, replies>>

Question == [caller : Callers, fname : Methods, number : 1..MaxCalls]

Request == [fname : Methods, seqid : Nat, args : Question]

\* __isset tells which field of a result struct is present.
Message == [fname : Methods, mtype : {"T_REPLY", "T_EXCEPTION"}, seqid : Nat,
            isset : {"success", "calcException", "none"}, success : Question]

ConnectionTypeOK ==
  /\ transport \in [Connections -> {"closed", "open", "broken"}]
  /\ requests \in [Connections -> Seq(Request)]
  /\ replies \in [Connections -> Seq(Message)]

-----------------------------------------------------------------------------
Reply(r, mtype, isset) ==
  [fname |-> r.fname, mtype |-> mtype, seqid |-> r.seqid, isset |-> isset, success |-> r.args]

\* The handler returns, throws a CalcException, or throws something else.
Process(r) ==
  {Reply(r, "T_REPLY", "success"), Reply(r, "T_REPLY", "calcException"),
   Reply(r, "T_EXCEPTION", "none")}

\* A faulty variant: the exception goes out under the type of the request.
UnknownMethodCall(r) == [Reply(r, "T_EXCEPTION", "none") EXCEPT !.mtype = "T_CALL"]

UnknownMethod(r) == Reply(r, "T_EXCEPTION", "none")

Results(r) == IF r.fname \in ProcessMap THEN Process(r) ELSE {UnknownMethod(r)}

\* A faulty variant: no return after the exception is written, so that the result
\* is written as well.
DispatchCallTwice(k) ==
  \E i \in DOMAIN requests[k] : \E reply \in Results(requests[k][i]) :
    /\ requests' = [requests EXCEPT ![k] = RemoveAt(@, i)]
    /\ replies' = [replies EXCEPT ![k] =
         IF reply.mtype = "T_EXCEPTION"
           THEN @ \o <<reply, [reply EXCEPT !.mtype = "T_REPLY"]>>
           ELSE Append(@, reply)]
    /\ UNCHANGED transport

DispatchCall(k) ==
  \E i \in DOMAIN requests[k] : \E reply \in Results(requests[k][i]) :
    /\ requests' = [requests EXCEPT ![k] = RemoveAt(@, i)]
    /\ replies' = [replies EXCEPT ![k] = Append(@, reply)]
    /\ UNCHANGED transport

\* The server or the network fails: what it has not answered is lost, what has
\* arrived can still be read.
Break(k) ==
  /\ Breaks /\ transport[k] = "open"
  /\ transport' = [transport EXCEPT ![k] = "broken"]
  /\ requests' = [requests EXCEPT ![k] = << >>]
  /\ UNCHANGED replies

Open(k) ==
  /\ transport[k] = "closed"
  /\ transport' = [transport EXCEPT ![k] = "open"]
  /\ UNCHANGED <<requests, replies>>

Close(k) ==
  /\ transport' = [transport EXCEPT ![k] = "closed"]
  /\ requests' = [requests EXCEPT ![k] = << >>]
  /\ replies' = [replies EXCEPT ![k] = << >>]

Write(k, r) ==
  /\ transport[k] = "open"
  /\ requests' = [requests EXCEPT ![k] = Append(@, r)]
  /\ UNCHANGED <<transport, replies>>

\* Take the oldest reply off the stream.
Read(k) ==
  /\ replies[k] # << >>
  /\ replies' = [replies EXCEPT ![k] = Tail(@)]
  /\ UNCHANGED <<transport, requests>>

\* A read that finds the end of the stream throws.
EndOfStream(k) == replies[k] = << >> /\ transport[k] = "broken"

\* What recv_ makes of a message: it returns the value or throws.  The rest of
\* a message with another name is skipped; what follows it is no result.
Returns(msg, fname) ==
  msg.mtype = "T_REPLY" /\ msg.fname = fname /\ msg.isset = "success"
=================================================================================
