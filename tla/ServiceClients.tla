------------------------------ MODULE ServiceClients ------------------------------
(***************************************************************************)
(* The two generated clients of the Python server.                         *)
(*                                                                         *)
(* CapacityMonitorServiceClient is what startCalcModel uses: every run     *)
(* opens a connection of its own, makes its calls one after the other, and *)
(* gives the connection up when one throws.                                *)
(*                                                                         *)
(* CapacityMonitorServiceConcurrentClient lets threads share a connection. *)
(* Each call has a number (seqid); the thread that holds the read mutex    *)
(* reads the next message, whoever it is for, and hands it over.  What     *)
(* sync_, from the Thrift library, does is modelled from the comments and  *)
(* the calls in the generated code.                                        *)
(***************************************************************************)
EXTENDS ServiceConnection

CONSTANTS
  SyncCallers,    \* runs with a client and a connection of their own
  Shared,         \* the connection the other callers share
  Free            \* value of readMutex when no thread holds it

ASSUME ClientsAssumption ==
  /\ SyncCallers \subseteq Callers
  /\ Connections = SyncCallers \cup {Shared} /\ Shared \notin SyncCallers
  /\ Free \notin Callers

VARIABLES
  pc,         \* of each caller: where its call is, or how the last one ended
  question,   \* the arguments of its last call
  value,      \* what its last call returned
  seqid,      \* the number of its last call; always 0 on a connection of its own
  nextSeqid,  \* sync_: the number of the next call
  pending,    \* sync_: a message that was read and is not for its reader
  readMutex,  \* sync_: the thread that reads
  wakeup,     \* sync_: a call has ended, someone has to read on
  stop        \* sync_: the connection is in a bad state, nobody may use it

callVars == <<pc, question, value, seqid>>
syncVars == <<nextSeqid, pending, readMutex, wakeup, stop>>
clientVars == <<connectionVars, callVars, syncVars>>

ConcurrentCallers == Callers \ SyncCallers

NoMessage == [mtype |-> "none"]
NoQuestion == [number |-> 0]
NoValue == [number |-> 0]

AtRest == {"idle", "returned", "thrown"}

ClientsInit ==
  /\ transport = [k \in Connections |-> IF k = Shared THEN "open" ELSE "closed"]
  /\ requests = [k \in Connections |-> << >>]
  /\ replies = [k \in Connections |-> << >>]
  /\ pc = [c \in Callers |-> "idle"]
  /\ question = [c \in Callers |-> NoQuestion]
  /\ value = [c \in Callers |-> NoValue]
  /\ seqid = [c \in Callers |-> 0]
  /\ nextSeqid = 1
  /\ pending = NoMessage
  /\ readMutex = Free
  /\ wakeup = FALSE
  /\ stop = FALSE

ClientsTypeOK ==
  /\ ConnectionTypeOK
  /\ pc \in [Callers -> AtRest \cup {"seqid", "send", "recv", "read", "wait"}]
  /\ question \in [Callers -> Question \cup {NoQuestion}]
  /\ value \in [Callers -> Question \cup {NoValue}]
  /\ seqid \in [Callers -> Nat]
  /\ nextSeqid \in Nat
  /\ pending \in Message \cup {NoMessage}
  /\ readMutex \in Callers \cup {Free}
  /\ wakeup \in BOOLEAN /\ stop \in BOOLEAN

\* Thread c calls method m.
Call(c, m) ==
  /\ pc[c] \in AtRest /\ question[c].number < MaxCalls
  /\ question' = [question EXCEPT
       ![c] = [caller |-> c, fname |-> m, number |-> question[c].number + 1]]
  /\ value' = [value EXCEPT ![c] = NoValue]
  /\ UNCHANGED <<connectionVars, seqid, syncVars>>

\* Its call ends with message msg: the value is filled in, or recv_ throws.
End(c, msg) ==
  LET returns == Returns(msg, question[c].fname) IN
  /\ pc' = [pc EXCEPT ![c] = IF returns THEN "returned" ELSE "thrown"]
  /\ value' = IF returns THEN [value EXCEPT ![c] = msg.success] ELSE value
  /\ UNCHANGED <<question, seqid>>

Goto(c, next) ==
  /\ pc' = [pc EXCEPT ![c] = next]
  /\ UNCHANGED <<question, value, seqid>>

CallOf(c) == [fname |-> question[c].fname, seqid |-> seqid[c], args |-> question[c]]

-----------------------------------------------------------------------------
(***************************************************************************)
(* CapacityMonitorServiceClient, in startCalcModel.  When a call throws    *)
(* the catch block leaves the scope of the socket, which closes it.        *)
(***************************************************************************)

OpenTransport(c) ==
  /\ pc[c] \in AtRest
  /\ Open(c)
  /\ UNCHANGED <<callVars, syncVars>>

CloseTransport(c) ==
  /\ pc[c] = "returned" /\ transport[c] # "closed"
  /\ Close(c)
  /\ UNCHANGED <<callVars, syncVars>>

SyncCall(c, m) ==
  /\ transport[c] # "closed"
  /\ Call(c, m)
  /\ pc' = [pc EXCEPT ![c] = "send"]

SyncSend(c) ==
  /\ pc[c] = "send"
  /\ \/ Write(c, CallOf(c)) /\ Goto(c, "recv")
     \/ transport[c] = "broken" /\ Close(c) /\ Goto(c, "thrown")
  /\ UNCHANGED syncVars

\* The number of the message is not looked at.
SyncRecv(c) ==
  /\ pc[c] = "recv"
  /\ \/ /\ replies[c] # << >> /\ End(c, Head(replies[c]))
        /\ IF pc'[c] = "returned" THEN Read(c) ELSE Close(c)
     \/ EndOfStream(c) /\ Close(c) /\ Goto(c, "thrown")
  /\ UNCHANGED syncVars

SyncStep(c) == SyncSend(c) \/ SyncRecv(c)

-----------------------------------------------------------------------------
(***************************************************************************)
(* CapacityMonitorServiceConcurrentClient.                                 *)
(***************************************************************************)

\* The sentry's destructor: the call ended well, others may read on ...
Commit == wakeup' = TRUE /\ UNCHANGED stop

\* ... or it did not, and nobody uses the connection again.
MarkBad == wakeup' = TRUE /\ stop' = TRUE

ConcurrentCall(c, m) ==
  /\ Call(c, m)
  /\ pc' = [pc EXCEPT ![c] = "seqid"]

GenerateSeqId(c) ==
  /\ pc[c] = "seqid"
  /\ \/ /\ ~stop
        /\ seqid' = [seqid EXCEPT ![c] = nextSeqid]
        /\ nextSeqid' = nextSeqid + 1
        /\ pc' = [pc EXCEPT ![c] = "send"]
        /\ UNCHANGED <<question, value>>
     \/ stop /\ Goto(c, "thrown") /\ UNCHANGED nextSeqid
  /\ UNCHANGED <<connectionVars, pending, readMutex, wakeup, stop>>

\* The message is written in one piece, under the write mutex.
Send(c) ==
  /\ pc[c] = "send"
  /\ \/ Write(Shared, CallOf(c)) /\ Goto(c, "recv") /\ UNCHANGED <<wakeup, stop>>
     \/ /\ transport[Shared] = "broken"
        /\ Goto(c, "thrown") /\ MarkBad
        /\ UNCHANGED connectionVars
  /\ UNCHANGED <<nextSeqid, pending, readMutex>>

\* Thread c has message msg in hand, and gives up the read mutex.

\* A faulty variant: a message for another thread is not handed over.
HandleAndForget(c, msg) ==
  /\ \/ msg.seqid = seqid[c] /\ End(c, msg) /\ Commit
     \/ msg.seqid # seqid[c] /\ Goto(c, "wait") /\ wakeup' = FALSE /\ UNCHANGED stop
  /\ pending' = NoMessage
  /\ readMutex' = Free

\* A faulty variant: the exception of a reply is thrown without a commit.
HandleUncommitted(c, msg) ==
  /\ \/ /\ msg.seqid = seqid[c] /\ End(c, msg) /\ pending' = NoMessage
        /\ IF msg.isset = "calcException" THEN MarkBad ELSE Commit
     \/ /\ msg.seqid # seqid[c] /\ Goto(c, "wait")
        /\ pending' = msg /\ wakeup' = FALSE /\ UNCHANGED stop
  /\ readMutex' = Free

\* An exception, or the result of the method called; else the stream is no longer
\* to be trusted.
Understood(c, msg) ==
  \/ msg.mtype = "T_EXCEPTION"
  \/ msg.fname = question[c].fname /\ msg.isset # "none"

Handle(c, msg) ==
  /\ \/ /\ msg.seqid = seqid[c] /\ End(c, msg) /\ pending' = NoMessage
        /\ IF Understood(c, msg) THEN Commit ELSE MarkBad
     \/ /\ msg.seqid # seqid[c] /\ Goto(c, "wait")
        /\ pending' = msg /\ wakeup' = FALSE /\ UNCHANGED stop
  /\ readMutex' = Free

\* waitForWork returns when the connection is bad, a call has ended, or the
\* message that was handed over is for c.
Woken(c) ==
  /\ pc[c] = "wait"
  /\ \/ stop \/ wakeup
     \/ pending # NoMessage /\ pending.seqid = seqid[c]

\* With the read mutex, c takes the message that was handed over or reads one.
GetPending(c) ==
  /\ pc[c] = "recv" \/ Woken(c)
  /\ readMutex = Free
  /\ \/ stop /\ Goto(c, "thrown") /\ MarkBad /\ UNCHANGED <<pending, readMutex>>
     \/ ~stop /\ pending # NoMessage /\ Handle(c, pending)
     \/ /\ ~stop /\ pending = NoMessage
        /\ readMutex' = c /\ Goto(c, "read")
        /\ wakeup' = FALSE /\ UNCHANGED <<pending, stop>>
  /\ UNCHANGED <<connectionVars, nextSeqid>>

ReadMessage(c) ==
  /\ pc[c] = "read"
  /\ \/ Read(Shared) /\ Handle(c, Head(replies[Shared]))
     \/ /\ EndOfStream(Shared)
        /\ Goto(c, "thrown") /\ MarkBad /\ readMutex' = Free
        /\ UNCHANGED <<connectionVars, pending>>
  /\ UNCHANGED nextSeqid

ConcurrentStep(c) == GenerateSeqId(c) \/ Send(c) \/ GetPending(c) \/ ReadMessage(c)

ServerStep(k) == DispatchCall(k) /\ UNCHANGED <<callVars, syncVars>>

ClientsNext ==
  \/ \E c \in SyncCallers :
       \/ OpenTransport(c) \/ CloseTransport(c) \/ SyncStep(c)
       \/ \E m \in Methods : SyncCall(c, m)
  \/ \E c \in ConcurrentCallers :
       \/ ConcurrentStep(c)
       \/ \E m \in Methods : ConcurrentCall(c, m)
  \/ \E k \in Connections :
       \/ ServerStep(k)
       \/ Break(k) /\ UNCHANGED <<callVars, syncVars>>

ClientsSpec == ClientsInit /\ [][ClientsNext]_clientVars

\* Threads are scheduled, and a server whose connection holds answers in the end.
FairClientsSpec ==
  /\ ClientsSpec
  /\ \A c \in SyncCallers : WF_clientVars(SyncStep(c))
  /\ \A c \in ConcurrentCallers : WF_clientVars(ConcurrentStep(c))
  /\ \A k \in Connections : WF_clientVars(ServerStep(k))

-----------------------------------------------------------------------------
State(c) == IF pc[c] \in AtRest THEN pc[c] ELSE "asked"

RPC == INSTANCE RemoteCall WITH state <- [c \in Callers |-> State(c)]

\* Both clients keep the promise of RemoteCall: a call ends, with the answer to
\* this call or with an exception, also when threads share a connection, replies
\* overtake each other, and the connection breaks anywhere.
ImplementsRemoteCall == RPC!RPCSpec

ConnectionOf(c) == IF c \in SyncCallers THEN c ELSE Shared

\* The messages of the present call of c: how many there are anywhere.
InFlight(c) ==
  LET k == ConnectionOf(c)
  IN  Cardinality({i \in DOMAIN requests[k] : requests[k][i].args = question[c]})
        + Cardinality({i \in DOMAIN replies[k] : replies[k][i].success = question[c]})
        + (IF pending # NoMessage /\ pending.success = question[c] THEN 1 ELSE 0)

\* Over a connection that holds, each thread that waits for an answer has one
\* message on its way or handed over, request or reply, and nobody else has any:
\* no reply of an ended call is left on the stream for the next one to trip over.
OneMessagePerCall ==
  \A c \in Callers :
    transport[ConnectionOf(c)] = "open" =>
      InFlight(c) = IF pc[c] \in {"recv", "read", "wait"} THEN 1 ELSE 0

\* The shared connection is given up only when it is broken: an exception the
\* server answers with costs its caller the call, and nobody else theirs.
GivenUpIfBroken == stop => transport[Shared] = "broken"
=================================================================================
