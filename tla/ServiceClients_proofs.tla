-------------------------- MODULE ServiceClients_proofs --------------------------
(***************************************************************************)
(* Theorems about the clients of the Python server, for every number of    *)
(* threads, methods and calls: the answers they return, the refinement of  *)
(* RemoteCall, and that no message of a call is lost or doubled.           *)
(***************************************************************************)
EXTENDS ServiceClients, SequenceTheorems, FiniteSetTheorems, TLAPS

(***************************************************************************)
(* Sequences.                                                              *)
(***************************************************************************)

\* RemoveAt yields a sequence that is one shorter, the others keep their order.
LEMMA RemoveAtProperties ==
  ASSUME NEW S, NEW s \in Seq(S), NEW i \in DOMAIN s
  PROVE  /\ RemoveAt(s, i) \in Seq(S)
         /\ Len(RemoveAt(s, i)) = Len(s) - 1
         /\ \A j \in 1..Len(s) - 1 :
              RemoveAt(s, i)[j] = IF j < i THEN s[j] ELSE s[j + 1]
<1>. DEFINE a == SubSeq(s, 1, i - 1)
            b == SubSeq(s, i + 1, Len(s))
<1>1. Len(s) \in Nat /\ i \in 1..Len(s) /\ \A j \in 1..Len(s) : s[j] \in S
  BY LenProperties, ElementOfSeq
<1>2. a \in Seq(S) /\ Len(a) = i - 1 /\ \A j \in 1..i - 1 : a[j] = s[j]
  <2>1. \A j \in 1..(i - 1) : s[j] \in S
    BY <1>1
  <2>. QED  BY <1>1, <2>1, SubSeqProperties
<1>3. b \in Seq(S) /\ Len(b) = Len(s) - i /\ \A j \in 1..Len(s) - i : b[j] = s[i + j]
  <2>1. \A j \in (i + 1)..Len(s) : s[j] \in S
    BY <1>1
  <2>. QED  BY <1>1, <2>1, SubSeqProperties
<1>. HIDE DEF a, b
<1>4. /\ a \o b \in Seq(S) /\ Len(a \o b) = Len(a) + Len(b)
      /\ \A j \in 1..Len(a) + Len(b) : (a \o b)[j] = IF j <= Len(a) THEN a[j] ELSE b[j - Len(a)]
  BY <1>2, <1>3, ConcatProperties
<1>5. RemoveAt(s, i) = a \o b
  BY DEF RemoveAt, a, b
<1>. DEFINE n == Len(s)
<1>6. n \in Nat /\ i \in Nat /\ 1 <= i /\ i <= n /\ Len(a) = i - 1 /\ Len(b) = n - i
  BY <1>1, <1>2, <1>3
<1>. HIDE DEF n
<1>7. ASSUME NEW j \in 1..n - 1
      PROVE  (a \o b)[j] = IF j < i THEN s[j] ELSE s[j + 1]
  <2>1. CASE j < i
    <3>1. j \in 1..i - 1 /\ j \in 1..Len(a) + Len(b) /\ j <= Len(a)
      BY <1>6, <2>1
    <3>. QED  BY <1>2, <1>4, <2>1, <3>1
  <2>2. CASE ~(j < i)
    <3>0. j \in Int /\ i \in Int /\ n \in Int /\ i <= j /\ j <= n - 1 /\ 1 <= i
      BY <1>6, <2>2
    <3>1. j - (i - 1) \in 1..n - i /\ i + (j - (i - 1)) = j + 1 /\ (i - 1) + (n - i) = n - 1
      BY <3>0
    <3>2. ~(j <= i - 1)
      BY <3>0
    <3>3. j - Len(a) = j - (i - 1) /\ Len(a) + Len(b) = (i - 1) + (n - i) /\ Len(a) = i - 1
      BY <1>6
    <3>4. j - Len(a) \in 1..n - i /\ i + (j - Len(a)) = j + 1
      BY <3>1, <3>3
    <3>5. j \in 1..Len(a) + Len(b) /\ ~(j <= Len(a))
      BY <3>1, <3>2, <3>3
    <3>6. b[j - Len(a)] = s[i + (j - Len(a))]
      BY <1>3, <3>4 DEF n
    <3>. QED  BY <1>4, <2>2, <3>4, <3>5, <3>6
  <2>. QED  BY <2>1, <2>2
<1>8. Len(a \o b) = n - 1
  BY <1>4, <1>6
<1>. QED  BY <1>4, <1>5, <1>7, <1>8 DEF n

(***************************************************************************)
(* The invariant.                                                          *)
(***************************************************************************)

\* Where a call has its number.
Calling == {"send", "recv", "read", "wait"}

\* What message with number n belongs to: the call q of a thread that shares the
\* connection, its present one if it waits for n.
BelongsTo(n, q) ==
  /\ n < nextSeqid /\ q.caller \in ConcurrentCallers
  /\ \A c \in ConcurrentCallers : pc[c] \in Calling /\ seqid[c] = n => question[c] = q

GoodRequest == {r \in Request : r.fname = r.args.fname /\ BelongsTo(r.seqid, r.args)}

GoodMessage ==
  {msg \in Message :
     /\ msg.fname = msg.success.fname /\ BelongsTo(msg.seqid, msg.success)
     /\ msg.mtype = "T_REPLY" => msg.isset # "none"}

\* The threads that share the connection have different numbers.
Numbers ==
  /\ \A c \in ConcurrentCallers : seqid[c] < nextSeqid
  /\ \A c, d \in ConcurrentCallers :
       c # d /\ pc[c] \in Calling /\ pc[d] \in Calling => seqid[c] # seqid[d]

QuestionOf(c) == {q \in Question : q.caller = c}

Asked == \A c \in Callers : pc[c] \notin AtRest => question[c] \in QuestionOf(c)

SharedStream ==
  /\ requests[Shared] \in Seq(GoodRequest)
  /\ replies[Shared] \in Seq(GoodMessage)
  /\ pending \in GoodMessage \cup {NoMessage}

\* A connection of its own holds at most the message of the present call.
Own(c) ==
  /\ pc[c] \in AtRest \cup {"send", "recv"}
  /\ \/ requests[c] = << >> /\ replies[c] = << >>
     \/ /\ pc[c] = "recv" /\ replies[c] = << >>
        /\ \E r \in Request : requests[c] = <<r>> /\ r.args = question[c]
     \/ /\ pc[c] = "recv" /\ requests[c] = << >>
        /\ \E msg \in Message : replies[c] = <<msg>> /\ msg.success = question[c]

OwnStream == \A c \in SyncCallers : Own(c)

GivenUp == transport[Shared] # "closed" /\ GivenUpIfBroken

ClientsInv ==
  ClientsTypeOK /\ Numbers /\ Asked /\ SharedStream /\ OwnStream /\ GivenUp

\* Before the first call no message is anywhere.
LEMMA InitClientsInv == ClientsInit => ClientsInv
<1>. SUFFICES ASSUME ClientsInit PROVE ClientsInv
  OBVIOUS
<1>. USE DEF ClientsInit
<1>1. ClientsTypeOK
  <2>1. ConnectionTypeOK
    BY DEF ConnectionTypeOK
  <2>. QED  BY <2>1 DEF ClientsTypeOK, AtRest
<1>2. Numbers /\ Asked
  BY DEF Numbers, Asked, QuestionOf, Calling, AtRest, ConcurrentCallers
<1>3. SharedStream
  BY ClientsAssumption DEF SharedStream
<1>4. OwnStream
  BY ClientsAssumption DEF OwnStream, Own, AtRest
<1>5. GivenUp
  BY ClientsAssumption DEF GivenUp, GivenUpIfBroken
<1>. QED  BY <1>1, <1>2, <1>3, <1>4, <1>5 DEF ClientsInv

\* What belongs to a call goes on to do so: numbers are not given twice.
LEMMA GoodStays ==
  ASSUME ClientsTypeOK, nextSeqid' \in Nat, nextSeqid <= nextSeqid',
         \A c \in ConcurrentCallers : pc'[c] \in Calling =>
           \/ seqid'[c] = nextSeqid
           \/ pc[c] \in Calling /\ seqid'[c] = seqid[c] /\ question'[c] = question[c]
  PROVE  GoodRequest \subseteq GoodRequest' /\ GoodMessage \subseteq GoodMessage'
<1>1. ASSUME NEW n \in Nat, NEW q, BelongsTo(n, q)
      PROVE  BelongsTo(n, q)'
  BY <1>1 DEF BelongsTo, ClientsTypeOK, ConcurrentCallers
<1>. QED  BY <1>1 DEF GoodRequest, GoodMessage, Request, Message

\* All but GenerateSeqId: a thread is in a call only if it was in this call before.
SameCalls ==
  /\ seqid' = seqid /\ nextSeqid' = nextSeqid
  /\ \A c \in ConcurrentCallers :
       pc'[c] \in Calling => pc[c] \in Calling /\ question'[c] = question[c]

\* A step in which no thread takes a number keeps the numbers, and a message that belongs
\* to a call still does.
LEMMA SameCallsKeep ==
  ASSUME ClientsInv, SameCalls
  PROVE  Numbers' /\ GoodRequest \subseteq GoodRequest' /\ GoodMessage \subseteq GoodMessage'
<1>1. Numbers'
  BY DEF ClientsInv, SameCalls, Numbers, ConcurrentCallers
<1>2. nextSeqid' \in Nat /\ nextSeqid <= nextSeqid'
  BY DEF ClientsInv, ClientsTypeOK, SameCalls
<1>. QED  BY <1>1, <1>2, GoodStays DEF ClientsInv, SameCalls

\* The shared stream as it was, or taken over by those whose calls go on.
LEMMA SharedUntouched ==
  ASSUME ClientsInv, GoodRequest \subseteq GoodRequest', GoodMessage \subseteq GoodMessage',
         requests'[Shared] = requests[Shared], replies'[Shared] = replies[Shared],
         pending' = pending
  PROVE  SharedStream'
<1>1. requests[Shared] \in Seq(GoodRequest') /\ replies[Shared] \in Seq(GoodMessage')
  BY SeqMonotonic DEF ClientsInv, SharedStream
<1>. QED  BY <1>1 DEF ClientsInv, SharedStream

\* Steps that leave the runs and their own connections alone keep OwnStream.
LEMMA OwnUntouched ==
  ASSUME ClientsInv,
         \A c \in SyncCallers :
           /\ pc'[c] = pc[c] /\ question'[c] = question[c]
           /\ requests'[c] = requests[c] /\ replies'[c] = replies[c]
  PROVE  OwnStream'
BY DEF ClientsInv, OwnStream, Own

\* What the server answers to a request of this program.
LEMMA ResultsProperties ==
  ASSUME NEW r \in Request, NEW reply \in Results(r)
  PROVE  /\ reply \in Message
         /\ reply.success = r.args /\ reply.seqid = r.seqid /\ reply.fname = r.fname
         /\ reply.mtype = "T_REPLY" => reply.isset # "none"
BY DEF Results, Process, UnknownMethod, Reply, Request, Message

(***************************************************************************)
(* The steps of the server and of the connections.                         *)
(***************************************************************************)

\* The server (dispatchCall) answers a request by a message that fits it.
LEMMA ServerStepInv ==
  ASSUME ClientsInv, NEW k \in Connections, ServerStep(k)
  PROVE  ClientsInv'
<1>. PICK i \in DOMAIN requests[k] : \E reply \in Results(requests[k][i]) :
       /\ requests' = [requests EXCEPT ![k] = RemoveAt(@, i)]
       /\ replies' = [replies EXCEPT ![k] = Append(@, reply)]
       /\ UNCHANGED transport
  BY DEF ServerStep, DispatchCall
<1>. PICK reply \in Results(requests[k][i]) :
       /\ requests' = [requests EXCEPT ![k] = RemoveAt(@, i)]
       /\ replies' = [replies EXCEPT ![k] = Append(@, reply)]
       /\ UNCHANGED transport
  OBVIOUS
<1>. DEFINE r == requests[k][i]
<1>1. UNCHANGED <<pc, question, value, seqid, nextSeqid, pending, readMutex, wakeup, stop>>
  BY DEF ServerStep, callVars, syncVars
<1>2. /\ requests \in [Connections -> Seq(Request)] /\ requests[k] \in Seq(Request)
      /\ replies \in [Connections -> Seq(Message)] /\ replies[k] \in Seq(Message)
  BY DEF ClientsInv, ClientsTypeOK, ConnectionTypeOK
<1>3. r \in Request
  BY <1>2, ElementOfSeq, LenProperties
<1>4. /\ reply \in Message
      /\ reply.success = r.args /\ reply.seqid = r.seqid /\ reply.fname = r.fname
      /\ reply.mtype = "T_REPLY" => reply.isset # "none"
  BY <1>3, ResultsProperties
<1>5. ClientsTypeOK'
  <2>1. RemoveAt(requests[k], i) \in Seq(Request)
    BY <1>2, RemoveAtProperties
  <2>2. Append(replies[k], reply) \in Seq(Message)
    BY <1>2, <1>4
  <2>3. ConnectionTypeOK'
    BY <1>2, <2>1, <2>2 DEF ClientsInv, ClientsTypeOK, ConnectionTypeOK
  <2>. QED  BY <1>1, <2>3 DEF ClientsInv, ClientsTypeOK
<1>6. SameCalls
  BY <1>1 DEF SameCalls
<1>7. Asked' /\ GivenUp'
  BY <1>1 DEF ClientsInv, Asked, QuestionOf, GivenUp, GivenUpIfBroken
<1>8. SharedStream'
  <2>. USE SameCallsKeep, <1>6
  <2>1. CASE k # Shared
    BY <1>1, <1>2, <2>1, ClientsAssumption, SharedUntouched
  <2>2. CASE k = Shared
    <3>1. requests[k] \in Seq(GoodRequest) /\ replies[k] \in Seq(GoodMessage)
      BY <2>2 DEF ClientsInv, SharedStream
    <3>2. r \in GoodRequest
      BY <3>1, ElementOfSeq, LenProperties
    <3>3. reply \in GoodMessage
      BY <1>4, <3>2 DEF GoodRequest, GoodMessage
    <3>4. RemoveAt(requests[k], i) \in Seq(GoodRequest) /\ Append(replies[k], reply) \in Seq(GoodMessage)
      BY <3>1, <3>3, RemoveAtProperties
    <3>5. requests'[k] \in Seq(GoodRequest') /\ replies'[k] \in Seq(GoodMessage')
      BY <1>2, <3>4, SeqMonotonic
    <3>. QED  BY <1>1, <2>2, <3>5 DEF ClientsInv, SharedStream
  <2>. QED  BY <2>1, <2>2
<1>9. OwnStream'
  <2>1. CASE k \notin SyncCallers
    BY <1>1, <1>2, <2>1, ClientsAssumption, OwnUntouched
  <2>2. CASE k \in SyncCallers
    <3>1. /\ pc[k] = "recv" /\ requests[k] = <<r>> /\ replies[k] = << >>
          /\ i = 1 /\ r.args = question[k]
      BY <2>2 DEF ClientsInv, OwnStream, Own
    <3>2. RemoveAt(requests[k], i) = << >>
      <4>1. RemoveAt(requests[k], i) \in Seq(Request) /\ Len(RemoveAt(requests[k], i)) = Len(requests[k]) - 1
        BY <1>2, RemoveAtProperties
      <4>2. \A e : Len(<<e>>) = 1
        OBVIOUS
      <4>3. Len(requests[k]) = 1
        BY <3>1, <4>2
      <4>. QED  BY <4>1, <4>3, EmptySeq
    <3>3. requests'[k] = << >> /\ replies'[k] = <<reply>>
      BY <1>2, <3>1, <3>2
    <3>4. \A c \in SyncCallers \ {k} : requests'[c] = requests[c] /\ replies'[c] = replies[c]
      BY <1>2, ClientsAssumption
    <3>5. \A c \in SyncCallers \ {k} : Own(c)'
      BY <1>1, <3>4 DEF ClientsInv, OwnStream, Own
    <3>6. Own(k)'
      BY <1>1, <1>4, <3>1, <3>3 DEF Own
    <3>. QED  BY <3>5, <3>6 DEF OwnStream
  <2>. QED  BY <2>1, <2>2
<1>. QED  BY <1>5, <1>6, <1>7, <1>8, <1>9, SameCallsKeep DEF ClientsInv

\* A connection that breaks loses requests and leaves the replies that have arrived.
LEMMA BreakInv ==
  ASSUME ClientsInv, NEW k \in Connections, Break(k), UNCHANGED <<callVars, syncVars>>
  PROVE  ClientsInv'
<1>1. UNCHANGED <<pc, question, value, seqid, nextSeqid, pending, readMutex, wakeup, stop, replies>>
  BY DEF callVars, syncVars, Break
<1>2. /\ requests \in [Connections -> Seq(Request)] /\ transport \in [Connections -> {"closed", "open", "broken"}]
      /\ requests' = [requests EXCEPT ![k] = << >>]
      /\ transport' = [transport EXCEPT ![k] = "broken"]
  BY DEF ClientsInv, ClientsTypeOK, ConnectionTypeOK, Break
<1>3. ClientsTypeOK'
  <2>1. ConnectionTypeOK'
    BY <1>1, <1>2 DEF ClientsInv, ClientsTypeOK, ConnectionTypeOK
  <2>. QED  BY <1>1, <2>1 DEF ClientsInv, ClientsTypeOK
<1>4. SameCalls
  BY <1>1 DEF SameCalls
<1>5. Asked' /\ GivenUp'
  BY <1>1, <1>2, ClientsAssumption DEF ClientsInv, Asked, QuestionOf, GivenUp, GivenUpIfBroken
<1>6. SharedStream'
  <2>1. CASE k # Shared
    BY <1>1, <1>2, <1>4, <2>1, ClientsAssumption, SameCallsKeep, SharedUntouched
  <2>2. CASE k = Shared
    <3>1. requests'[Shared] = << >> /\ << >> \in Seq(GoodRequest')
      BY <1>2, <2>2
    <3>2. replies[Shared] \in Seq(GoodMessage')
      BY <1>4, SameCallsKeep, SeqMonotonic DEF ClientsInv, SharedStream
    <3>. QED  BY <1>1, <1>4, <3>1, <3>2, SameCallsKeep DEF ClientsInv, SharedStream
  <2>. QED  BY <2>1, <2>2
<1>7. OwnStream'
  <2>1. \A c \in SyncCallers : requests'[c] = requests[c] \/ requests'[c] = << >>
    BY <1>2, ClientsAssumption
  <2>. QED  BY <1>1, <2>1 DEF ClientsInv, OwnStream, Own
<1>. QED  BY <1>3, <1>4, <1>5, <1>6, <1>7, SameCallsKeep DEF ClientsInv

(***************************************************************************)
(* The steps of a run with a connection of its own.                        *)
(***************************************************************************)

\* Nothing but the caller and its connection changes.
OnlySync(c) ==
  /\ UNCHANGED <<seqid, syncVars>>
  /\ \A d \in Callers \ {c} : pc'[d] = pc[d] /\ question'[d] = question[d]
  /\ \A k \in Connections \ {c} :
       transport'[k] = transport[k] /\ requests'[k] = requests[k] /\ replies'[k] = replies[k]

\* A step of a run with its own client touches nothing of the others.
LEMMA OnlySyncInv ==
  ASSUME ClientsInv, NEW c \in SyncCallers, OnlySync(c), ClientsTypeOK', Own(c)',
         pc'[c] \in AtRest \/ question'[c] \in QuestionOf(c)
  PROVE  ClientsInv'
<1>1. c \in Callers /\ c # Shared /\ c \notin ConcurrentCallers /\ Shared \in Connections
  BY ClientsAssumption DEF ConcurrentCallers
<1>2. UNCHANGED <<seqid, nextSeqid, pending, stop>>
  BY DEF OnlySync, syncVars
<1>3. SameCalls
  BY <1>1, <1>2 DEF SameCalls, OnlySync, ConcurrentCallers
<1>4. Asked'
  BY DEF ClientsInv, Asked, QuestionOf, OnlySync
<1>5. SharedStream'
  BY <1>1, <1>2, <1>3, SameCallsKeep, SharedUntouched DEF OnlySync
<1>6. OwnStream'
  BY ClientsAssumption DEF ClientsInv, OwnStream, Own, OnlySync
<1>7. GivenUp'
  BY <1>1, <1>2 DEF ClientsInv, GivenUp, GivenUpIfBroken, OnlySync
<1>. QED  BY <1>3, <1>4, <1>5, <1>6, <1>7, SameCallsKeep DEF ClientsInv

\* transport->open() and transport->close() in startCalcModel leave an empty stream.
LEMMA SyncTransportInv ==
  ASSUME ClientsInv, NEW c \in SyncCallers, OpenTransport(c) \/ CloseTransport(c)
  PROVE  ClientsInv'
<1>. USE ClientsAssumption
<1>1. pc[c] \in AtRest /\ UNCHANGED <<pc, question, value, seqid, syncVars>>
  BY DEF OpenTransport, CloseTransport, AtRest, callVars
<1>2. /\ transport' \in [Connections -> {"closed", "open", "broken"}]
      /\ \A k \in Connections \ {c} : transport'[k] = transport[k]
      /\ \/ requests' = requests /\ replies' = replies
         \/ requests' = [requests EXCEPT ![c] = << >>] /\ replies' = [replies EXCEPT ![c] = << >>]
  <2>1. CASE OpenTransport(c)
    BY <2>1 DEF ClientsInv, ClientsTypeOK, ConnectionTypeOK, OpenTransport, Open
  <2>2. CASE CloseTransport(c)
    BY <2>2 DEF ClientsInv, ClientsTypeOK, ConnectionTypeOK, CloseTransport, Close
  <2>. QED  BY <2>1, <2>2
<1>3. ConnectionTypeOK' /\ \A k \in Connections \ {c} : requests'[k] = requests[k] /\ replies'[k] = replies[k]
  <2>. USE DEF ClientsInv, ClientsTypeOK, ConnectionTypeOK
  <2>1. << >> \in Seq(Request) /\ << >> \in Seq(Message)
    OBVIOUS
  <2>2. CASE requests' = requests /\ replies' = replies
    BY <1>2, <2>2
  <2>3. CASE requests' = [requests EXCEPT ![c] = << >>] /\ replies' = [replies EXCEPT ![c] = << >>]
    BY <1>2, <2>1, <2>3
  <2>. QED  BY <1>2, <2>2, <2>3
<1>4. ClientsTypeOK'
  BY <1>1, <1>3 DEF ClientsInv, ClientsTypeOK, syncVars
<1>5. Own(c)'
  <2>1. requests[c] = << >> /\ replies[c] = << >>
    BY <1>1 DEF ClientsInv, OwnStream, Own, AtRest
  <2>2. requests'[c] = << >> /\ replies'[c] = << >>
    BY <1>2, <2>1 DEF ClientsInv, ClientsTypeOK, ConnectionTypeOK
  <2>. QED  BY <1>1, <2>2 DEF Own
<1>6. OnlySync(c)
  BY <1>1, <1>2, <1>3 DEF OnlySync
<1>. QED  BY <1>1, <1>4, <1>5, <1>6, OnlySyncInv

\* A call asks a question that is well formed.
LEMMA CallProperties ==
  ASSUME ClientsTypeOK, NEW c \in Callers, NEW m \in Methods, Call(c, m)
  PROVE  /\ question' \in [Callers -> Question \cup {NoQuestion}] /\ question'[c] \in QuestionOf(c)
         /\ value' \in [Callers -> Question \cup {NoValue}]
         /\ \A d \in Callers \ {c} : question'[d] = question[d]
<1>1. question[c].number \in Nat /\ question[c].number + 1 \in 1..MaxCalls
  BY ServiceAssumption DEF ClientsTypeOK, Question, NoQuestion, Call
<1>2. [caller |-> c, fname |-> m, number |-> question[c].number + 1] \in Question
  BY <1>1 DEF Question
<1>. QED  BY <1>2 DEF ClientsTypeOK, Call, QuestionOf

\* A run begins a call of the plain client only on an empty stream.
LEMMA SyncCallInv ==
  ASSUME ClientsInv, NEW c \in SyncCallers, NEW m \in Methods, SyncCall(c, m)
  PROVE  ClientsInv'
<1>. USE ClientsAssumption
<1>1. /\ UNCHANGED <<connectionVars, seqid, syncVars>> /\ pc[c] \in AtRest
      /\ pc' = [pc EXCEPT ![c] = "send"]
  BY DEF SyncCall, Call
<1>2. UNCHANGED <<transport, requests, replies, nextSeqid, pending, readMutex, wakeup, stop>>
  BY <1>1 DEF connectionVars, syncVars
<1>3. /\ question' \in [Callers -> Question \cup {NoQuestion}] /\ question'[c] \in QuestionOf(c)
      /\ value' \in [Callers -> Question \cup {NoValue}]
      /\ \A d \in Callers \ {c} : question'[d] = question[d]
  BY CallProperties DEF SyncCall, ClientsInv
<1>4. ClientsTypeOK'
  BY <1>1, <1>2, <1>3 DEF ClientsInv, ClientsTypeOK, ConnectionTypeOK
<1>5. Own(c)'
  BY <1>1, <1>2 DEF ClientsInv, ClientsTypeOK, OwnStream, Own, AtRest
<1>6. OnlySync(c)
  BY <1>1, <1>2, <1>3 DEF ClientsInv, ClientsTypeOK, OnlySync
<1>. QED  BY <1>3, <1>4, <1>5, <1>6, OnlySyncInv

\* What a caller writes is its question.
LEMMA CallOfRequest ==
  ASSUME ClientsInv, NEW c \in Callers, pc[c] \notin AtRest
  PROVE  CallOf(c) \in Request /\ CallOf(c).args = question[c] /\ CallOf(c).fname = question[c].fname
BY DEF ClientsInv, ClientsTypeOK, Asked, QuestionOf, CallOf, Request, Question

\* send_ of the plain client puts its request on the stream, or gives the connection up.
LEMMA SyncSendInv ==
  ASSUME ClientsInv, NEW c \in SyncCallers, SyncSend(c)
  PROVE  ClientsInv'
<1>. USE ClientsAssumption
<1>1. pc[c] = "send" /\ requests[c] = << >> /\ replies[c] = << >>
  BY DEF SyncSend, ClientsInv, OwnStream, Own
<1>2. UNCHANGED <<question, value, seqid, syncVars>> /\ pc' = [pc EXCEPT ![c] = pc'[c]]
  BY DEF SyncSend, Goto, ClientsInv, ClientsTypeOK
<1>3. /\ transport' \in [Connections -> {"closed", "open", "broken"}]
      /\ \A k \in Connections \ {c} : transport'[k] = transport[k]
  BY DEF SyncSend, Write, Close, ClientsInv, ClientsTypeOK, ConnectionTypeOK
<1>4. \/ /\ pc'[c] = "recv"
         /\ requests' = [requests EXCEPT ![c] = <<CallOf(c)>>] /\ replies' = replies
      \/ /\ pc'[c] = "thrown"
         /\ requests' = [requests EXCEPT ![c] = << >>] /\ replies' = [replies EXCEPT ![c] = << >>]
  BY <1>1 DEF SyncSend, Write, Close, Goto, ClientsInv, ClientsTypeOK, ConnectionTypeOK
<1>5. CallOf(c) \in Request /\ CallOf(c).args = question[c] /\ <<CallOf(c)>> \in Seq(Request)
  BY <1>1, CallOfRequest DEF AtRest
<1>6. /\ ConnectionTypeOK'
      /\ \A k \in Connections \ {c} : requests'[k] = requests[k] /\ replies'[k] = replies[k]
  <2>1. << >> \in Seq(Request) /\ << >> \in Seq(Message)
    OBVIOUS
  <2>2. requests \in [Connections -> Seq(Request)] /\ replies \in [Connections -> Seq(Message)]
    BY DEF ClientsInv, ClientsTypeOK, ConnectionTypeOK
  <2>3. requests' \in [Connections -> Seq(Request)] /\ replies' \in [Connections -> Seq(Message)]
    BY <1>4, <1>5, <2>1, <2>2
  <2>4. \A k \in Connections \ {c} : requests'[k] = requests[k] /\ replies'[k] = replies[k]
    BY <1>4, <2>2
  <2>. QED  BY <1>3, <2>3, <2>4 DEF ConnectionTypeOK
<1>7. ClientsTypeOK'
  BY <1>2, <1>4, <1>6 DEF ClientsInv, ClientsTypeOK, AtRest, syncVars
<1>8. Own(c)'
  <2>1. c \in Connections /\ DOMAIN requests = Connections /\ DOMAIN replies = Connections
    BY DEF ClientsInv, ClientsTypeOK, ConnectionTypeOK
  <2>2. question'[c] = question[c]
    BY <1>2
  <2>3. CASE /\ pc'[c] = "recv"
             /\ requests' = [requests EXCEPT ![c] = <<CallOf(c)>>] /\ replies' = replies
    <3>1. requests'[c] = <<CallOf(c)>> /\ replies'[c] = << >>
      BY <1>1, <2>1, <2>3
    <3>2. \E r \in Request : requests'[c] = <<r>> /\ r.args = question'[c]
      BY <1>5, <2>2, <3>1
    <3>3. pc'[c] = "recv"
      BY <2>3
    <3>. QED  BY <3>1, <3>2, <3>3 DEF Own
  <2>4. CASE /\ pc'[c] = "thrown"
             /\ requests' = [requests EXCEPT ![c] = << >>] /\ replies' = [replies EXCEPT ![c] = << >>]
    <3>1. requests'[c] = << >> /\ replies'[c] = << >>
      BY <2>1, <2>4
    <3>. QED  BY <2>4, <3>1 DEF Own, AtRest
  <2>. QED  BY <1>4, <2>3, <2>4
<1>9. OnlySync(c)
  BY <1>2, <1>3, <1>6 DEF ClientsInv, ClientsTypeOK, OnlySync
<1>10. question'[c] \in QuestionOf(c)
  BY <1>1, <1>2 DEF ClientsInv, Asked, QuestionOf, AtRest
<1>. QED  BY <1>7, <1>8, <1>9, <1>10, OnlySyncInv

\* A run reads the reply to its call: it takes the answer or throws.
LEMMA SyncRecvStep ==
  ASSUME ClientsInv, NEW c \in SyncCallers, SyncRecv(c)
  PROVE  /\ pc[c] = "recv"
         /\ \/ /\ pc' = [pc EXCEPT ![c] = "returned"] /\ value' = [value EXCEPT ![c] = question[c]]
               /\ requests[c] = << >> /\ Len(replies[c]) = 1 /\ Read(c)
            \/ pc' = [pc EXCEPT ![c] = "thrown"] /\ value' = value /\ Close(c)
         /\ UNCHANGED <<question, seqid, syncVars>>
<1>. USE ClientsAssumption
<1>1. pc[c] = "recv" /\ UNCHANGED syncVars
  BY DEF SyncRecv
<1>2. CASE EndOfStream(c) /\ Close(c) /\ Goto(c, "thrown")
  BY <1>1, <1>2 DEF Goto
<1>3. CASE /\ replies[c] # << >> /\ End(c, Head(replies[c]))
           /\ IF pc'[c] = "returned" THEN Read(c) ELSE Close(c)
  <2>1. PICK msg \in Message : replies[c] = <<msg>> /\ msg.success = question[c] /\ requests[c] = << >>
    BY <1>3 DEF ClientsInv, OwnStream, Own
  <2>2. Head(replies[c]) = msg /\ Len(replies[c]) = 1
    BY <2>1
  <2>3. pc \in [Callers -> AtRest \cup {"seqid", "send", "recv", "read", "wait"}] /\ c \in Callers
    BY DEF ClientsInv, ClientsTypeOK
  <2>4. CASE Returns(msg, question[c].fname)
    BY <1>1, <1>3, <2>1, <2>2, <2>3, <2>4 DEF End
  <2>5. CASE ~Returns(msg, question[c].fname)
    BY <1>1, <1>3, <2>1, <2>2, <2>3, <2>5 DEF End
  <2>. QED  BY <2>4, <2>5
<1>. QED  BY <1>2, <1>3 DEF SyncRecv

\* recv_ of the plain client takes the answer to its own request off the stream.
LEMMA SyncRecvInv ==
  ASSUME ClientsInv, NEW c \in SyncCallers, SyncRecv(c)
  PROVE  ClientsInv'
<1>. USE ClientsAssumption
<1>1. /\ pc[c] = "recv"
      /\ \/ /\ pc' = [pc EXCEPT ![c] = "returned"] /\ value' = [value EXCEPT ![c] = question[c]]
            /\ requests[c] = << >> /\ Len(replies[c]) = 1 /\ Read(c)
         \/ pc' = [pc EXCEPT ![c] = "thrown"] /\ value' = value /\ Close(c)
      /\ UNCHANGED <<question, seqid, syncVars>>
  BY SyncRecvStep
<1>2. question[c] \in QuestionOf(c)
  BY <1>1 DEF ClientsInv, Asked, QuestionOf, AtRest
<1>3. requests'[c] = << >> /\ replies'[c] = << >> /\ ConnectionTypeOK'
  <2>1. CASE requests[c] = << >> /\ Len(replies[c]) = 1 /\ Read(c)
    <3>1. replies[c] \in Seq(Message)
      BY DEF ClientsInv, ClientsTypeOK, ConnectionTypeOK
    <3>2. replies[c] # << >>
      BY <2>1 DEF Read
    <3>3. Tail(replies[c]) \in Seq(Message) /\ Len(Tail(replies[c])) = Len(replies[c]) - 1
      BY <3>1, <3>2, HeadTailProperties
    <3>4. Tail(replies[c]) = << >>
      <4>1. Len(Tail(replies[c])) = 0
        BY <2>1, <3>3
      <4>. QED  BY <3>3, <4>1, EmptySeq
    <3>. QED  BY <2>1, <3>3, <3>4 DEF Read, ClientsInv, ClientsTypeOK, ConnectionTypeOK
  <2>2. CASE Close(c)
    BY <2>2 DEF Close, ClientsInv, ClientsTypeOK, ConnectionTypeOK
  <2>. QED  BY <1>1, <2>1, <2>2
<1>4. \A k \in Connections \ {c} :
        transport'[k] = transport[k] /\ requests'[k] = requests[k] /\ replies'[k] = replies[k]
  BY <1>1 DEF Read, Close, ClientsInv, ClientsTypeOK, ConnectionTypeOK
<1>5. ClientsTypeOK'
  BY <1>1, <1>2, <1>3 DEF ClientsInv, ClientsTypeOK, AtRest, QuestionOf, syncVars
<1>6. Own(c)' /\ pc'[c] \in AtRest
  BY <1>1, <1>3 DEF ClientsInv, ClientsTypeOK, Own, AtRest
<1>7. OnlySync(c)
  BY <1>1, <1>4 DEF ClientsInv, ClientsTypeOK, OnlySync
<1>. QED  BY <1>5, <1>6, <1>7, OnlySyncInv

(***************************************************************************)
(* The steps of a thread that shares the connection.                       *)
(***************************************************************************)

\* Nobody's call changes but the caller's, and no connection but the shared one.
OnlyShared(c) ==
  /\ \A d \in Callers \ {c} : pc'[d] = pc[d] /\ question'[d] = question[d]
  /\ \A k \in SyncCallers : requests'[k] = requests[k] /\ replies'[k] = replies[k]

\* A step of a thread that shares the connection touches no other connection.
LEMMA OnlySharedInv ==
  ASSUME ClientsInv, NEW c \in ConcurrentCallers, OnlyShared(c), ClientsTypeOK',
         pc'[c] \in AtRest \/ question'[c] \in QuestionOf(c),
         Numbers', SharedStream', GivenUp'
  PROVE  ClientsInv'
<1>1. Asked'
  BY DEF ClientsInv, Asked, QuestionOf, OnlyShared
<1>2. OwnStream'
  BY ClientsAssumption, OwnUntouched DEF OnlyShared, ConcurrentCallers
<1>. QED  BY <1>1, <1>2 DEF ClientsInv

\* A thread begins a call of the concurrent client.
LEMMA ConcurrentCallInv ==
  ASSUME ClientsInv, NEW c \in ConcurrentCallers, NEW m \in Methods, ConcurrentCall(c, m)
  PROVE  ClientsInv'
<1>1. /\ UNCHANGED <<connectionVars, seqid, syncVars>> /\ pc[c] \in AtRest
      /\ pc' = [pc EXCEPT ![c] = "seqid"] /\ c \in Callers
  BY DEF ConcurrentCall, Call, ConcurrentCallers
<1>2. UNCHANGED <<transport, requests, replies, nextSeqid, pending, readMutex, wakeup, stop>>
  BY <1>1 DEF connectionVars, syncVars
<1>3. /\ question' \in [Callers -> Question \cup {NoQuestion}] /\ question'[c] \in QuestionOf(c)
      /\ value' \in [Callers -> Question \cup {NoValue}]
      /\ \A d \in Callers \ {c} : question'[d] = question[d]
  BY <1>1, CallProperties DEF ConcurrentCall, ClientsInv
<1>4. ClientsTypeOK'
  BY <1>1, <1>2, <1>3 DEF ClientsInv, ClientsTypeOK, ConnectionTypeOK
<1>5. SameCalls /\ OnlyShared(c)
  BY <1>1, <1>2, <1>3 DEF ClientsInv, ClientsTypeOK, SameCalls, OnlyShared, Calling, ConcurrentCallers
<1>6. Numbers' /\ SharedStream'
  BY <1>2, <1>5, SameCallsKeep, SharedUntouched
<1>7. GivenUp'
  BY <1>2 DEF ClientsInv, GivenUp, GivenUpIfBroken
<1>. QED  BY <1>3, <1>4, <1>5, <1>6, <1>7, OnlySharedInv

\* generateSeqId gives a number that no call in progress has.
LEMMA GenerateSeqIdInv ==
  ASSUME ClientsInv, NEW c \in ConcurrentCallers, GenerateSeqId(c)
  PROVE  ClientsInv'
<1>1. c \in Callers /\ pc[c] = "seqid" /\ question[c] \in QuestionOf(c)
  BY DEF ClientsInv, Asked, QuestionOf, AtRest, GenerateSeqId, ConcurrentCallers
<1>2. UNCHANGED <<transport, requests, replies, pending, readMutex, wakeup, stop, question, value>>
  BY DEF GenerateSeqId, Goto, connectionVars
<1>3. \/ /\ seqid' = [seqid EXCEPT ![c] = nextSeqid] /\ nextSeqid' = nextSeqid + 1
         /\ pc' = [pc EXCEPT ![c] = "send"]
      \/ seqid' = seqid /\ nextSeqid' = nextSeqid /\ pc' = [pc EXCEPT ![c] = "thrown"]
  BY DEF GenerateSeqId, Goto
<1>4. ClientsTypeOK'
  <2>. USE DEF ClientsInv, ClientsTypeOK
  <2>1. ConnectionTypeOK'
    BY <1>2 DEF ConnectionTypeOK
  <2>2. pc' \in [Callers -> AtRest \cup {"seqid", "send", "recv", "read", "wait"}]
    BY <1>1, <1>3 DEF AtRest
  <2>3. seqid' \in [Callers -> Nat] /\ nextSeqid' \in Nat
    BY <1>1, <1>3
  <2>. QED  BY <1>2, <2>1, <2>2, <2>3
<1>5. OnlyShared(c)
  BY <1>2, <1>3 DEF ClientsInv, ClientsTypeOK, OnlyShared
<1>6. Numbers'
  BY <1>1, <1>3 DEF ClientsInv, ClientsTypeOK, Numbers, Calling, ConcurrentCallers
<1>7. GoodRequest \subseteq GoodRequest' /\ GoodMessage \subseteq GoodMessage'
  <2>1. nextSeqid' \in Nat /\ nextSeqid <= nextSeqid'
    BY <1>3 DEF ClientsInv, ClientsTypeOK
  <2>2. ASSUME NEW d \in ConcurrentCallers, pc'[d] \in Calling
        PROVE  \/ seqid'[d] = nextSeqid
               \/ pc[d] \in Calling /\ seqid'[d] = seqid[d] /\ question'[d] = question[d]
    BY <1>1, <1>2, <1>3, <2>2 DEF ClientsInv, ClientsTypeOK, Calling, ConcurrentCallers
  <2>. QED  BY <2>1, <2>2, GoodStays DEF ClientsInv
<1>8. SharedStream'
  BY <1>2, <1>7, SharedUntouched
<1>9. GivenUp'
  BY <1>2 DEF ClientsInv, GivenUp, GivenUpIfBroken
<1>. QED  BY <1>1, <1>2, <1>4, <1>5, <1>6, <1>8, <1>9, OnlySharedInv

\* send_ of the concurrent client puts its request on the shared stream, or throws.
LEMMA SendInv ==
  ASSUME ClientsInv, NEW c \in ConcurrentCallers, Send(c)
  PROVE  ClientsInv'
<1>. USE ClientsAssumption
<1>1. c \in Callers /\ pc[c] = "send" /\ question[c] \in QuestionOf(c) /\ Shared \in Connections
  BY DEF ClientsInv, Asked, QuestionOf, AtRest, Send, ConcurrentCallers
<1>2. UNCHANGED <<transport, replies, question, value, seqid, nextSeqid, pending, readMutex>>
  BY DEF Send, Goto, Write, connectionVars
<1>3. \/ /\ requests' = [requests EXCEPT ![Shared] = Append(@, CallOf(c))]
         /\ pc' = [pc EXCEPT ![c] = "recv"] /\ UNCHANGED <<wakeup, stop>>
      \/ /\ requests' = requests /\ pc' = [pc EXCEPT ![c] = "thrown"]
         /\ wakeup' = TRUE /\ stop' = TRUE /\ transport[Shared] = "broken"
  BY DEF Send, Goto, Write, MarkBad, connectionVars
<1>4. /\ CallOf(c) \in Request /\ CallOf(c).args = question[c] /\ CallOf(c).seqid = seqid[c]
      /\ CallOf(c).fname = CallOf(c).args.fname
  BY <1>1, CallOfRequest DEF AtRest, CallOf
<1>5. requests[Shared] \in Seq(Request) /\ Append(requests[Shared], CallOf(c)) \in Seq(Request)
  BY <1>1, <1>4 DEF ClientsInv, ClientsTypeOK, ConnectionTypeOK
<1>6. ClientsTypeOK'
  <2>. USE DEF ClientsInv, ClientsTypeOK
  <2>1. ConnectionTypeOK'
    <3>1. requests' \in [Connections -> Seq(Request)]
      BY <1>3, <1>5 DEF ConnectionTypeOK
    <3>. QED  BY <1>2, <3>1 DEF ConnectionTypeOK
  <2>2. pc' \in [Callers -> AtRest \cup {"seqid", "send", "recv", "read", "wait"}]
    BY <1>1, <1>3 DEF AtRest
  <2>3. wakeup' \in BOOLEAN /\ stop' \in BOOLEAN
    BY <1>3
  <2>. QED  BY <1>2, <2>1, <2>2, <2>3
<1>7. SameCalls /\ OnlyShared(c)
  BY <1>1, <1>2, <1>3 DEF ClientsInv, ClientsTypeOK, ConnectionTypeOK, SameCalls, OnlyShared, Calling, ConcurrentCallers
<1>8. CallOf(c) \in GoodRequest
  BY <1>1, <1>4 DEF ClientsInv, Numbers, GoodRequest, BelongsTo, Calling, QuestionOf
<1>9. SharedStream'
  <2>1. CASE requests' = requests
    BY <1>2, <1>7, <2>1, SameCallsKeep, SharedUntouched
  <2>2. CASE requests' = [requests EXCEPT ![Shared] = Append(@, CallOf(c))]
    <3>1. Append(requests[Shared], CallOf(c)) \in Seq(GoodRequest) /\ replies[Shared] \in Seq(GoodMessage)
      BY <1>8 DEF ClientsInv, SharedStream
    <3>2. requests'[Shared] \in Seq(GoodRequest') /\ replies'[Shared] \in Seq(GoodMessage')
      BY <1>1, <1>2, <1>7, <2>2, <3>1, SameCallsKeep, SeqMonotonic DEF ClientsInv, ClientsTypeOK, ConnectionTypeOK
    <3>. QED  BY <1>2, <1>7, <3>2, SameCallsKeep DEF ClientsInv, SharedStream
  <2>. QED  BY <1>3, <2>1, <2>2
<1>10. GivenUp'
  BY <1>2, <1>3 DEF ClientsInv, GivenUp, GivenUpIfBroken
<1>. QED  BY <1>1, <1>2, <1>6, <1>7, <1>9, <1>10, SameCallsKeep, OnlySharedInv

\* What a thread makes of a message in hand: the answer to its call, an exception,
\* or something for another thread.  It never has to give the connection up.
LEMMA HandleProperties ==
  ASSUME ClientsInv, NEW c \in ConcurrentCallers, pc[c] \in Calling,
         NEW msg \in GoodMessage, Handle(c, msg)
  PROVE  /\ \/ pc' = [pc EXCEPT ![c] = "returned"] /\ value' = [value EXCEPT ![c] = question[c]]
            \/ pc' = [pc EXCEPT ![c] = "thrown"] /\ value' = value
            \/ pc' = [pc EXCEPT ![c] = "wait"] /\ value' = value
         /\ UNCHANGED <<question, seqid, stop>> /\ pending' \in {msg, NoMessage}
         /\ readMutex' = Free /\ wakeup' \in BOOLEAN
<1>1. CASE msg.seqid # seqid[c]
  BY <1>1 DEF Handle, Goto
<1>2. CASE msg.seqid = seqid[c]
  <2>1. msg.success = question[c] /\ msg.fname = question[c].fname
    BY <1>2 DEF GoodMessage, BelongsTo
  <2>2. Understood(c, msg)
    BY <2>1 DEF GoodMessage, Message, Understood
  <2>3. UNCHANGED <<question, seqid, stop>> /\ pending' = NoMessage /\ readMutex' = Free /\ wakeup' = TRUE
    BY <1>2, <2>2 DEF Handle, End, Commit
  <2>4. \/ pc' = [pc EXCEPT ![c] = "returned"] /\ value' = [value EXCEPT ![c] = question[c]]
        \/ pc' = [pc EXCEPT ![c] = "thrown"] /\ value' = value
    BY <1>2, <2>1 DEF Handle, End
  <2>. QED  BY <2>3, <2>4
<1>. QED  BY <1>1, <1>2

\* A thread that has a message in hand (recv_ of the concurrent client) ends its call with
\* it or hands it over.
LEMMA HandleInv ==
  ASSUME ClientsInv, NEW c \in ConcurrentCallers, pc[c] \in Calling,
         NEW msg \in GoodMessage, Handle(c, msg),
         UNCHANGED <<transport, requests, nextSeqid>>, ConnectionTypeOK',
         \A k \in SyncCallers : replies'[k] = replies[k],
         replies'[Shared] \in Seq(GoodMessage)
  PROVE  ClientsInv'
<1>1. /\ \/ pc' = [pc EXCEPT ![c] = "returned"] /\ value' = [value EXCEPT ![c] = question[c]]
         \/ pc' = [pc EXCEPT ![c] = "thrown"] /\ value' = value
         \/ pc' = [pc EXCEPT ![c] = "wait"] /\ value' = value
      /\ UNCHANGED <<question, seqid, stop>> /\ pending' \in {msg, NoMessage}
      /\ readMutex' = Free /\ wakeup' \in BOOLEAN
  BY HandleProperties
<1>2. c \in Callers /\ question[c] \in QuestionOf(c)
  BY DEF ClientsInv, Asked, QuestionOf, AtRest, Calling, ConcurrentCallers
<1>3. ClientsTypeOK'
  <2>1. pending' \in Message \cup {NoMessage}
    BY <1>1 DEF GoodMessage
  <2>2. /\ pc' \in [Callers -> AtRest \cup {"seqid", "send", "recv", "read", "wait"}]
        /\ value' \in [Callers -> Question \cup {NoValue}]
    BY <1>1, <1>2 DEF ClientsInv, ClientsTypeOK, AtRest, QuestionOf
  <2>. QED  BY <1>1, <2>1, <2>2 DEF ClientsInv, ClientsTypeOK
<1>4. SameCalls /\ OnlyShared(c)
  BY <1>1 DEF ClientsInv, ClientsTypeOK, SameCalls, OnlyShared, Calling, ConcurrentCallers
<1>5. SharedStream'
  <2>1. requests'[Shared] \in Seq(GoodRequest') /\ replies'[Shared] \in Seq(GoodMessage')
    BY <1>4, SameCallsKeep, SeqMonotonic DEF ClientsInv, SharedStream
  <2>. QED  BY <1>1, <1>4, <2>1, SameCallsKeep DEF SharedStream
<1>6. GivenUp'
  BY <1>1 DEF ClientsInv, GivenUp, GivenUpIfBroken
<1>. QED  BY <1>1, <1>2, <1>3, <1>4, <1>5, <1>6, SameCallsKeep, OnlySharedInv

\* getPending and waitForWork: the thread takes what was handed over, or reads.
LEMMA GetPendingInv ==
  ASSUME ClientsInv, NEW c \in ConcurrentCallers, GetPending(c)
  PROVE  ClientsInv'
<1>1. c \in Callers /\ pc[c] \in {"recv", "wait"} /\ pc[c] \in Calling /\ question[c] \in QuestionOf(c)
  BY DEF ClientsInv, Asked, QuestionOf, AtRest, GetPending, Woken, Calling, ConcurrentCallers
<1>2. UNCHANGED <<transport, requests, replies, nextSeqid>> /\ ConnectionTypeOK'
  BY DEF GetPending, connectionVars, ClientsInv, ClientsTypeOK, ConnectionTypeOK
<1>3. CASE ~stop /\ pending # NoMessage /\ Handle(c, pending)
  BY <1>1, <1>2, <1>3, HandleInv DEF ClientsInv, SharedStream
<1>4. CASE \/ stop /\ Goto(c, "thrown") /\ MarkBad /\ UNCHANGED <<pending, readMutex>>
           \/ /\ ~stop /\ pending = NoMessage
              /\ readMutex' = c /\ Goto(c, "read")
              /\ wakeup' = FALSE /\ UNCHANGED <<pending, stop>>
  <2>1. /\ UNCHANGED <<question, value, seqid, pending>> /\ stop' = stop
        /\ wakeup' \in BOOLEAN /\ readMutex' \in Callers \cup {Free}
        /\ pc' = [pc EXCEPT ![c] = "thrown"] \/ pc' = [pc EXCEPT ![c] = "read"]
    BY <1>1, <1>4 DEF Goto, MarkBad, ClientsInv, ClientsTypeOK
  <2>2. ClientsTypeOK'
    BY <1>2, <2>1 DEF ClientsInv, ClientsTypeOK, AtRest
  <2>3. SameCalls /\ OnlyShared(c)
    BY <1>1, <1>2, <2>1 DEF ClientsInv, ClientsTypeOK, SameCalls, OnlyShared, Calling, ConcurrentCallers
  <2>4. Numbers' /\ SharedStream'
    BY <1>2, <2>1, <2>3, SameCallsKeep, SharedUntouched
  <2>5. GivenUp'
    BY <1>2, <2>1 DEF ClientsInv, GivenUp, GivenUpIfBroken
  <2>. QED  BY <1>1, <2>1, <2>2, <2>3, <2>4, <2>5, OnlySharedInv
<1>. QED  BY <1>3, <1>4 DEF GetPending

\* readMessageBegin: the thread that holds the read mutex takes the oldest message.
LEMMA ReadMessageInv ==
  ASSUME ClientsInv, NEW c \in ConcurrentCallers, ReadMessage(c)
  PROVE  ClientsInv'
<1>. USE ClientsAssumption
<1>1. c \in Callers /\ pc[c] = "read" /\ pc[c] \in Calling /\ question[c] \in QuestionOf(c)
  BY DEF ClientsInv, Asked, QuestionOf, AtRest, ReadMessage, Calling, ConcurrentCallers
<1>2. CASE Read(Shared) /\ Handle(c, Head(replies[Shared]))
  <2>1. replies[Shared] \in Seq(GoodMessage) /\ replies[Shared] # << >>
    BY <1>2 DEF ClientsInv, SharedStream, Read
  <2>2. Head(replies[Shared]) \in GoodMessage /\ Tail(replies[Shared]) \in Seq(GoodMessage)
    BY <2>1, HeadTailProperties
  <2>3. Tail(replies[Shared]) \in Seq(Message)
    BY <2>2, SeqMonotonic DEF GoodMessage
  <2>4. UNCHANGED <<transport, requests, nextSeqid>> /\ replies' = [replies EXCEPT ![Shared] = Tail(@)]
    BY <1>2 DEF Read, ReadMessage
  <2>5. ConnectionTypeOK'
    BY <2>3, <2>4 DEF ClientsInv, ClientsTypeOK, ConnectionTypeOK
  <2>6. /\ \A k \in SyncCallers : replies'[k] = replies[k]
        /\ replies'[Shared] \in Seq(GoodMessage)
    BY <2>2, <2>4 DEF ClientsInv, ClientsTypeOK, ConnectionTypeOK
  <2>. QED  BY <1>1, <1>2, <2>2, <2>4, <2>5, <2>6, HandleInv
<1>3. CASE /\ EndOfStream(Shared)
           /\ Goto(c, "thrown") /\ MarkBad /\ readMutex' = Free
           /\ UNCHANGED <<connectionVars, pending>>
  <2>1. /\ UNCHANGED <<transport, requests, replies, pending, nextSeqid, question, value, seqid>>
        /\ pc' = [pc EXCEPT ![c] = "thrown"] /\ readMutex' = Free /\ wakeup' = TRUE /\ stop' = TRUE
        /\ transport[Shared] = "broken"
    BY <1>3 DEF ReadMessage, Goto, MarkBad, EndOfStream, connectionVars
  <2>2. ClientsTypeOK'
    BY <2>1 DEF ClientsInv, ClientsTypeOK, ConnectionTypeOK, AtRest
  <2>3. SameCalls /\ OnlyShared(c)
    BY <1>1, <2>1 DEF ClientsInv, ClientsTypeOK, SameCalls, OnlyShared, Calling, ConcurrentCallers
  <2>4. Numbers' /\ SharedStream'
    BY <2>1, <2>3, SameCallsKeep, SharedUntouched
  <2>5. GivenUp'
    BY <2>1 DEF ClientsInv, GivenUp, GivenUpIfBroken
  <2>. QED  BY <1>1, <2>1, <2>2, <2>3, <2>4, <2>5, OnlySharedInv
<1>. QED  BY <1>2, <1>3 DEF ReadMessage

(***************************************************************************)
(* The theorems.                                                           *)
(***************************************************************************)

\* Every step of the clients, the server and the network keeps ClientsInv.
LEMMA ClientsInvStep == ClientsInv /\ [ClientsNext]_clientVars => ClientsInv'
<1>. SUFFICES ASSUME ClientsInv, [ClientsNext]_clientVars  PROVE ClientsInv'
  OBVIOUS
<1>1. CASE \E c \in SyncCallers :
             \/ OpenTransport(c) \/ CloseTransport(c) \/ SyncStep(c)
             \/ \E m \in Methods : SyncCall(c, m)
  BY <1>1, SyncTransportInv, SyncSendInv, SyncRecvInv, SyncCallInv DEF SyncStep
<1>2. CASE \E c \in ConcurrentCallers :
             \/ ConcurrentStep(c)
             \/ \E m \in Methods : ConcurrentCall(c, m)
  BY <1>2, GenerateSeqIdInv, SendInv, GetPendingInv, ReadMessageInv, ConcurrentCallInv
     DEF ConcurrentStep
<1>3. CASE \E k \in Connections :
             \/ ServerStep(k)
             \/ Break(k) /\ UNCHANGED <<callVars, syncVars>>
  BY <1>3, ServerStepInv, BreakInv
<1>4. CASE UNCHANGED clientVars
  <2>1. /\ UNCHANGED <<transport, requests, replies, pc, question, value, seqid>>
        /\ UNCHANGED <<nextSeqid, pending, readMutex, wakeup, stop>>
    BY <1>4 DEF clientVars, connectionVars, callVars, syncVars
  <2>2. SameCalls
    BY <2>1 DEF SameCalls
  <2>3. ClientsTypeOK' /\ Asked' /\ GivenUp'
    BY <2>1 DEF ClientsInv, ClientsTypeOK, ConnectionTypeOK, Asked, QuestionOf, GivenUp, GivenUpIfBroken
  <2>. QED  BY <2>1, <2>2, <2>3, SameCallsKeep, SharedUntouched, OwnUntouched DEF ClientsInv
<1>. QED  BY <1>1, <1>2, <1>3, <1>4 DEF ClientsNext

\* The types of the clients, the server and what is on its way between them.
THEOREM ClientsTypeCorrect == ClientsSpec => []ClientsTypeOK
<1>1. ClientsInv => ClientsTypeOK
  BY DEF ClientsInv
<1>. QED  BY <1>1, InitClientsInv, ClientsInvStep, PTL DEF ClientsSpec

\* However many threads share a connection, it is given up only when it is broken.
THEOREM GivenUpOnlyIfBroken == ClientsSpec => []GivenUpIfBroken
<1>1. ClientsInv => GivenUpIfBroken
  BY DEF ClientsInv, GivenUp
<1>. QED  BY <1>1, InitClientsInv, ClientsInvStep, PTL DEF ClientsSpec

(***************************************************************************)
(* The clients implement RemoteCall.                                       *)
(***************************************************************************)

\* Only its own steps move a call, and the state of the others stays.
LEMMA StateOfOthers ==
  ASSUME ClientsTypeOK, NEW c \in Callers, NEW next, pc' = [pc EXCEPT ![c] = next]
  PROVE  /\ State(c)' = IF next \in AtRest THEN next ELSE "asked"
         /\ [d \in Callers |-> State(d)]' = [[d \in Callers |-> State(d)] EXCEPT ![c] = State(c)']
BY DEF ClientsTypeOK, State

\* Every step of a call is a step of RemoteCall, or none.
LEMMA EndSimulates ==
  ASSUME ClientsInv, NEW c \in Callers, pc[c] \notin AtRest, question' = question,
         \/ pc' = [pc EXCEPT ![c] = "returned"] /\ value' = [value EXCEPT ![c] = question[c]]
         \/ pc' = [pc EXCEPT ![c] = "thrown"] /\ value' = value
  PROVE  RPC!Return(c) \/ RPC!Throw(c)
<1>1. State(c) = "asked"
  BY DEF State
<1>2. CASE pc' = [pc EXCEPT ![c] = "returned"] /\ value' = [value EXCEPT ![c] = question[c]]
  BY <1>1, <1>2, StateOfOthers DEF ClientsInv, RPC!Return, AtRest
<1>3. CASE pc' = [pc EXCEPT ![c] = "thrown"] /\ value' = value
  BY <1>1, <1>3, StateOfOthers DEF ClientsInv, RPC!Throw, AtRest
<1>. QED  BY <1>2, <1>3

\* A call that goes on is no step of RemoteCall.
LEMMA MoveStutters ==
  ASSUME ClientsInv, NEW c \in Callers, NEW next, pc' = [pc EXCEPT ![c] = next],
         pc[c] \notin AtRest, next \notin AtRest, UNCHANGED <<question, value>>
  PROVE  UNCHANGED RPC!rpcVars
<1>1. State(c) = "asked" /\ State(c)' = "asked"
  BY StateOfOthers DEF ClientsInv, State
<1>2. [d \in Callers |-> State(d)]' = [d \in Callers |-> State(d)]
  BY <1>1, StateOfOthers DEF ClientsInv
<1>. QED  BY <1>2 DEF RPC!rpcVars

\* A call begins in both specifications.
LEMMA CallSimulates ==
  ASSUME ClientsInv, NEW c \in Callers, NEW m \in Methods, Call(c, m), NEW next,
         next \notin AtRest, pc' = [pc EXCEPT ![c] = next]
  PROVE  RPC!Ask(c, m)
<1>1. State(c) # "asked" /\ State(c)' = "asked"
  BY StateOfOthers DEF ClientsInv, State, Call, AtRest
<1>. QED  BY <1>1, StateOfOthers DEF ClientsInv, Call, RPC!Ask, RPC!NextQuestion, RPC!NoValue, NoValue

\* A thread with a message in hand returns, throws, or goes on waiting.
LEMMA HandleSimulates ==
  ASSUME ClientsInv, NEW c \in ConcurrentCallers, pc[c] \in Calling,
         NEW msg \in GoodMessage, Handle(c, msg)
  PROVE  RPC!Return(c) \/ RPC!Throw(c) \/ UNCHANGED RPC!rpcVars
<1>1. c \in Callers /\ pc[c] \notin AtRest /\ "wait" \notin AtRest
  BY DEF AtRest, Calling, ConcurrentCallers
<1>. QED  BY <1>1, HandleProperties, EndSimulates, MoveStutters

\* Every step of the clients is a step of RemoteCall or none.
LEMMA ClientsStepSimulates ==
  ClientsInv /\ [ClientsNext]_clientVars => [RPC!RPCNext]_(RPC!rpcVars)
<1>. SUFFICES ASSUME ClientsInv, [ClientsNext]_clientVars  PROVE [RPC!RPCNext]_(RPC!rpcVars)
  OBVIOUS
<1>. USE ClientsAssumption
<1>1. ASSUME UNCHANGED callVars  PROVE UNCHANGED RPC!rpcVars
  BY <1>1 DEF callVars, State, RPC!rpcVars
<1>2. ASSUME NEW c \in SyncCallers,
             \/ OpenTransport(c) \/ CloseTransport(c) \/ SyncStep(c)
             \/ \E m \in Methods : SyncCall(c, m)
      PROVE  [RPC!RPCNext]_(RPC!rpcVars)
  <2>1. CASE OpenTransport(c) \/ CloseTransport(c)
    BY <1>1, <2>1 DEF OpenTransport, CloseTransport
  <2>2. CASE SyncSend(c)
    <3>1. pc[c] \notin AtRest /\ "recv" \notin AtRest /\ UNCHANGED <<question, value>>
      BY <2>2 DEF SyncSend, Goto, AtRest
    <3>2. pc' = [pc EXCEPT ![c] = "recv"] \/ pc' = [pc EXCEPT ![c] = "thrown"]
      BY <2>2 DEF SyncSend, Goto
    <3>. QED  BY <3>1, <3>2, EndSimulates, MoveStutters DEF RPC!RPCNext
  <2>3. CASE SyncRecv(c)
    <3>1. pc[c] \notin AtRest
      BY <2>3 DEF SyncRecv, AtRest
    <3>. QED  BY <2>3, <3>1, SyncRecvStep, EndSimulates DEF RPC!RPCNext
  <2>4. CASE \E m \in Methods : SyncCall(c, m)
    <3>1. "send" \notin AtRest
      BY DEF AtRest
    <3>. QED  BY <2>4, <3>1, CallSimulates DEF SyncCall, RPC!RPCNext
  <2>. QED  BY <1>2, <2>1, <2>2, <2>3, <2>4 DEF SyncStep
<1>3. ASSUME NEW c \in ConcurrentCallers,
             ConcurrentStep(c) \/ \E m \in Methods : ConcurrentCall(c, m)
      PROVE  [RPC!RPCNext]_(RPC!rpcVars)
  <2>1. c \in Callers /\ AtRest \cap {"seqid", "send", "recv", "read", "wait"} = {}
    BY DEF ConcurrentCallers, AtRest
  <2>2. CASE GenerateSeqId(c) \/ Send(c)
    <3>1. pc[c] \notin AtRest /\ UNCHANGED <<question, value>>
      BY <2>1, <2>2 DEF GenerateSeqId, Send, Goto
    <3>2. \E next \in {"send", "recv", "thrown"} : pc' = [pc EXCEPT ![c] = next]
      BY <2>2 DEF GenerateSeqId, Send, Goto
    <3>. QED  BY <2>1, <3>1, <3>2, EndSimulates, MoveStutters DEF RPC!RPCNext
  <2>3. CASE GetPending(c)
    <3>1. pc[c] \in Calling /\ pc[c] \notin AtRest
      BY <2>1, <2>3 DEF GetPending, Woken, Calling
    <3>2. CASE ~stop /\ pending # NoMessage /\ Handle(c, pending)
      BY <2>1, <3>1, <3>2, HandleSimulates DEF ClientsInv, SharedStream, RPC!RPCNext
    <3>3. CASE Goto(c, "thrown") \/ Goto(c, "read")
      BY <2>1, <3>1, <3>3, EndSimulates, MoveStutters DEF Goto, RPC!RPCNext
    <3>. QED  BY <2>3, <3>2, <3>3 DEF GetPending
  <2>4. CASE ReadMessage(c)
    <3>1. pc[c] \in Calling /\ pc[c] \notin AtRest
      BY <2>1, <2>4 DEF ReadMessage, Calling
    <3>2. CASE Read(Shared) /\ Handle(c, Head(replies[Shared]))
      <4>1. Head(replies[Shared]) \in GoodMessage
        BY <3>2, HeadTailProperties DEF ClientsInv, SharedStream, Read
      <4>. QED  BY <2>1, <3>1, <3>2, <4>1, HandleSimulates DEF RPC!RPCNext
    <3>3. CASE Goto(c, "thrown")
      BY <2>1, <3>1, <3>3, EndSimulates DEF Goto, RPC!RPCNext
    <3>. QED  BY <2>4, <3>2, <3>3 DEF ReadMessage
  <2>5. CASE \E m \in Methods : ConcurrentCall(c, m)
    BY <2>1, <2>5, CallSimulates DEF ConcurrentCall, RPC!RPCNext
  <2>. QED  BY <1>3, <2>2, <2>3, <2>4, <2>5 DEF ConcurrentStep
<1>4. CASE UNCHANGED clientVars
  BY <1>1, <1>4 DEF clientVars
<1>5. CASE \E c \in SyncCallers :
             \/ OpenTransport(c) \/ CloseTransport(c) \/ SyncStep(c)
             \/ \E m \in Methods : SyncCall(c, m)
  BY <1>2, <1>5
<1>6. CASE \E c \in ConcurrentCallers :
             \/ ConcurrentStep(c)
             \/ \E m \in Methods : ConcurrentCall(c, m)
  BY <1>3, <1>6
<1>7. CASE \E k \in Connections :
             \/ ServerStep(k)
             \/ Break(k) /\ UNCHANGED <<callVars, syncVars>>
  <2>1. PICK k \in Connections : ServerStep(k) \/ (Break(k) /\ UNCHANGED <<callVars, syncVars>>)
    BY <1>7
  <2>2. UNCHANGED callVars
    BY <2>1 DEF ServerStep
  <2>. QED  BY <1>1, <2>2
<1>. QED  BY <1>4, <1>5, <1>6, <1>7 DEF ClientsNext

\* Both generated clients implement RemoteCall, liveness aside: a call returns
\* the server's answer to this call, or throws, whatever the number of threads,
\* the order of the replies and the moment the connection breaks.
THEOREM ClientsImplementRemoteCall ==
  ClientsSpec => RPC!RPCInit /\ [][RPC!RPCNext]_(RPC!rpcVars)
<1>1. ClientsInit => RPC!RPCInit
  BY DEF ClientsInit, RPC!RPCInit, RPC!NoQuestion, RPC!NoValue, NoQuestion, NoValue, State, AtRest
<1>. QED  BY <1>1, InitClientsInv, ClientsInvStep, ClientsStepSimulates, PTL DEF ClientsSpec

-----------------------------------------------------------------------------
(***************************************************************************)
(* Counting the elements of a sequence that are in a set.                  *)
(***************************************************************************)

Places(s, T) == {i \in DOMAIN s : s[i] \in T}

Count(s, T) == Cardinality(Places(s, T))

\* The elements of a sequence can be counted.
LEMMA CountType ==
  ASSUME NEW S, NEW s \in Seq(S), NEW T
  PROVE  IsFiniteSet(Places(s, T)) /\ Count(s, T) \in Nat
<1>1. Len(s) \in Nat /\ DOMAIN s = 1..Len(s)
  BY LenProperties
<1>2. IsFiniteSet(DOMAIN s)
  BY <1>1, FS_Interval
<1>3. IsFiniteSet(Places(s, T))
  BY <1>2, FS_Subset DEF Places
<1>. QED  BY <1>3, FS_CardinalityType DEF Count

\* An empty stream has no messages.
LEMMA CountEmpty ==
  ASSUME NEW T
  PROVE  Count(<< >>, T) = 0
<1>1. Places(<< >>, T) = {}
  BY DEF Places
<1>. QED  BY <1>1, FS_EmptySet DEF Count

\* A message written to a stream is one more of its kind.
LEMMA CountAppend ==
  ASSUME NEW S, NEW s \in Seq(S), NEW e \in S, NEW T
  PROVE  Count(Append(s, e), T) = Count(s, T) + (IF e \in T THEN 1 ELSE 0)
<1>1. /\ Len(s) \in Nat /\ DOMAIN s = 1..Len(s)
      /\ DOMAIN Append(s, e) = 1..Len(s) + 1
      /\ \A i \in 1..Len(s) : Append(s, e)[i] = s[i]
      /\ Append(s, e)[Len(s) + 1] = e
  BY LenProperties
<1>2. IsFiniteSet(Places(s, T)) /\ Len(s) + 1 \notin Places(s, T)
  <2>1. Len(s) + 1 \notin Places(s, T)
    BY <1>1 DEF Places
  <2>. QED  BY <2>1, CountType
<1>3. Count(s, T) \in Nat
  BY CountType
<1>4. CASE e \in T
  <2>1. Places(Append(s, e), T) = Places(s, T) \cup {Len(s) + 1}
    BY <1>1, <1>4 DEF Places
  <2>2. Cardinality(Places(s, T) \cup {Len(s) + 1}) = Cardinality(Places(s, T)) + 1
    BY <1>2, FS_AddElement
  <2>. QED  BY <1>4, <2>1, <2>2 DEF Count
<1>5. CASE e \notin T
  <2>1. Places(Append(s, e), T) = Places(s, T)
    BY <1>1, <1>5 DEF Places
  <2>. QED  BY <1>3, <1>5, <2>1 DEF Count
<1>. QED  BY <1>4, <1>5

\* A message taken out of a stream is one less of its kind.
LEMMA CountRemoveAt ==
  ASSUME NEW S, NEW s \in Seq(S), NEW i \in DOMAIN s, NEW T
  PROVE  Count(RemoveAt(s, i), T) = Count(s, T) - (IF s[i] \in T THEN 1 ELSE 0)
<1>. DEFINE n == Len(s)
            t == RemoveAt(s, i)
            P == Places(t, T)
            Q == Places(s, T) \ {i}
            f == [j \in P |-> IF j < i THEN j ELSE j + 1]
<1>1. n \in Nat /\ DOMAIN s = 1..n /\ i \in 1..n
  BY LenProperties
<1>2. /\ t \in Seq(S) /\ DOMAIN t = 1..n - 1
      /\ \A j \in 1..n - 1 : t[j] = IF j < i THEN s[j] ELSE s[j + 1]
  <2>1. t \in Seq(S) /\ Len(t) = n - 1
    BY RemoveAtProperties
  <2>. QED  BY <2>1, RemoveAtProperties, LenProperties
<1>3. P = {j \in 1..n - 1 : (IF j < i THEN s[j] ELSE s[j + 1]) \in T}
  BY <1>2 DEF Places
<1>4. Q = {j \in 1..n : j # i /\ s[j] \in T}
  BY <1>1 DEF Places
<1>5. IsFiniteSet(P)
  BY <1>2, CountType
<1>. HIDE DEF n, t, P, Q
<1>6. f \in Bijection(P, Q)
  <2>1. \A j \in P : f[j] \in Q
    BY <1>1, <1>3, <1>4
  <2>2. \A j, k \in P : f[j] = f[k] => j = k
    BY <1>1, <1>3
  <2>3. ASSUME NEW k \in Q  PROVE \E j \in P : f[j] = k
    <3>1. CASE k < i
      <4>1. k \in P /\ f[k] = k
        BY <1>1, <1>3, <1>4, <3>1
      <4>. QED  BY <4>1
    <3>2. CASE ~(k < i)
      <4>1. k - 1 \in P /\ f[k - 1] = k
        BY <1>1, <1>3, <1>4, <3>2
      <4>. QED  BY <4>1
    <3>. QED  BY <3>1, <3>2
  <2>4. f \in [P -> Q]
    BY <2>1
  <2>. QED  BY <2>2, <2>3, <2>4 DEF Bijection, Injection, Surjection, IsInjective
<1>7. Cardinality(P) = Cardinality(Q)
  BY <1>5, <1>6, FS_Bijection DEF ExistsBijection
<1>8. IsFiniteSet(Places(s, T)) /\ Count(s, T) \in Nat
  BY CountType
<1>9. Cardinality(Q) = IF i \in Places(s, T) THEN Cardinality(Places(s, T)) - 1 ELSE Cardinality(Places(s, T))
  BY <1>8, FS_RemoveElement DEF Q
<1>10. Count(t, T) = IF s[i] \in T THEN Count(s, T) - 1 ELSE Count(s, T)
  BY <1>1, <1>7, <1>9 DEF Count, P, Places
<1>. QED  BY <1>8, <1>10 DEF t

\* The oldest message read off a stream is one less of its kind.
LEMMA CountTail ==
  ASSUME NEW S, NEW s \in Seq(S), s # << >>, NEW T
  PROVE  Count(Tail(s), T) = Count(s, T) - (IF Head(s) \in T THEN 1 ELSE 0)
<1>1. Len(s) \in Nat \ {0} /\ DOMAIN s = 1..Len(s)
  BY EmptySeq, LenProperties
<1>2. RemoveAt(s, 1) = Tail(s)
  <2>1. Tail(s) \in Seq(S) /\ Len(Tail(s)) = Len(s) - 1 /\ \A j \in 1..Len(Tail(s)) : Tail(s)[j] = s[j + 1]
    BY HeadTailProperties
  <2>2. 1 \in DOMAIN s
    BY <1>1
  <2>3. /\ RemoveAt(s, 1) \in Seq(S) /\ Len(RemoveAt(s, 1)) = Len(s) - 1
        /\ \A j \in 1..Len(s) - 1 : RemoveAt(s, 1)[j] = IF j < 1 THEN s[j] ELSE s[j + 1]
    BY <2>2, RemoveAtProperties
  <2>4. \A j \in 1..Len(RemoveAt(s, 1)) : RemoveAt(s, 1)[j] = Tail(s)[j]
    BY <1>1, <2>1, <2>3
  <2>. QED  BY <2>1, <2>3, <2>4, SeqEqual
<1>3. s[1] = Head(s) /\ 1 \in DOMAIN s
  BY <1>1
<1>4. Count(RemoveAt(s, 1), T) = Count(s, T) - (IF s[1] \in T THEN 1 ELSE 0)
  BY <1>3, CountRemoveAt
<1>. QED  BY <1>2, <1>3, <1>4

\* A stream without messages of a kind consists of others.
LEMMA CountZero ==
  ASSUME NEW S, NEW s \in Seq(S), NEW T, Count(s, T) = 0
  PROVE  s \in Seq(S \ T)
<1>1. Places(s, T) = {}
  BY CountType, FS_EmptySet DEF Count
<1>2. Len(s) \in Nat /\ s \in [1..Len(s) -> S]
  BY LenProperties
<1>3. s \in [1..Len(s) -> S \ T]
  BY <1>1, <1>2 DEF Places
<1>. QED  BY <1>2, <1>3, SeqDef

\* A stream of other messages has none of a kind.
LEMMA CountNone ==
  ASSUME NEW S, NEW s \in Seq(S), NEW T, S \cap T = {}
  PROVE  Count(s, T) = 0
<1>1. Places(s, T) = {}
  BY LenProperties DEF Places
<1>. QED  BY <1>1, FS_EmptySet DEF Count

(***************************************************************************)
(* The invariant, on top of ClientsInv.                                    *)
(***************************************************************************)

\* Where a thread waits for its answer.
Waiting == {"recv", "read", "wait"}

\* Call q is the one its caller waits for.
Present(q) ==
  q.caller \in ConcurrentCallers /\ pc[q.caller] \in Waiting /\ question[q.caller] = q

PresentRequest == {r \in Request : Present(r.args)}
PresentMessage == {msg \in Message : Present(msg.success)}

Asks(q) == {r \in Request : r.args = q}
Answers(q) == {msg \in Message : msg.success = q}

\* The messages of the present call of c, when the replies are rep and msg is the
\* one in hand or handed over.
Total(c, rep, msg) ==
  Count(requests[Shared], Asks(question[c])) + Count(rep, Answers(question[c]))
    + (IF msg \in Answers(question[c]) THEN 1 ELSE 0)

OwnQuestion == \A c \in Callers : question[c] \in Question => question[c].caller = c

\* The thread that reads holds the mutex, and finds nothing handed over.
Mutex ==
  /\ \A c \in ConcurrentCallers : pc[c] = "read" => readMutex = c
  /\ readMutex # Free => pending = NoMessage

SharedMessages ==
  transport[Shared] = "open" =>
    /\ requests[Shared] \in Seq(PresentRequest)
    /\ replies[Shared] \in Seq(PresentMessage)
    /\ pending \in PresentMessage \cup {NoMessage}
    /\ \A c \in ConcurrentCallers : pc[c] \in Waiting => Total(c, replies[Shared], pending) = 1

OwnMessage ==
  \A c \in SyncCallers :
    transport[c] = "open" /\ pc[c] = "recv" => requests[c] # << >> \/ replies[c] # << >>

MessagesInv == OwnQuestion /\ Mutex /\ SharedMessages /\ OwnMessage

\* Before the first call no message is anywhere, and nobody waits.
LEMMA InitMessagesInv == ClientsInit => MessagesInv
<1>. SUFFICES ASSUME ClientsInit  PROVE MessagesInv
  OBVIOUS
<1>. USE ClientsAssumption DEF ClientsInit
<1>1. OwnQuestion
  BY DEF OwnQuestion, Question, NoQuestion
<1>2. Mutex
  BY DEF Mutex, ConcurrentCallers
<1>3. SharedMessages
  BY DEF SharedMessages, ConcurrentCallers, Waiting
<1>4. OwnMessage
  BY DEF OwnMessage
<1>. QED  BY <1>1, <1>2, <1>3, <1>4 DEF MessagesInv

\* Each part on its own, as long as a step leaves alone what it is about.
LEMMA OwnQuestionStep ==
  ASSUME ClientsInv, OwnQuestion, [ClientsNext]_clientVars
  PROVE  OwnQuestion'
<1>1. ASSUME UNCHANGED question  PROVE OwnQuestion'
  BY <1>1 DEF OwnQuestion
<1>2. ASSUME NEW c \in Callers, NEW m \in Methods, Call(c, m)  PROVE OwnQuestion'
  BY <1>2 DEF OwnQuestion, Call, ClientsInv, ClientsTypeOK
<1>3. CASE \E c \in SyncCallers :
             \/ OpenTransport(c) \/ CloseTransport(c) \/ SyncStep(c)
             \/ \E m \in Methods : SyncCall(c, m)
  BY <1>1, <1>2, <1>3, ClientsAssumption
     DEF OpenTransport, CloseTransport, SyncStep, SyncSend, SyncRecv, SyncCall, Goto, End, callVars
<1>4. CASE \E c \in ConcurrentCallers :
             \/ ConcurrentStep(c)
             \/ \E m \in Methods : ConcurrentCall(c, m)
  BY <1>1, <1>2, <1>4
     DEF ConcurrentCallers, ConcurrentStep, GenerateSeqId, Send, GetPending, ReadMessage, Handle,
         ConcurrentCall, Goto, End
<1>5. CASE \E k \in Connections :
             \/ ServerStep(k)
             \/ Break(k) /\ UNCHANGED <<callVars, syncVars>>
  BY <1>1, <1>5 DEF ServerStep, callVars
<1>6. CASE UNCHANGED clientVars
  BY <1>1, <1>6 DEF clientVars, callVars
<1>. QED  BY <1>3, <1>4, <1>5, <1>6 DEF ClientsNext

\* Every step keeps Mutex: a thread reads under the read mutex, and only when nothing
\* is handed over.
LEMMA MutexStep ==
  ASSUME ClientsInv, Mutex, [ClientsNext]_clientVars
  PROVE  Mutex'
<1>. USE ClientsAssumption
<1>1. ASSUME UNCHANGED <<readMutex, pending>>,
             \A c \in ConcurrentCallers : pc'[c] = "read" => pc[c] = "read"
      PROVE  Mutex'
  BY <1>1 DEF Mutex
<1>2. ASSUME NEW c \in SyncCallers,
             \/ OpenTransport(c) \/ CloseTransport(c) \/ SyncStep(c)
             \/ \E m \in Methods : SyncCall(c, m)
      PROVE  Mutex'
  <2>1. c \notin ConcurrentCallers /\ UNCHANGED <<readMutex, pending>>
    BY <1>2 DEF ConcurrentCallers, OpenTransport, CloseTransport, SyncStep, SyncSend, SyncRecv,
                SyncCall, Call, syncVars
  <2>2. pc' = pc \/ \E next : pc' = [pc EXCEPT ![c] = next]
    BY <1>2 DEF OpenTransport, CloseTransport, SyncStep, SyncSend, SyncRecv, SyncCall, Goto, End, callVars
  <2>. QED  BY <1>1, <2>1, <2>2 DEF ClientsInv, ClientsTypeOK, ConcurrentCallers
<1>3. ASSUME NEW c \in ConcurrentCallers,
             GenerateSeqId(c) \/ Send(c) \/ \E m \in Methods : ConcurrentCall(c, m)
      PROVE  Mutex'
  <2>1. UNCHANGED <<readMutex, pending>>
    BY <1>3 DEF GenerateSeqId, Send, ConcurrentCall, Call, syncVars
  <2>2. \E next \in {"seqid", "send", "recv", "thrown"} : pc' = [pc EXCEPT ![c] = next]
    BY <1>3 DEF GenerateSeqId, Send, ConcurrentCall, Goto
  <2>. QED  BY <1>1, <2>1, <2>2 DEF ClientsInv, ClientsTypeOK, ConcurrentCallers
<1>4. ASSUME NEW c \in ConcurrentCallers, NEW msg, Handle(c, msg), readMutex \in {Free, c}
      PROVE  Mutex'
  <2>1. readMutex' = Free /\ \E next \in {"returned", "thrown", "wait"} : pc' = [pc EXCEPT ![c] = next]
    BY <1>4 DEF Handle, End, Goto
  <2>2. \A d \in ConcurrentCallers : pc'[d] # "read"
    BY <1>4, <2>1 DEF Mutex, ClientsInv, ClientsTypeOK, ConcurrentCallers
  <2>. QED  BY <2>1, <2>2 DEF Mutex
<1>5. ASSUME NEW c \in ConcurrentCallers, GetPending(c)
      PROVE  Mutex'
  <2>1. readMutex = Free
    BY <1>5 DEF GetPending
  <2>2. CASE ~stop /\ pending # NoMessage /\ Handle(c, pending)
    BY <1>4, <2>1, <2>2
  <2>3. CASE stop /\ Goto(c, "thrown") /\ MarkBad /\ UNCHANGED <<pending, readMutex>>
    BY <1>1, <2>3 DEF Goto, ClientsInv, ClientsTypeOK, ConcurrentCallers
  <2>4. CASE /\ ~stop /\ pending = NoMessage
             /\ readMutex' = c /\ Goto(c, "read")
             /\ wakeup' = FALSE /\ UNCHANGED <<pending, stop>>
    BY <2>1, <2>4 DEF Mutex, Goto, ClientsInv, ClientsTypeOK, ConcurrentCallers
  <2>. QED  BY <1>5, <2>2, <2>3, <2>4 DEF GetPending
<1>6. ASSUME NEW c \in ConcurrentCallers, ReadMessage(c)
      PROVE  Mutex'
  <2>1. pc[c] = "read" /\ readMutex = c
    BY <1>6 DEF ReadMessage, Mutex
  <2>2. CASE Handle(c, Head(replies[Shared]))
    BY <1>4, <2>1, <2>2
  <2>3. CASE Goto(c, "thrown") /\ readMutex' = Free
    BY <2>1, <2>3 DEF Mutex, Goto, ClientsInv, ClientsTypeOK, ConcurrentCallers
  <2>. QED  BY <1>6, <2>2, <2>3 DEF ReadMessage
<1>7. CASE \E k \in Connections :
             \/ ServerStep(k)
             \/ Break(k) /\ UNCHANGED <<callVars, syncVars>>
  BY <1>1, <1>7 DEF ServerStep, callVars, syncVars
<1>8. CASE UNCHANGED clientVars
  BY <1>1, <1>8 DEF clientVars, callVars, syncVars
<1>9. CASE \E c \in SyncCallers :
             \/ OpenTransport(c) \/ CloseTransport(c) \/ SyncStep(c)
             \/ \E m \in Methods : SyncCall(c, m)
  BY <1>2, <1>9
<1>10. CASE \E c \in ConcurrentCallers :
              \/ ConcurrentStep(c)
              \/ \E m \in Methods : ConcurrentCall(c, m)
  BY <1>3, <1>5, <1>6, <1>10 DEF ConcurrentStep
<1>. QED  BY <1>7, <1>8, <1>9, <1>10 DEF ClientsNext

\* A stream that was written to is not empty.
LEMMA AppendNotEmpty ==
  ASSUME NEW S, NEW s \in Seq(S), NEW e \in S
  PROVE  Append(s, e) # << >>
<1>1. Len(Append(s, e)) = Len(s) + 1 /\ Len(s) \in Nat /\ Len(<< >>) = 0
  BY LenProperties
<1>. QED  BY <1>1

\* Every step keeps OwnMessage: a run that waits for its server has a message on its
\* way, as long as its connection holds.
LEMMA OwnMessageStep ==
  ASSUME ClientsInv, OwnMessage, [ClientsNext]_clientVars
  PROVE  OwnMessage'
<1>. USE ClientsAssumption DEF ClientsInv, ClientsTypeOK, ConnectionTypeOK
<1>1. ASSUME UNCHANGED connectionVars, \A c \in SyncCallers : pc'[c] = "recv" => pc[c] = "recv"
      PROVE  OwnMessage'
  BY <1>1 DEF OwnMessage, connectionVars
<1>2. ASSUME NEW c \in SyncCallers,
             \/ OpenTransport(c) \/ CloseTransport(c) \/ SyncStep(c)
             \/ \E m \in Methods : SyncCall(c, m)
      PROVE  OwnMessage'
  <2>1. \A d \in SyncCallers \ {c} :
          /\ transport'[d] = transport[d] /\ pc'[d] = pc[d]
          /\ requests'[d] = requests[d] /\ replies'[d] = replies[d]
    <3>1. CASE OpenTransport(c) \/ CloseTransport(c)
      BY <3>1 DEF OpenTransport, CloseTransport, Open, Close, callVars
    <3>2. CASE SyncSend(c)
      BY <3>2 DEF SyncSend, Write, Close, Goto
    <3>3. CASE SyncRecv(c)
      BY <3>3 DEF SyncRecv, Read, Close, Goto, End
    <3>4. CASE \E m \in Methods : SyncCall(c, m)
      BY <3>4 DEF SyncCall, Call, connectionVars
    <3>. QED  BY <1>2, <3>1, <3>2, <3>3, <3>4 DEF SyncStep
  <2>2. transport'[c] = "open" /\ pc'[c] = "recv" => requests'[c] # << >> \/ replies'[c] # << >>
    <3>1. CASE OpenTransport(c) \/ CloseTransport(c)
      BY <3>1 DEF OpenTransport, CloseTransport, callVars, AtRest
    <3>2. CASE SyncSend(c)
      <4>1. CASE Write(c, CallOf(c)) /\ Goto(c, "recv")
        <5>1. requests'[c] = Append(requests[c], CallOf(c)) /\ requests[c] \in Seq(Request)
          BY <4>1 DEF Write
        <5>2. CallOf(c) \in Request
          BY <3>2, CallOfRequest DEF SyncSend, AtRest
        <5>3. Append(requests[c], CallOf(c)) # << >>
          BY <5>1, <5>2, AppendNotEmpty
        <5>. QED  BY <5>1, <5>3
      <4>2. CASE transport[c] = "broken" /\ Close(c) /\ Goto(c, "thrown")
        BY <4>2 DEF Close
      <4>. QED  BY <3>2, <4>1, <4>2 DEF SyncSend
    <3>3. CASE SyncRecv(c)
      BY <3>3, SyncRecvStep
    <3>4. CASE \E m \in Methods : SyncCall(c, m)
      BY <3>4 DEF SyncCall
    <3>. QED  BY <1>2, <3>1, <3>2, <3>3, <3>4 DEF SyncStep
  <2>. QED  BY <2>1, <2>2 DEF OwnMessage
<1>3. ASSUME NEW c \in ConcurrentCallers,
             ConcurrentStep(c) \/ \E m \in Methods : ConcurrentCall(c, m)
      PROVE  OwnMessage'
  <2>1. \A d \in SyncCallers :
          transport'[d] = transport[d] /\ requests'[d] = requests[d] /\ replies'[d] = replies[d]
    BY <1>3 DEF ConcurrentStep, GenerateSeqId, Send, GetPending, ReadMessage, ConcurrentCall, Call,
                Write, Read, connectionVars
  <2>2. \E next : pc' = [pc EXCEPT ![c] = next]
    BY <1>3 DEF ConcurrentStep, GenerateSeqId, Send, GetPending, ReadMessage, Handle, ConcurrentCall,
                Goto, End
  <2>3. \A d \in SyncCallers : pc'[d] = pc[d]
    BY <2>2 DEF ConcurrentCallers
  <2>. QED  BY <2>1, <2>3 DEF OwnMessage
<1>4. ASSUME NEW k \in Connections, ServerStep(k)
      PROVE  OwnMessage'
  <2>1. UNCHANGED <<transport, pc>>
    BY <1>4 DEF ServerStep, DispatchCall, callVars
  <2>2. PICK i \in DOMAIN requests[k] : \E reply \in Results(requests[k][i]) :
          /\ requests' = [requests EXCEPT ![k] = RemoveAt(@, i)]
          /\ replies' = [replies EXCEPT ![k] = Append(@, reply)]
    BY <1>4 DEF ServerStep, DispatchCall
  <2>3. PICK reply \in Results(requests[k][i]) :
          /\ requests' = [requests EXCEPT ![k] = RemoveAt(@, i)]
          /\ replies' = [replies EXCEPT ![k] = Append(@, reply)]
    BY <2>2
  <2>4. reply \in Message
    BY ElementOfSeq, LenProperties, ResultsProperties
  <2>5. Append(replies[k], reply) # << >>
    BY <2>4, AppendNotEmpty
  <2>6. replies'[k] # << >>
    BY <2>3, <2>5
  <2>7. \A d \in SyncCallers \ {k} : requests'[d] = requests[d] /\ replies'[d] = replies[d]
    BY <2>3
  <2>. QED  BY <2>1, <2>6, <2>7 DEF OwnMessage
<1>5. ASSUME NEW k \in Connections, Break(k), UNCHANGED <<callVars, syncVars>>
      PROVE  OwnMessage'
  BY <1>5 DEF OwnMessage, Break, callVars
<1>6. CASE UNCHANGED clientVars
  BY <1>1, <1>6 DEF clientVars, callVars
<1>7. CASE \E c \in SyncCallers :
             \/ OpenTransport(c) \/ CloseTransport(c) \/ SyncStep(c)
             \/ \E m \in Methods : SyncCall(c, m)
  BY <1>2, <1>7
<1>8. CASE \E c \in ConcurrentCallers :
             \/ ConcurrentStep(c)
             \/ \E m \in Methods : ConcurrentCall(c, m)
  BY <1>3, <1>8
<1>9. CASE \E k \in Connections :
             \/ ServerStep(k)
             \/ Break(k) /\ UNCHANGED <<callVars, syncVars>>
  BY <1>4, <1>5, <1>9
<1>. QED  BY <1>6, <1>7, <1>8, <1>9 DEF ClientsNext

(***************************************************************************)
(* The messages of the shared connection.                                  *)
(***************************************************************************)

\* Calls that go on are the present ones still.
LEMMA PresentStays ==
  ASSUME \A c \in ConcurrentCallers :
           pc[c] \in Waiting => pc'[c] \in Waiting /\ question'[c] = question[c]
  PROVE  PresentRequest \subseteq PresentRequest' /\ PresentMessage \subseteq PresentMessage'
BY DEF PresentRequest, PresentMessage, Present

\* A step that leaves the shared stream alone, and ends and begins no wait.
LEMMA SharedMessagesUntouched ==
  ASSUME SharedMessages,
         UNCHANGED <<transport[Shared], requests[Shared], replies[Shared], pending>>,
         \A c \in ConcurrentCallers :
           /\ pc[c] \in Waiting <=> pc'[c] \in Waiting
           /\ pc[c] \in Waiting => question'[c] = question[c]
  PROVE  SharedMessages'
<1>. SUFFICES ASSUME transport'[Shared] = "open"
              PROVE  /\ requests'[Shared] \in Seq(PresentRequest')
                     /\ replies'[Shared] \in Seq(PresentMessage')
                     /\ pending' \in PresentMessage' \cup {NoMessage}
                     /\ \A c \in ConcurrentCallers :
                          pc'[c] \in Waiting => Total(c, replies[Shared], pending)' = 1
  BY DEF SharedMessages
<1>1. /\ requests[Shared] \in Seq(PresentRequest) /\ replies[Shared] \in Seq(PresentMessage)
      /\ pending \in PresentMessage \cup {NoMessage}
      /\ \A c \in ConcurrentCallers : pc[c] \in Waiting => Total(c, replies[Shared], pending) = 1
  BY DEF SharedMessages
<1>2. PresentRequest \subseteq PresentRequest' /\ PresentMessage \subseteq PresentMessage'
  BY PresentStays
<1>3. /\ requests'[Shared] \in Seq(PresentRequest') /\ replies'[Shared] \in Seq(PresentMessage')
      /\ pending' \in PresentMessage' \cup {NoMessage}
  BY <1>1, <1>2, SeqMonotonic
<1>4. ASSUME NEW c \in ConcurrentCallers, pc'[c] \in Waiting
      PROVE  Total(c, replies[Shared], pending)' = 1
  <2>1. question'[c] = question[c] /\ Total(c, replies[Shared], pending) = 1
    BY <1>1, <1>4
  <2>. QED  BY <2>1 DEF Total, Asks, Answers, Count, Places
<1>. QED  BY <1>3, <1>4

\* The requests and replies of two callers are different.
LEMMA CallersDiffer ==
  ASSUME ClientsInv, OwnQuestion, NEW c \in Callers, NEW d \in Callers, c # d,
         pc[c] \notin AtRest, pc[d] \notin AtRest
  PROVE  question[c] # question[d]
BY DEF ClientsInv, Asked, QuestionOf, OwnQuestion

\* A server's answer takes the place of the request.
LEMMA ServerStepMessages ==
  ASSUME ClientsInv, MessagesInv, NEW k \in Connections, ServerStep(k)
  PROVE  SharedMessages'
<1>. USE DEF ClientsInv, ClientsTypeOK, ConnectionTypeOK
<1>1. UNCHANGED <<transport, pending, pc, question>>
  BY DEF ServerStep, DispatchCall, callVars, syncVars
<1>2. PICK i \in DOMAIN requests[k] : \E reply \in Results(requests[k][i]) :
        /\ requests' = [requests EXCEPT ![k] = RemoveAt(@, i)]
        /\ replies' = [replies EXCEPT ![k] = Append(@, reply)]
  BY DEF ServerStep, DispatchCall
<1>3. PICK reply \in Results(requests[k][i]) :
        /\ requests' = [requests EXCEPT ![k] = RemoveAt(@, i)]
        /\ replies' = [replies EXCEPT ![k] = Append(@, reply)]
  BY <1>2
<1>4. CASE k # Shared
  BY <1>1, <1>3, <1>4, ClientsAssumption, SharedMessagesUntouched DEF MessagesInv
<1>5. CASE k = Shared
  <2>. SUFFICES ASSUME transport[Shared] = "open"
                PROVE  /\ requests'[Shared] \in Seq(PresentRequest)
                       /\ replies'[Shared] \in Seq(PresentMessage)
                       /\ \A c \in ConcurrentCallers :
                            pc[c] \in Waiting => Total(c, replies[Shared], pending)' = 1
    BY <1>1 DEF MessagesInv, SharedMessages, PresentRequest, PresentMessage, Present
  <2>. DEFINE r == requests[k][i]
  <2>1. /\ requests[k] \in Seq(PresentRequest) /\ replies[k] \in Seq(PresentMessage)
        /\ \A c \in ConcurrentCallers : pc[c] \in Waiting => Total(c, replies[Shared], pending) = 1
    BY <1>5 DEF MessagesInv, SharedMessages
  <2>2. r \in PresentRequest /\ r \in Request
    BY <2>1, ElementOfSeq, LenProperties DEF PresentRequest
  <2>3. reply \in Message /\ reply.success = r.args /\ reply \in PresentMessage
    BY <2>2, ResultsProperties DEF PresentRequest, PresentMessage
  <2>4. requests'[k] = RemoveAt(requests[k], i) /\ replies'[k] = Append(replies[k], reply)
    BY <1>3
  <2>5. requests'[Shared] \in Seq(PresentRequest) /\ replies'[Shared] \in Seq(PresentMessage)
    BY <1>5, <2>1, <2>3, <2>4, RemoveAtProperties
  <2>6. ASSUME NEW c \in ConcurrentCallers, pc[c] \in Waiting
        PROVE  Total(c, replies[Shared], pending)' = 1
    <3>. DEFINE q == question[c]
    <3>. HIDE DEF r, q
    <3>1. r \in Asks(q) <=> reply \in Answers(q)
      BY <2>2, <2>3 DEF Asks, Answers
    <3>2. Count(requests'[k], Asks(q)) = Count(requests[k], Asks(q)) - (IF r \in Asks(q) THEN 1 ELSE 0)
      BY <2>1, <2>4, CountRemoveAt DEF r
    <3>3. Count(replies'[k], Answers(q)) = Count(replies[k], Answers(q)) + (IF reply \in Answers(q) THEN 1 ELSE 0)
      BY <2>1, <2>3, <2>4, CountAppend
    <3>4. Count(requests[k], Asks(q)) \in Nat /\ Count(replies[k], Answers(q)) \in Nat
      BY <2>1, CountType
    <3>5. Total(c, replies[Shared], pending) = 1
      BY <2>1, <2>6
    <3>6. Total(c, replies[Shared], pending)' =
            Count(requests'[Shared], Asks(q)) + Count(replies'[Shared], Answers(q))
              + (IF pending \in Answers(q) THEN 1 ELSE 0)
      BY <1>1 DEF Total, Asks, Answers, Count, Places, q
    <3>. QED  BY <1>5, <3>1, <3>2, <3>3, <3>4, <3>5, <3>6 DEF Total, q
  <2>. QED  BY <2>5, <2>6
<1>. QED  BY <1>4, <1>5

\* A request that is written is the first message of its call.
LEMMA SendMessages ==
  ASSUME ClientsInv, MessagesInv, NEW c \in ConcurrentCallers, Send(c)
  PROVE  SharedMessages'
<1>. USE ClientsAssumption DEF ClientsInv, ClientsTypeOK, ConnectionTypeOK
<1>1. c \in Callers /\ pc[c] = "send" /\ pc[c] \notin AtRest /\ pc[c] \notin Waiting
  BY DEF Send, AtRest, Waiting, ConcurrentCallers
<1>2. CASE transport[Shared] = "broken" /\ UNCHANGED connectionVars
  BY <1>2 DEF SharedMessages, connectionVars
<1>3. CASE Write(Shared, CallOf(c)) /\ Goto(c, "recv")
  <2>. DEFINE r == CallOf(c)
  <2>1. /\ transport' = transport /\ transport[Shared] = "open" /\ replies' = replies
        /\ requests'[Shared] = Append(requests[Shared], r)
        /\ pc' = [pc EXCEPT ![c] = "recv"] /\ question' = question
        /\ pending' = pending
    BY <1>3 DEF Write, Goto, Send
  <2>2. r \in Request /\ r.args = question[c] /\ question[c] \in Question /\ question[c].caller = c
    BY <1>1, CallOfRequest DEF Asked, QuestionOf, MessagesInv, OwnQuestion
  <2>3. /\ requests[Shared] \in Seq(PresentRequest) /\ replies[Shared] \in Seq(PresentMessage)
        /\ pending \in PresentMessage \cup {NoMessage}
        /\ \A d \in ConcurrentCallers : pc[d] \in Waiting => Total(d, replies[Shared], pending) = 1
    BY <2>1 DEF MessagesInv, SharedMessages
  <2>4. PresentRequest \subseteq PresentRequest' /\ PresentMessage \subseteq PresentMessage'
    <3>1. \A d \in ConcurrentCallers : pc[d] \in Waiting => pc'[d] \in Waiting /\ question'[d] = question[d]
      BY <1>1, <2>1 DEF ConcurrentCallers
    <3>. QED  BY <3>1, PresentStays
  <2>5. r \in PresentRequest'
    BY <1>1, <2>1, <2>2 DEF PresentRequest, Present, Waiting
  <2>. HIDE DEF r
  <2>6. /\ requests'[Shared] \in Seq(PresentRequest') /\ replies'[Shared] \in Seq(PresentMessage')
        /\ pending' \in PresentMessage' \cup {NoMessage}
    <3>1. requests[Shared] \in Seq(PresentRequest') /\ replies[Shared] \in Seq(PresentMessage')
      BY <2>3, <2>4, SeqMonotonic
    <3>. QED  BY <2>1, <2>3, <2>4, <2>5, <3>1
  <2>7. ASSUME NEW d \in ConcurrentCallers, pc'[d] \in Waiting
        PROVE  Total(d, replies[Shared], pending)' = 1
    <3>. DEFINE q == question[d]
    <3>1. Total(d, replies[Shared], pending)' =
            Count(requests'[Shared], Asks(q)) + Count(replies[Shared], Answers(q))
              + (IF pending \in Answers(q) THEN 1 ELSE 0)
      BY <2>1 DEF Total, Asks, Answers, Count, Places
    <3>2. Total(d, replies[Shared], pending) =
            Count(requests[Shared], Asks(q)) + Count(replies[Shared], Answers(q))
              + (IF pending \in Answers(q) THEN 1 ELSE 0)
      BY DEF Total
    <3>3. Count(requests[Shared], Asks(q)) \in Nat /\ Count(replies[Shared], Answers(q)) \in Nat
      BY <2>3, CountType
    <3>4. Count(requests'[Shared], Asks(q)) =
            Count(requests[Shared], Asks(q)) + (IF r \in Asks(q) THEN 1 ELSE 0)
      <4>1. requests[Shared] \in Seq(Request)
        OBVIOUS
      <4>. QED  BY <2>1, <2>2, <4>1, CountAppend
    <3>5. CASE d # c
      <4>1. d \in Callers /\ pc[d] \in Waiting /\ pc[d] \notin AtRest
        BY <2>1, <2>7, <3>5 DEF ConcurrentCallers, Waiting, AtRest
      <4>2. r \notin Asks(q)
        BY <1>1, <2>2, <3>5, <4>1, CallersDiffer DEF Asks, MessagesInv
      <4>3. Total(d, replies[Shared], pending) = 1
        BY <2>3, <4>1
      <4>. HIDE DEF q
      <4>. QED  BY <3>1, <3>2, <3>3, <3>4, <4>2, <4>3
    <3>6. CASE d = c
      <4>1. PresentRequest \cap Asks(q) = {} /\ PresentMessage \cap Answers(q) = {}
        BY <1>1, <2>2, <3>6 DEF PresentRequest, PresentMessage, Present, Asks, Answers
      <4>2. Count(requests[Shared], Asks(q)) = 0 /\ Count(replies[Shared], Answers(q)) = 0
        BY <2>3, <4>1, CountNone
      <4>3. pending \notin Answers(q)
        BY <2>3, <4>1 DEF Answers, NoMessage, Message
      <4>4. r \in Asks(q)
        BY <2>2, <3>6 DEF Asks
      <4>. HIDE DEF q
      <4>. QED  BY <3>1, <3>4, <4>2, <4>3, <4>4
    <3>. QED  BY <3>5, <3>6
  <2>. QED  BY <2>6, <2>7 DEF SharedMessages
<1>. QED  BY <1>2, <1>3 DEF Send

\* A message in hand is handed over, or ends the one call it belongs to.
LEMMA HandleMessages ==
  ASSUME ClientsInv, MessagesInv, NEW c \in ConcurrentCallers, pc[c] \in Waiting,
         NEW msg \in GoodMessage, msg \in PresentMessage, Handle(c, msg),
         UNCHANGED <<transport, requests>>,
         requests[Shared] \in Seq(PresentRequest), replies'[Shared] \in Seq(PresentMessage),
         \A d \in ConcurrentCallers : pc[d] \in Waiting => Total(d, replies'[Shared], msg) = 1
  PROVE  SharedMessages'
<1>. DEFINE rep == replies'[Shared]
            q(d) == question[d]
<1>. HIDE DEF rep
<1>1. /\ question' = question /\ \A d \in Callers \ {c} : pc'[d] = pc[d]
      /\ pc[c] \in Calling /\ c \in Callers /\ pc[c] \notin AtRest
  <2>1. pc[c] \in Calling /\ c \in Callers /\ pc[c] \notin AtRest
    BY DEF Calling, Waiting, AtRest, ConcurrentCallers
  <2>2. /\ question' = question
        /\ \E next \in {"returned", "thrown", "wait"} : pc' = [pc EXCEPT ![c] = next]
    BY <2>1, HandleProperties
  <2>. QED  BY <2>1, <2>2 DEF ClientsInv, ClientsTypeOK
<1>2. rep \in Seq(PresentMessage) /\ \A d \in ConcurrentCallers : pc[d] \in Waiting => Total(d, rep, msg) = 1
  BY DEF rep
<1>3. ASSUME NEW d \in ConcurrentCallers
      PROVE  Total(d, replies[Shared], pending)' =
               Count(requests[Shared], Asks(q(d))) + Count(rep, Answers(q(d)))
                 + (IF pending' \in Answers(q(d)) THEN 1 ELSE 0)
  BY <1>1 DEF Total, Asks, Answers, Count, Places, rep
<1>4. CASE msg.seqid # seqid[c]
  <2>1. pc' = [pc EXCEPT ![c] = "wait"] /\ pending' = msg
    BY <1>4 DEF Handle, Goto
  <2>2. \A d \in ConcurrentCallers : pc[d] \in Waiting <=> pc'[d] \in Waiting
    BY <1>1, <2>1 DEF Waiting, ConcurrentCallers, ClientsInv, ClientsTypeOK
  <2>3. PresentRequest \subseteq PresentRequest' /\ PresentMessage \subseteq PresentMessage'
    BY <1>1, <2>2, PresentStays
  <2>4. /\ requests'[Shared] \in Seq(PresentRequest') /\ replies'[Shared] \in Seq(PresentMessage')
        /\ pending' \in PresentMessage'
    BY <2>1, <2>3, SeqMonotonic
  <2>5. \A d \in ConcurrentCallers : pc'[d] \in Waiting => Total(d, replies[Shared], pending)' = 1
    BY <1>2, <1>3, <2>1, <2>2 DEF Total
  <2>. QED  BY <2>4, <2>5 DEF SharedMessages
<1>5. CASE msg.seqid = seqid[c]
  <2>1. /\ pending' = NoMessage /\ msg.success = q(c)
        /\ \E next \in AtRest : pc' = [pc EXCEPT ![c] = next]
    BY <1>1, <1>5 DEF Handle, End, AtRest, GoodMessage, BelongsTo
  <2>2. pc'[c] \notin Waiting
    BY <1>1, <2>1 DEF Waiting, AtRest, ClientsInv, ClientsTypeOK
  <2>3. Count(requests[Shared], Asks(q(c))) = 0 /\ Count(rep, Answers(q(c))) = 0
    <3>. DEFINE a == Count(requests[Shared], Asks(q(c)))
                b == Count(rep, Answers(q(c)))
    <3>1. a \in Nat /\ b \in Nat
      BY <1>2, CountType
    <3>2. msg \in Answers(q(c))
      BY <2>1 DEF Answers, GoodMessage
    <3>3. a + b + 1 = 1
      BY <1>2, <3>2 DEF Total
    <3>. HIDE DEF a, b
    <3>4. a = 0 /\ b = 0
      BY <3>1, <3>3
    <3>. QED  BY <3>4 DEF a, b
  <2>4. /\ PresentRequest \ Asks(q(c)) \subseteq PresentRequest'
        /\ PresentMessage \ Answers(q(c)) \subseteq PresentMessage'
    BY <1>1 DEF PresentRequest, PresentMessage, Present, Asks, Answers, ConcurrentCallers
  <2>5. /\ requests[Shared] \in Seq(PresentRequest \ Asks(q(c)))
        /\ rep \in Seq(PresentMessage \ Answers(q(c)))
    BY <1>2, <2>3, CountZero
  <2>6. requests'[Shared] \in Seq(PresentRequest') /\ replies'[Shared] \in Seq(PresentMessage')
    BY <2>4, <2>5, SeqMonotonic DEF rep
  <2>7. ASSUME NEW d \in ConcurrentCallers, pc'[d] \in Waiting
        PROVE  Total(d, replies[Shared], pending)' = 1
    <3>1. d # c /\ d \in Callers /\ pc[d] \in Waiting /\ pc[d] \notin AtRest
      BY <1>1, <2>2, <2>7 DEF ConcurrentCallers, Waiting, AtRest
    <3>2. msg \notin Answers(q(d)) /\ pending' \notin Answers(q(d))
      <4>1. q(c) # q(d)
        BY <1>1, <3>1, CallersDiffer DEF MessagesInv
      <4>. QED  BY <2>1, <4>1 DEF Answers, Message, NoMessage
    <3>3. Total(d, rep, msg) = 1
      BY <1>2, <3>1
    <3>. QED  BY <1>3, <3>2, <3>3 DEF Total
  <2>. QED  BY <2>1, <2>6, <2>7 DEF SharedMessages
<1>. QED  BY <1>4, <1>5

\* The thread takes what was handed over, or goes to read the stream.
LEMMA GetPendingMessages ==
  ASSUME ClientsInv, MessagesInv, NEW c \in ConcurrentCallers, GetPending(c)
  PROVE  SharedMessages'
<1>1. UNCHANGED <<transport, requests, replies>> /\ pc[c] \in Waiting /\ c \in Callers
  BY DEF GetPending, Woken, connectionVars, Waiting, ConcurrentCallers
<1>2. CASE transport[Shared] # "open"
  BY <1>1, <1>2 DEF SharedMessages
<1>3. CASE transport[Shared] = "open" /\ ~stop /\ pending # NoMessage /\ Handle(c, pending)
  <2>1. pending \in GoodMessage /\ pending \in PresentMessage
    BY <1>3 DEF ClientsInv, SharedStream, MessagesInv, SharedMessages
  <2>2. /\ requests[Shared] \in Seq(PresentRequest) /\ replies'[Shared] \in Seq(PresentMessage)
        /\ \A d \in ConcurrentCallers : pc[d] \in Waiting => Total(d, replies'[Shared], pending) = 1
    BY <1>1, <1>3 DEF MessagesInv, SharedMessages
  <2>. QED  BY <1>1, <1>3, <2>1, <2>2, HandleMessages
<1>4. CASE transport[Shared] = "open" /\ stop
  BY <1>4 DEF ClientsInv, GivenUp, GivenUpIfBroken
<1>5. CASE Goto(c, "read") /\ UNCHANGED pending
  <2>1. \A d \in ConcurrentCallers :
          (pc[d] \in Waiting <=> pc'[d] \in Waiting) /\ question'[d] = question[d]
    BY <1>1, <1>5 DEF Goto, Waiting, ClientsInv, ClientsTypeOK, ConcurrentCallers
  <2>. QED  BY <1>1, <1>5, <2>1, SharedMessagesUntouched DEF MessagesInv
<1>. QED  BY <1>2, <1>3, <1>4, <1>5 DEF GetPending

\* The thread reads the oldest reply, whoever it is for.
LEMMA ReadMessageMessages ==
  ASSUME ClientsInv, MessagesInv, NEW c \in ConcurrentCallers, ReadMessage(c)
  PROVE  SharedMessages'
<1>. USE ClientsAssumption DEF ClientsInv, ClientsTypeOK, ConnectionTypeOK
<1>1. pc[c] = "read" /\ pc[c] \in Waiting /\ c \in Callers /\ transport' = transport
  BY DEF ReadMessage, Read, connectionVars, Waiting, ConcurrentCallers
<1>2. CASE transport[Shared] # "open"
  BY <1>1, <1>2 DEF SharedMessages
<1>3. CASE transport[Shared] = "open" /\ Read(Shared) /\ Handle(c, Head(replies[Shared]))
  <2>. DEFINE msg == Head(replies[Shared])
  <2>1. /\ requests[Shared] \in Seq(PresentRequest) /\ replies[Shared] \in Seq(PresentMessage)
        /\ \A d \in ConcurrentCallers : pc[d] \in Waiting => Total(d, replies[Shared], pending) = 1
    BY <1>3 DEF MessagesInv, SharedMessages
  <2>2. /\ replies[Shared] # << >> /\ UNCHANGED <<transport, requests>>
        /\ replies'[Shared] = Tail(replies[Shared])
    BY <1>3 DEF Read
  <2>3. pending = NoMessage
    BY <1>1 DEF MessagesInv, Mutex
  <2>4. msg \in GoodMessage
    BY <2>2, HeadTailProperties DEF SharedStream
  <2>5. msg \in PresentMessage /\ msg \in Message /\ replies'[Shared] \in Seq(PresentMessage)
    BY <2>1, <2>2, HeadTailProperties DEF PresentMessage
  <2>6. ASSUME NEW d \in ConcurrentCallers, pc[d] \in Waiting
        PROVE  Total(d, replies'[Shared], msg) = 1
    <3>. DEFINE q == question[d]
    <3>. HIDE DEF msg, q
    <3>1. Count(Tail(replies[Shared]), Answers(q)) =
            Count(replies[Shared], Answers(q)) - (IF msg \in Answers(q) THEN 1 ELSE 0)
      BY <2>1, <2>2, CountTail DEF msg
    <3>2. Total(d, replies[Shared], pending) = 1 /\ pending \notin Answers(q)
      BY <2>1, <2>3, <2>6 DEF Answers, Message, NoMessage
    <3>3. Count(requests[Shared], Asks(q)) \in Nat /\ Count(replies[Shared], Answers(q)) \in Nat
      BY <2>1, CountType
    <3>. QED  BY <2>2, <3>1, <3>2, <3>3 DEF Total, q
  <2>. QED  BY <1>1, <1>3, <2>1, <2>2, <2>4, <2>5, <2>6, HandleMessages
<1>4. CASE EndOfStream(Shared)
  BY <1>1, <1>4 DEF EndOfStream, SharedMessages
<1>. QED  BY <1>2, <1>3, <1>4 DEF ReadMessage

\* Every step keeps SharedMessages: each thread that waits has one message in all.
LEMMA SharedMessagesStep ==
  ASSUME ClientsInv, MessagesInv, [ClientsNext]_clientVars
  PROVE  SharedMessages'
<1>. USE ClientsAssumption
<1>1. ASSUME UNCHANGED <<connectionVars, pending>>,
             \A c \in ConcurrentCallers :
               /\ pc[c] \in Waiting <=> pc'[c] \in Waiting
               /\ pc[c] \in Waiting => question'[c] = question[c]
      PROVE  SharedMessages'
  BY <1>1, SharedMessagesUntouched DEF connectionVars, MessagesInv
<1>2. ASSUME NEW c \in SyncCallers,
             \/ OpenTransport(c) \/ CloseTransport(c) \/ SyncStep(c)
             \/ \E m \in Methods : SyncCall(c, m)
      PROVE  SharedMessages'
  <2>1. OnlySync(c)
    <3>. USE DEF ClientsInv, ClientsTypeOK, ConnectionTypeOK, OnlySync
    <3>1. CASE OpenTransport(c) \/ CloseTransport(c)
      BY <3>1 DEF OpenTransport, CloseTransport, Open, Close, callVars
    <3>2. CASE SyncSend(c)
      BY <3>2 DEF SyncSend, Write, Close, Goto
    <3>3. CASE SyncRecv(c)
      BY <3>3 DEF SyncRecv, Read, Close, Goto, End
    <3>4. CASE \E m \in Methods : SyncCall(c, m)
      BY <3>4 DEF SyncCall, Call, connectionVars
    <3>. QED  BY <1>2, <3>1, <3>2, <3>3, <3>4 DEF SyncStep
  <2>. QED  BY <2>1, SharedMessagesUntouched DEF MessagesInv, OnlySync, ConcurrentCallers, syncVars
<1>3. ASSUME NEW c \in ConcurrentCallers, GenerateSeqId(c) \/ \E m \in Methods : ConcurrentCall(c, m)
      PROVE  SharedMessages'
  <2>1. UNCHANGED <<connectionVars, pending>> /\ pc[c] \notin Waiting
    BY <1>3 DEF GenerateSeqId, ConcurrentCall, Call, syncVars, Waiting, AtRest
  <2>2. \E next \in {"seqid", "send", "thrown"} : pc' = [pc EXCEPT ![c] = next]
    BY <1>3 DEF GenerateSeqId, ConcurrentCall, Goto
  <2>3. \A d \in Callers \ {c} : question'[d] = question[d]
    BY <1>3 DEF GenerateSeqId, ConcurrentCall, Call, Goto, ClientsInv, ClientsTypeOK
  <2>. QED  BY <1>1, <2>1, <2>2, <2>3 DEF Waiting, ClientsInv, ClientsTypeOK, ConcurrentCallers
<1>4. ASSUME NEW k \in Connections, Break(k), UNCHANGED <<callVars, syncVars>>
      PROVE  SharedMessages'
  <2>. USE DEF ClientsInv, ClientsTypeOK, ConnectionTypeOK
  <2>1. CASE k = Shared
    BY <1>4, <2>1 DEF Break, SharedMessages
  <2>2. CASE k # Shared
    BY <1>4, <2>2, SharedMessagesUntouched DEF Break, callVars, syncVars, MessagesInv
  <2>. QED  BY <2>1, <2>2
<1>5. CASE UNCHANGED clientVars
  BY <1>1, <1>5 DEF clientVars, callVars, syncVars
<1>6. CASE \E c \in SyncCallers :
             \/ OpenTransport(c) \/ CloseTransport(c) \/ SyncStep(c)
             \/ \E m \in Methods : SyncCall(c, m)
  BY <1>2, <1>6
<1>7. CASE \E c \in ConcurrentCallers :
             \/ ConcurrentStep(c)
             \/ \E m \in Methods : ConcurrentCall(c, m)
  BY <1>3, <1>7, SendMessages, GetPendingMessages, ReadMessageMessages DEF ConcurrentStep
<1>8. CASE \E k \in Connections :
             \/ ServerStep(k)
             \/ Break(k) /\ UNCHANGED <<callVars, syncVars>>
  BY <1>4, <1>8, ServerStepMessages
<1>. QED  BY <1>5, <1>6, <1>7, <1>8 DEF ClientsNext

\* Every step keeps MessagesInv.
LEMMA MessagesInvStep ==
  ClientsInv /\ MessagesInv /\ [ClientsNext]_clientVars => MessagesInv'
BY OwnQuestionStep, MutexStep, SharedMessagesStep, OwnMessageStep DEF MessagesInv

(***************************************************************************)
(* The theorem.                                                            *)
(***************************************************************************)

\* The invariants say of both clients what OneMessagePerCall says.
LEMMA MessagesInvImplies == ClientsInv /\ MessagesInv => OneMessagePerCall
<1>. SUFFICES ASSUME ClientsInv, MessagesInv, NEW c \in Callers, transport[ConnectionOf(c)] = "open"
              PROVE  InFlight(c) = IF pc[c] \in {"recv", "read", "wait"} THEN 1 ELSE 0
  BY DEF OneMessagePerCall
<1>. DEFINE k == ConnectionOf(c)
            q == question[c]
<1>1. k \in Connections /\ requests[k] \in Seq(Request) /\ replies[k] \in Seq(Message)
  BY ClientsAssumption DEF ConnectionOf, ClientsInv, ClientsTypeOK, ConnectionTypeOK
<1>2. InFlight(c) = Count(requests[k], Asks(q)) + Count(replies[k], Answers(q))
                      + (IF pending \in Answers(q) THEN 1 ELSE 0)
  <2>1. {i \in DOMAIN requests[k] : requests[k][i].args = q} = Places(requests[k], Asks(q))
    BY <1>1, ElementOfSeq, LenProperties DEF Places, Asks
  <2>2. {i \in DOMAIN replies[k] : replies[k][i].success = q} = Places(replies[k], Answers(q))
    BY <1>1, ElementOfSeq, LenProperties DEF Places, Answers
  <2>3. pending # NoMessage /\ pending.success = q <=> pending \in Answers(q)
    BY DEF ClientsInv, ClientsTypeOK, Answers, Message, NoMessage
  <2>. QED  BY <2>1, <2>2, <2>3 DEF InFlight, Count
<1>3. CASE c \in ConcurrentCallers
  <2>1. k = Shared /\ c \notin SyncCallers
    BY <1>3 DEF ConnectionOf, ConcurrentCallers
  <2>2. CASE pc[c] \in Waiting
    BY <1>2, <1>3, <2>1, <2>2 DEF MessagesInv, SharedMessages, Total, Waiting
  <2>3. CASE pc[c] \notin Waiting
    <3>1. /\ requests[k] \in Seq(PresentRequest) /\ replies[k] \in Seq(PresentMessage)
          /\ pending \in PresentMessage \cup {NoMessage}
      BY <2>1 DEF MessagesInv, SharedMessages
    <3>2. PresentRequest \cap Asks(q) = {} /\ PresentMessage \cap Answers(q) = {}
      <4>1. q \in Question => q.caller = c
        BY DEF MessagesInv, OwnQuestion
      <4>. QED  BY <2>3, <4>1 DEF PresentRequest, PresentMessage, Present, Asks, Answers, Request, Message
    <3>3. Count(requests[k], Asks(q)) = 0 /\ Count(replies[k], Answers(q)) = 0
      BY <3>1, <3>2, CountNone
    <3>4. pending \notin Answers(q)
      BY <3>1, <3>2 DEF Answers, Message, NoMessage
    <3>. HIDE DEF q, k
    <3>. QED  BY <1>2, <2>3, <3>3, <3>4 DEF Waiting
  <2>. QED  BY <2>2, <2>3
<1>4. CASE c \in SyncCallers
  <2>1. k = c /\ c \notin ConcurrentCallers /\ Own(c)
    BY <1>4 DEF ConnectionOf, ConcurrentCallers, ClientsInv, OwnStream
  <2>2. pending \notin Answers(q)
    <3>1. pending \in Answers(q) => q \in Question /\ q.caller = c
      BY DEF MessagesInv, OwnQuestion, Answers, Message
    <3>2. pending \in Answers(q) => q.caller \in ConcurrentCallers
      BY DEF ClientsInv, SharedStream, GoodMessage, BelongsTo, Answers, Message, NoMessage
    <3>. QED  BY <2>1, <3>1, <3>2
  <2>3. CASE requests[k] = << >> /\ replies[k] = << >>
    <3>1. pc[c] \notin {"recv", "read", "wait"}
      BY <1>4, <2>1, <2>3 DEF MessagesInv, OwnMessage, Own, AtRest
    <3>2. Count(requests[k], Asks(q)) = 0 /\ Count(replies[k], Answers(q)) = 0
      BY <2>3, CountEmpty
    <3>. HIDE DEF q, k
    <3>. QED  BY <1>2, <2>2, <3>1, <3>2
  <2>4. CASE pc[c] = "recv" /\ replies[k] = << >> /\ \E r \in Request : requests[k] = <<r>> /\ r.args = q
    <3>1. PICK r \in Request : requests[k] = <<r>> /\ r.args = q
      BY <2>4
    <3>2. Places(requests[k], Asks(q)) = {1}
      BY <3>1 DEF Places, Asks
    <3>3. Count(requests[k], Asks(q)) = 1 /\ Count(replies[k], Answers(q)) = 0
      BY <2>4, <3>2, CountEmpty, FS_Singleton DEF Count
    <3>. HIDE DEF q, k
    <3>. QED  BY <1>2, <2>2, <2>4, <3>3
  <2>5. CASE pc[c] = "recv" /\ requests[k] = << >> /\ \E msg \in Message : replies[k] = <<msg>> /\ msg.success = q
    <3>1. PICK msg \in Message : replies[k] = <<msg>> /\ msg.success = q
      BY <2>5
    <3>2. Places(replies[k], Answers(q)) = {1}
      BY <3>1 DEF Places, Answers
    <3>3. Count(requests[k], Asks(q)) = 0 /\ Count(replies[k], Answers(q)) = 1
      BY <2>5, <3>2, CountEmpty, FS_Singleton DEF Count
    <3>. HIDE DEF q, k
    <3>. QED  BY <1>2, <2>2, <2>5, <3>3
  <2>. QED  BY <2>1, <2>3, <2>4, <2>5 DEF Own
<1>. QED  BY <1>3, <1>4 DEF ConcurrentCallers

\* Over a connection that holds, a thread that waits for its answer has exactly
\* one message on its way, and no other has any: nothing is lost, answered twice
\* or left on the stream, for every number of threads and calls.
THEOREM OneMessage == ClientsSpec => []OneMessagePerCall
BY InitClientsInv, ClientsInvStep, InitMessagesInv, MessagesInvStep, MessagesInvImplies, PTL
   DEF ClientsSpec
=================================================================================
