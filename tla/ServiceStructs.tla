------------------------------ MODULE ServiceStructs ------------------------------
(***************************************************************************)
(* How the generated code puts the arguments and the results of the four  *)
(* calls on the connection and takes them off it.                          *)
(*                                                                         *)
(* Every generated struct has the same read and the same write: they       *)
(* differ in the fields they know.  A struct is therefore a table of its   *)
(* fields, and one reader and one writer stand for all of them.  args and  *)
(* pargs write the same fields, result and presult read the same fields:   *)
(* the p variants only reach them through a pointer.                       *)
(*                                                                         *)
(* The other end is a Python server that may have been generated from      *)
(* another version of the interface: it writes the fields in any order, a  *)
(* field twice or not at all, fields this program does not know, known     *)
(* fields with another type and lists of another element type.             *)
(***************************************************************************)
EXTENDS Integers, Sequences, SequencesExt

CONSTANTS
  PeerFields(_),  \* the fields the other end may put into a struct
  Originals(_),   \* the objects this program writes
  MaxFields       \* bound: fields the other end puts into one struct

ASSUME StructsAssumption == MaxFields \in Nat

---------------------------------------------------------------------------
(* The fields of each struct, by their numbers. *)

Scalars == {"i16", "i32", "double", "string"}
TTypes == Scalars \cup {"list", "struct"}

Scalar(t) == [ttype |-> t, of |-> "nothing"]
ListOf(e) == [ttype |-> "list", of |-> e]
StructOf(s) == [ttype |-> "struct", of |-> s]
Result(type) ==
  [fid \in {0, 1} |-> IF fid = 0 THEN type ELSE StructOf("CalcException")]

data_info == <<Scalar("i32"), Scalar("string"), Scalar("i32"), Scalar("i32")>>
CalcException == <<Scalar("i32"), Scalar("string"), Scalar("string")>>

getLogistic_args == <<ListOf("double")>>
getLogistic_result == Result(Scalar("string"))
getWeibull_args == <<ListOf("double")>>
getWeibull_result == Result(Scalar("string"))
trainModel_args == <<Scalar("string"), ListOf("data_info"), ListOf("double")>>
trainModel_result == Result(Scalar("i16"))
predict_args == <<Scalar("string"), ListOf("data_info"), ListOf("double")>>
predict_result == Result(ListOf("double"))

Args == {"getLogistic_args", "getWeibull_args", "trainModel_args", "predict_args"}
Results ==
  {"getLogistic_result", "getWeibull_result", "trainModel_result", "predict_result"}

Fields ==
  [data_info |-> data_info, CalcException |-> CalcException,
   getLogistic_args |-> getLogistic_args, getLogistic_result |-> getLogistic_result,
   getWeibull_args |-> getWeibull_args, getWeibull_result |-> getWeibull_result,
   trainModel_args |-> trainModel_args, trainModel_result |-> trainModel_result,
   predict_args |-> predict_args, predict_result |-> predict_result]

\* A faulty variant: the elements of a list may be incomplete.
RequiredOfArgs(s) == IF s \in Args THEN DOMAIN Fields[s] ELSE {}

\* The fields without which read throws.
Required(s) == IF s \in Args \cup {"data_info"} THEN DOMAIN Fields[s] ELSE {}

\* A field, or its heading on the wire, is one that struct s knows, with the type it
\* knows it with; otherwise it is skipped.
WellTyped(s, f) ==
  f.fid \in DOMAIN Fields[s] /\ f.ttype = Fields[s][f.fid].ttype

\* The type a field or an element has on the wire: the name of a struct is not sent.
OnWire(t) == IF t \in DOMAIN Fields THEN "struct" ELSE t

\* An object is a function from the fields that are set to their values.
Empty == [fid \in {} |-> 0]
With(object, fid, v) ==
  [g \in DOMAIN object \cup {fid} |-> IF g = fid THEN v ELSE object[g]]

---------------------------------------------------------------------------
(* What is on the wire.  A plain value is the sequence of its tokens; the   *)
(* value of a struct is a sequence of fields [fid, ttype, value] with plain *)
(* values, and the value of a list is [of, elements], the elements structs  *)
(* or plain values.                                                         *)

Stop == [kind |-> "stop"]
Heading(f) == [kind |-> "field", ttype |-> f.ttype, fid |-> f.fid]
ValueToken(t, n) == [kind |-> "value", ttype |-> t, number |-> n]
ListToken(v) == [kind |-> "list", of |-> v.of, size |-> Len(v.elements)]

Token ==
  {Stop} \cup [kind : {"field"}, ttype : TTypes, fid : Int]
         \cup [kind : {"value"}, ttype : Scalars, number : Int]
         \cup [kind : {"list"}, of : TTypes, size : Nat]

PartTokens(fields) ==
  FlattenSeq([i \in DOMAIN fields |-> <<Heading(fields[i])>> \o fields[i].value])
    \o <<Stop>>

ElementTokens(v) ==
  FlattenSeq([i \in DOMAIN v.elements |->
    IF v.of = "struct" THEN PartTokens(v.elements[i]) ELSE v.elements[i]])

Tokens(t, v) ==
  CASE t = "struct" -> PartTokens(v)
    [] t = "list"   -> <<ListToken(v)>> \o ElementTokens(v)
    [] OTHER        -> v

FieldTokens(fields) ==
  FlattenSeq([i \in DOMAIN fields |->
    <<Heading(fields[i])>> \o Tokens(fields[i].ttype, fields[i].value)])

\* The types that are still open after token k, when those in todo were before it.
After(todo, k) ==
  CASE Head(todo) = "struct" -> IF k = Stop THEN Tail(todo) ELSE <<k.ttype>> \o todo
    [] Head(todo) = "list"   -> [i \in 1..k.size |-> k.of] \o Tail(todo)
    [] OTHER                 -> Tail(todo)

\* What is open of a value of type t after each of the tokens.
Open(t, tokens) ==
  LET open[i \in 0..Len(tokens)] ==
        IF i = 0 THEN <<t>>
        ELSE LET todo == open[i - 1] IN
             IF todo = << >> THEN << >> ELSE After(todo, tokens[i])
  IN open

Fits(t, k) ==
  CASE t = "struct" -> k.kind \in {"stop", "field"}
    [] t = "list"   -> k.kind = "list"
    [] OTHER        -> k.kind = "value" /\ k.ttype = t

\* The tokens are those of one value of type t.
Encodes(t, tokens) ==
  LET open == Open(t, tokens) IN
  /\ open[Len(tokens)] = << >>
  /\ \A i \in DOMAIN tokens : open[i - 1] # << >> /\ Fits(Head(open[i - 1]), tokens[i])

---------------------------------------------------------------------------
(* write: the fields in the order of their numbers.  CalcException leaves   *)
(* out what is not set; a result holds its value or else the exception.     *)

\* A faulty variant: no else before the exception.
WrittenBoth(s, object) == DOMAIN object

WrittenFields(s, object) ==
  IF s \in Results /\ 0 \in DOMAIN object THEN {0} ELSE DOMAIN object

Present(fids, fid) == IF fid \in fids THEN <<fid>> ELSE << >>
InOrder(fids) ==
  Present(fids, 0) \o Present(fids, 1) \o Present(fids, 2) \o Present(fids, 3)
    \o Present(fids, 4)

PartFields(s, object) ==
  LET fids == InOrder(DOMAIN object) IN
  [i \in DOMAIN fids |->
     LET t == Fields[s][fids[i]].ttype IN
     [fid |-> fids[i], ttype |-> t, value |-> <<ValueToken(t, object[fids[i]])>>]]

WireValue(type, v) ==
  CASE type.ttype = "struct" -> PartFields(type.of, v)
    [] type.ttype = "list"   ->
         [of |-> OnWire(type.of),
          elements |-> [i \in DOMAIN v |->
            IF type.of = "data_info" THEN PartFields(type.of, v[i])
            ELSE <<ValueToken(type.of, v[i])>>]]
    [] OTHER                 -> <<ValueToken(type.ttype, v)>>

WireField(s, object, fid) ==
  [fid |-> fid, ttype |-> Fields[s][fid].ttype,
   value |-> WireValue(Fields[s][fid], object[fid])]

WireFields(s, object) ==
  LET fids == InOrder(WrittenFields(s, object)) IN
  [i \in DOMAIN fids |-> WireField(s, object, fids[i])]

---------------------------------------------------------------------------
(* The values of the two ends.  An object has numbers, a list of them or of *)
(* complete data_info, or the members of an exception.                      *)

HasType(v, type) ==
  CASE type.ttype = "struct" -> \E fids \in SUBSET DOMAIN Fields[type.of] : v \in [fids -> Int]
    [] type.ttype = "list"   ->
         v \in Seq(IF type.of = "data_info" THEN [DOMAIN data_info -> Int] ELSE Int)
    [] OTHER                 -> v \in Int

\* The arguments are always all set; of a result, and of an exception, what is set.
IsObject(s, object) ==
  /\ object = [fid \in DOMAIN object |-> object[fid]]
  /\ DOMAIN object \subseteq DOMAIN Fields[s]
  /\ s \in Args => DOMAIN object = DOMAIN Fields[s]
  /\ \A fid \in DOMAIN object : HasType(object[fid], Fields[s][fid])

ASSUME OriginalsAssumption ==
  \A s \in Args \cup Results : \A object \in Originals(s) : IsObject(s, object)

\* The other end, too, speaks Thrift: a value is of the type it is announced with.
PartField == [fid : Int, ttype : TTypes, value : Seq(Token)]
IsPart(fields) ==
  /\ fields \in Seq(PartField)
  /\ \A i \in DOMAIN fields : Encodes(fields[i].ttype, fields[i].value)
IsList(v) ==
  /\ v.of \in TTypes
  /\ v.of = "struct" => /\ v.elements \in Seq(Seq(PartField))
                        /\ \A i \in DOMAIN v.elements : IsPart(v.elements[i])
  /\ v.of # "struct" => /\ v.elements \in Seq(Seq(Token))
                        /\ \A i \in DOMAIN v.elements : Encodes(v.of, v.elements[i])
IsField(f) ==
  /\ f.fid \in Int /\ f.ttype \in TTypes
  /\ f.ttype = "struct" => IsPart(f.value)
  /\ f.ttype = "list" => IsList(f.value)
  /\ f.ttype \in Scalars => f.value \in Seq(Token)
  /\ Encodes(f.ttype, Tokens(f.ttype, f.value))

ASSUME PeerAssumption ==
  \A s \in Args \cup Results : \A f \in PeerFields(s) : IsField(f)

---------------------------------------------------------------------------
VARIABLES
  struct,    \* the struct that is sent
  original,  \* the object this program wrote; Empty when the other end writes
  sent,      \* the fields written so far
  writing,   \* "open", "stopped", or "lost" when the connection has ended
  wire,      \* the tokens written and not read yet
  object,    \* what the reader has set so far
  reader,    \* "reading", "returned", or why it threw
  stage,     \* the loop the reader is in: of the struct, of a list, of a struct that
             \* is an element of the list or a member of the struct
  field,     \* the number of the list or the member
  left,      \* the elements of the list that are still to be read
  list,      \* the elements that have been read
  part       \* what is set of the element or of the member

inside == <<stage, field, left, list, part>>
structVars == <<struct, original, sent, writing, wire, object, reader, inside>>

Outside ==
  /\ stage' = "struct" /\ field' = 0 /\ left' = 0 /\ list' = << >> /\ part' = Empty

StructsInit ==
  /\ struct \in Args \cup Results
  /\ original = Empty
  /\ sent = << >> /\ writing = "open" /\ wire = << >>
  /\ object = Empty /\ reader = "reading"
  /\ stage = "struct" /\ field = 0 /\ left = 0 /\ list = << >> /\ part = Empty

\* write of the generated code.
WriteStruct ==
  /\ writing = "open" /\ sent = << >>
  /\ \E o \in Originals(struct) :
       /\ original' = o
       /\ sent' = WireFields(struct, o)
       /\ wire' = FieldTokens(sent') \o <<Stop>>
  /\ writing' = "stopped"
  /\ UNCHANGED <<struct, object, reader, inside>>

\* The other end writes one more field.
PeerWrites ==
  /\ writing = "open" /\ Len(sent) < MaxFields
  /\ \E f \in PeerFields(struct) :
       /\ sent' = Append(sent, f)
       /\ wire' = wire \o FieldTokens(<<f>>)
  /\ UNCHANGED <<struct, original, writing, object, reader, inside>>

\* The other end has written the whole struct.
PeerStops ==
  /\ writing = "open"
  /\ writing' = "stopped"
  /\ wire' = Append(wire, Stop)
  /\ UNCHANGED <<struct, original, sent, object, reader, inside>>

\* The reader waits for the bytes it needs: it can as well begin when all have come.
Reading == reader = "reading" /\ writing # "open"

\* The connection ends somewhere in the last field that was written, or before the
\* stop; the reader has read what came before.  A loss that reaches further back is the
\* loss of a message with fewer fields.
Lose ==
  /\ Reading /\ writing = "stopped" /\ sent # << >>
  /\ stage = "struct" /\ wire = FieldTokens(<<Last(sent)>>) \o <<Stop>>
  /\ \E n \in 0..(Len(wire) - 1) : wire' = SubSeq(wire, 1, n)
  /\ writing' = "lost"
  /\ UNCHANGED <<struct, original, sent, object, reader, inside>>

---------------------------------------------------------------------------
(* read.  "broken" is the TTransportException of a connection that has      *)
(* ended, "invalid" the TProtocolException of a struct without a required   *)
(* field; "garbled" is a read of bytes that are something else, whose       *)
(* outcome can be anything.                                                 *)

Got(v, rest) == [status |-> "ok", value |-> v, rest |-> rest]
Throws(why) == [status |-> why, value |-> 0, rest |-> << >>]

ReadScalar(t, tokens) ==
  IF tokens = << >> THEN Throws("broken")
  ELSE LET k == Head(tokens) IN
    IF k.kind = "value" /\ k.ttype = t THEN Got(k.number, Tail(tokens))
    ELSE Throws("garbled")

\* skip(ftype): past the tokens after which nothing of the value is open.
Skip(t, tokens) ==
  LET open == Open(t, tokens)
      ends == {i \in 0..Len(tokens) : open[i] = << >>}
  IN IF ends = {} THEN Throws("broken")
     ELSE Got(0, SubSeq(tokens, Min(ends) + 1, Len(tokens)))

\* The struct whose loop the reader is in, and what is set of it.
Here == IF stage = "struct" THEN struct ELSE Fields[struct][field].of
Held == IF stage = "struct" THEN object ELSE part

Throw(why) ==
  /\ reader' = why /\ wire' = << >>
  /\ UNCHANGED <<object, inside>>

AtField == Reading /\ stage # "list" /\ wire # << >> /\ Head(wire).kind = "field"

\* A field with a number or a string: it is set.
ReadScalarField ==
  /\ AtField /\ WellTyped(Here, Head(wire)) /\ Head(wire).ttype \in Scalars
  /\ LET fid == Head(wire).fid
         r == ReadScalar(Head(wire).ttype, Tail(wire))
         held == With(Held, fid, r.value)
     IN \/ /\ r.status = "ok" /\ wire' = r.rest
           /\ object' = IF stage = "struct" THEN held ELSE object
           /\ part' = IF stage = "struct" THEN part ELSE held
           /\ UNCHANGED <<reader, stage, field, left, list>>
        \/ r.status # "ok" /\ Throw(r.status)
  /\ UNCHANGED <<struct, original, sent, writing>>

\* A faulty variant: a list that comes again is not cleared.
NotCleared(fid) == IF fid \in DOMAIN object THEN object[fid] ELSE << >>

\* clear() of the list.
Cleared(fid) == << >>

\* A field with a list: its elements follow.
ReadListBegin ==
  /\ AtField /\ WellTyped(Here, Head(wire)) /\ Head(wire).ttype = "list"
  /\ \/ /\ Len(wire) > 1
        /\ wire' = Tail(Tail(wire))
        /\ stage' = "list" /\ field' = Head(wire).fid
        /\ left' = wire[2].size /\ list' = Cleared(Head(wire).fid)
        /\ UNCHANGED <<object, reader, part>>
     \/ Len(wire) = 1 /\ Throw("broken")
  /\ UNCHANGED <<struct, original, sent, writing>>

\* The exception: it is read over what it held.
ReadStructBegin ==
  /\ AtField /\ WellTyped(Here, Head(wire)) /\ Head(wire).ttype = "struct"
  /\ wire' = Tail(wire)
  /\ stage' = "member" /\ field' = Head(wire).fid
  /\ part' = IF Head(wire).fid \in DOMAIN object THEN object[Head(wire).fid] ELSE Empty
  /\ UNCHANGED <<struct, original, sent, writing, object, reader, left, list>>

\* A faulty variant: a field that is not read is not skipped either.
Unskipped(t, tokens) == Got(0, tokens)

\* Past a field that is not known, or not with this type.
Skipped(t, tokens) == Skip(t, tokens)

SkipField ==
  /\ AtField /\ ~ WellTyped(Here, Head(wire))
  /\ LET r == Skipped(Head(wire).ttype, Tail(wire)) IN
     \/ r.status = "ok" /\ wire' = r.rest /\ UNCHANGED <<object, reader, inside>>
     \/ r.status # "ok" /\ Throw(r.status)
  /\ UNCHANGED <<struct, original, sent, writing>>

\* The next element of a list; _etype is not looked at.
ReadElement ==
  /\ Reading /\ stage = "list" /\ left > 0
  /\ LET of == Fields[struct][field].of
         r == ReadScalar(of, wire)
     IN \/ /\ of = "data_info"
           /\ stage' = "element" /\ left' = left - 1 /\ part' = Empty
           /\ UNCHANGED <<wire, object, reader, field, list>>
        \/ /\ of # "data_info" /\ r.status = "ok"
           /\ wire' = r.rest /\ left' = left - 1 /\ list' = Append(list, r.value)
           /\ UNCHANGED <<object, reader, stage, field, part>>
        \/ of # "data_info" /\ r.status # "ok" /\ Throw(r.status)
  /\ UNCHANGED <<struct, original, sent, writing>>

EndList ==
  /\ Reading /\ stage = "list" /\ left = 0
  /\ object' = With(object, field, list)
  /\ Outside
  /\ UNCHANGED <<struct, original, sent, writing, wire, reader>>

\* A faulty variant: the flags of the required fields are not looked at.
Unchecked == TRUE

\* Every required field has been read.
Complete == Required(Here) \subseteq DOMAIN Held

\* The end of a loop.
ReadStop ==
  /\ Reading /\ stage # "list" /\ wire # << >> /\ Head(wire) = Stop
  /\ \/ /\ Complete /\ stage = "struct"
        /\ reader' = "returned" /\ wire' = Tail(wire)
        /\ UNCHANGED <<object, inside>>
     \/ /\ Complete /\ stage = "element"
        /\ list' = Append(list, part) /\ wire' = Tail(wire)
        /\ stage' = "list" /\ part' = Empty
        /\ UNCHANGED <<object, reader, field, left>>
     \/ /\ Complete /\ stage = "member"
        /\ object' = With(object, field, part) /\ wire' = Tail(wire)
        /\ Outside
        /\ UNCHANGED reader
     \/ ~ Complete /\ Throw("invalid")
  /\ UNCHANGED <<struct, original, sent, writing>>

ReadNothing ==
  /\ Reading /\ stage # "list" /\ wire = << >>
  /\ Throw("broken")
  /\ UNCHANGED <<struct, original, sent, writing>>

ReadNonsense ==
  /\ Reading /\ stage # "list" /\ wire # << >> /\ Head(wire).kind \in {"value", "list"}
  /\ Throw("garbled")
  /\ UNCHANGED <<struct, original, sent, writing>>

\* The next struct: on the same connection after a read that returned, on another
\* one after a read that threw.
NextStruct(s) ==
  /\ reader # "reading"
  /\ struct' = s
  /\ original' = Empty
  /\ sent' = << >> /\ writing' = "open"
  /\ wire' = IF reader = "returned" THEN wire ELSE << >>
  /\ object' = Empty /\ reader' = "reading"
  /\ Outside

StructsNext ==
  \/ WriteStruct
  \/ PeerWrites
  \/ PeerStops
  \/ Lose
  \/ ReadScalarField
  \/ ReadListBegin
  \/ ReadStructBegin
  \/ SkipField
  \/ ReadElement
  \/ EndList
  \/ ReadStop
  \/ ReadNothing
  \/ ReadNonsense
  \/ \E s \in Args \cup Results : NextStruct(s)

StructsSpec == StructsInit /\ [][StructsNext]_structVars

---------------------------------------------------------------------------
(* What the first n fields of a message mean, said of the fields and not of *)
(* their tokens.                                                            *)

Places(s, fields, n, fid) ==
  {i \in 1..n : fields[i].fid = fid /\ WellTyped(s, fields[i])}
LastOne(s, fields, n, fid) == fields[Max(Places(s, fields, n, fid))].value
Said(s, fields, n) == {fid \in DOMAIN Fields[s] : Places(s, fields, n, fid) # {}}

\* Of a field sent twice the last one counts.
PartMeaning(s, fields, n) ==
  [fid \in Said(s, fields, n) |-> LastOne(s, fields, n, fid)[1].number]
ElementMeaning(of, e) ==
  IF of = "data_info" THEN PartMeaning(of, e, Len(e)) ELSE e[1].number

\* Two structs add up: each member has the value of the last one that names it.
Naming(s, fields, n, fid, member) ==
  LET of == Fields[s][fid].of IN
  {i \in Places(s, fields, n, fid) :
     member \in Said(of, fields[i].value, Len(fields[i].value))}
AddedUp(s, fields, n, fid) ==
  LET of == Fields[s][fid].of IN
  [member \in {m \in DOMAIN Fields[of] : Naming(s, fields, n, fid, m) # {}} |->
     LET v == fields[Max(Naming(s, fields, n, fid, member))].value IN
     PartMeaning(of, v, Len(v))[member]]

ValueMeaning(s, fields, n, fid) ==
  LET type == Fields[s][fid]
      last == LastOne(s, fields, n, fid)
  IN CASE type.ttype = "struct" -> AddedUp(s, fields, n, fid)
       [] type.ttype = "list"   ->
            [i \in DOMAIN last.elements |-> ElementMeaning(type.of, last.elements[i])]
       [] OTHER                 -> last[1].number

Meaning(s, fields, n) ==
  [fid \in Said(s, fields, n) |-> ValueMeaning(s, fields, n, fid)]

\* The lists of struct s among the fields.
Lists(s, fields) ==
  {i \in DOMAIN fields : WellTyped(s, fields[i]) /\ fields[i].ttype = "list"}

\* The elements of a list are of the type they are known with.
AsKnown(s, f) ==
  f.value.elements = << >> \/ f.value.of = OnWire(Fields[s][f.fid].of)
ElementsAsKnown == \A i \in Lists(struct, sent) : AsKnown(struct, sent[i])

\* No required field is missing, neither in the struct nor in an element of a list.
ElementsComplete(s, f) ==
  Fields[s][f.fid].of = "data_info" /\ f.value.of = "struct" =>
    \A e \in ToSet(f.value.elements) : Required("data_info") \subseteq Said("data_info", e, Len(e))
NothingMissing ==
  /\ Required(struct) \subseteq Said(struct, sent, Len(sent))
  /\ \A i \in Lists(struct, sent) : ElementsComplete(struct, sent[i])

---------------------------------------------------------------------------
\* The members the reader has set are members of the struct and have their types:
\* every data_info of a list has all four of its members.
StructsTypeOK ==
  /\ struct \in Args \cup Results
  /\ writing \in {"open", "stopped", "lost"}
  /\ wire \in Seq(Token)
  /\ reader \in {"reading", "returned", "broken", "invalid", "garbled"}
  /\ DOMAIN object \subseteq DOMAIN Fields[struct]
  /\ \A fid \in DOMAIN object : HasType(object[fid], Fields[struct][fid])
  /\ stage \in {"struct", "list", "element", "member"}

\* The tokens that are left on the wire are the first of these: all of them, or
\* without the stop or with some more missing when it was not written or got lost.
Comes(tokens) ==
  CASE writing = "open"    -> Append(wire, Stop) = tokens
    [] writing = "stopped" -> wire = tokens
    [] writing = "lost"    -> Len(wire) < Len(tokens) /\ IsPrefix(wire, tokens)

\* Between two fields the reader stands at the beginning of a field, whatever the
\* fields before were and whether they were read or skipped: what is left to read
\* are the last fields sent, or the beginning of them when the connection ended.
\* After the struct nothing is left, the next message begins there.  (The readers
\* of CapacityMonitorService.cpp, such as 492-580, with skip for every other field.)
InSync ==
  /\ reader = "reading" /\ stage = "struct" =>
       \E n \in 0..Len(sent) : Comes(FieldTokens(SubSeq(sent, n + 1, Len(sent))) \o <<Stop>>)
  /\ reader = "returned" => writing # "lost" /\ wire = << >>

\* A read that returns has understood the message: of every known field the last
\* one sent, of a repeated exception all that was said of it, and nothing of the
\* fields it does not know or that have another type.
ReadsWhatWasSent == reader = "returned" => object = Meaning(struct, sent, Len(sent))

\* A read returns only when no required field is missing, and says that the data
\* are invalid only when one is.  Bytes are taken for something else only when the
\* other end sent a list of other elements: the readers ignore _etype.
Verdict ==
  /\ reader = "returned" => NothingMissing /\ ElementsAsKnown
  /\ reader = "invalid" => ~NothingMissing
  /\ reader = "garbled" => ~ElementsAsKnown

\* What one program writes another one generated from the same interface reads: all
\* that is set, and of a result that has a value only the value.
RoundTrip ==
  original # Empty /\ reader # "reading" /\ writing # "lost" =>
    /\ reader = "returned"
    /\ object = IF 0 \in DOMAIN original THEN With(Empty, 0, original[0]) ELSE original

===================================================================================
