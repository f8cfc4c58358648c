------------------------------ MODULE MCServiceStructs ------------------------------
(* Small fields and objects for ServiceStructs. *)
EXTENDS ServiceStructs

Field(fid, t, v) == [fid |-> fid, ttype |-> t, value |-> v]
Number(t, n) == <<ValueToken(t, n)>>
NumberField(fid, t, n) == Field(fid, t, Number(t, n))
Numbers(t, ns) == [of |-> t, elements |-> [i \in DOMAIN ns |-> Number(t, ns[i])]]
Structs(es) == [of |-> "struct", elements |-> es]

\* A complete data_info, one in another order with a list that is not known, and one
\* without its last field.
Info == PartFields("data_info", <<1, 2, 3, 4>>)
OddInfo == <<Field(9, "list", Tokens("list", Numbers("i32", <<7>>)))>> \o Reverse(Info)
ShortInfo == SubSeq(Info, 1, 3)

\* Values a field of each type has, and odd ones: with an incomplete element, or of
\* elements of another type.
Usual(type) ==
  CASE type.ttype = "struct" ->
         {<<NumberField(1, "i32", 1)>>,
          <<NumberField(2, "string", 2), NumberField(1, "string", 3)>>}
    [] type.ttype = "list" /\ type.of = "data_info" -> {Structs(<<OddInfo, Info>>)}
    [] type.ttype = "list" /\ type.of # "data_info" -> {Numbers("double", <<1, 2>>)}
    [] type.ttype = "i16" -> {Number("i16", 1), Number("i16", 2)}
    [] OTHER -> {Number(type.ttype, 1)}
Odd(type) ==
  CASE type.ttype = "list" /\ type.of = "data_info" ->
         {Structs(<<ShortInfo>>), Numbers("double", <<3>>)}
    [] type.ttype = "list" /\ type.of # "data_info" ->
         {Numbers("i32", <<3>>), Numbers("i32", << >>)}
    [] OTHER -> {}

\* These structs have the fields of another one: they get the usual values only.
Twins == {"getWeibull_args", "getWeibull_result", "predict_args"}

\* The known fields; a field that is not known, a list of structs; and in all but the
\* widest struct the first field with another type.
MCPeerFields(s) ==
  UNION {{Field(fid, Fields[s][fid].ttype, v) :
            v \in Usual(Fields[s][fid]) \cup (IF s \in Twins THEN {} ELSE Odd(Fields[s][fid]))} :
           fid \in DOMAIN Fields[s]}
  \cup {Field(5, "list", Structs(<<OddInfo, ShortInfo>>))}
  \cup (IF s \in Twins \cup {"trainModel_args"} THEN {} ELSE {NumberField(1, "i32", 5)})

Infos == {<<1, 2, 3, 4>>, <<0, 0, 0, 0>>}
Objects(type) ==
  CASE type.ttype = "struct" ->
         {[fid \in d |-> fid] : d \in SUBSET DOMAIN CalcException}
    [] type.ttype = "list" /\ type.of = "data_info" -> {<< >>} \cup [1..2 -> Infos]
    [] type.ttype = "list" /\ type.of # "data_info" -> {<< >>, <<1>>, <<1, 0>>}
    [] OTHER -> {0, 1}

MCOriginals(s) ==
  LET O(fid) == Objects(Fields[s][fid]) IN
  CASE s \in Results -> {Empty} \cup {With(Empty, 0, v) : v \in O(0)}
                        \cup {With(Empty, 1, e) : e \in O(1)}
                        \cup {With(With(Empty, 0, v), 1, e) : v \in O(0), e \in O(1)}
    [] Len(Fields[s]) = 1 -> {<<l>> : l \in O(1)}
    [] OTHER -> {<<m, i, l>> : m \in O(1), i \in O(2), l \in O(3)}
=====================================================================================
