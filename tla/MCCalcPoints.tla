------------------------------ MODULE MCCalcPoints ------------------------------
(***************************************************************************)
(* An instance of CalcPoints for TLC.  Values are halves; the inputs come  *)
(* in three families, one for each part of the module.                     *)
(***************************************************************************)
EXTENDS CalcPoints

CONSTANTS c1, c2, x0, x1, x2, x3, fh, one, two, both

AllTags == {c1, c2, x0, x1, x2, x3, fh, one, two, both}
Descriptions ==
  [tag \in AllTags |-> CASE tag = fh   -> {"load"}
                         [] tag = one  -> {"I"}
                         [] tag = two  -> {"II"}
                         [] tag = both -> {"I", "II"}
                         [] OTHER      -> {}]

\* What a read gives: nothing, values from `values` at the first `n` time stamps,
\* or an error, whatever the buffer of the read holds then.
Gives(h) == [error |-> FALSE, values |-> h]
Silent == Gives([t \in Times |-> None])
Fails == [error |-> TRUE, values |-> [t \in Times |-> 2]]
Series(n, values) ==
  {Gives(s) : s \in {h \in [Times -> values \cup {None}] : \A t \in Times : t > n => h[t] = None}}
Always(base) == Gives([t \in Times |-> base + t])

Between(name, low, up, lowIn, upIn, answer) ==
  [name |-> name, LowLimit |-> low, LowLimitIn |-> lowIn, UpLimit |-> up, UpLimitIn |-> upIn,
   answer |-> answer]
At(name, order, answer) == [name |-> name, order |-> order, answer |-> answer]

\* The filter: up to two conditions, on one point or two, every kind of limit,
\* values below, at, and above the limits 1 and 2, and reads that fail; two rows on
\* one point are read twice, with all pairs of answers.
Condtions ==
  LET any == Series(2, {1, 2, 4, 5}) \cup {Fails}
  IN {Between(c1, 1, 2, 0, upIn, h) : upIn \in {0, 1}, h \in any}
       \cup {Between(c1, 1, 2, 1, 1, h) : h \in any}
       \cup {Between(c2, 1, 2, 1, 0, h) : h \in Series(2, {2, 5}) \cup {Fails}}
FilterInputs ==
  {[type |-> 1, condtions |-> cs, indexes |-> <<At(x0, 0, Always(10)), At(x1, 1, Always(20))>>] :
     cs \in {<<>>} \cup [1..1 -> Condtions] \cup [1..2 -> Condtions]}

\* The layout: one to three more indexes, in any order, with values here and there
\* or a failing read.
SomeOf(base, subsets) ==
  {Gives([t \in Times |-> IF t \in some THEN base + t ELSE None]) : some \in subsets}
IndexLists(h0, h1, h2, h3) ==
  {<<>>, <<At(x0, 0, h0)>>,
   <<At(x0, 0, h0), At(x1, 1, h1)>>, <<At(x1, 1, h1), At(x0, 0, h0)>>,
   <<At(x0, 0, h0), At(x1, 1, h1), At(x2, 2, h2)>>,
   <<At(x2, 2, h2), At(x0, 0, h0), At(x1, 1, h1)>>,
   <<At(x0, 0, h0), At(x1, 1, h1), At(x2, 2, h2), At(x3, 3, h3)>>}
LayoutInputs ==
  UNION {{[type |-> type, condtions |-> <<Between(c1, 1, 2, 0, 0, h)>>, indexes |-> is] :
            type \in {1, 4}, h \in Series(2, {2}), is \in IndexLists(h0, h1, h2, h3)} :
           h0 \in SomeOf(10, SUBSET {1, 2}), h1 \in SomeOf(20, SUBSET {1, 2}) \cup {Fails},
           h2 \in SomeOf(30, {{1}, {1, 2}}), h3 \in {Fails, Always(40)}}

\* The histogram: loads of half, one, one and a half and four, limits 1 and 4,
\* flows of 3 and above; the load once more, with other limits, read or not.
Load(h) == Between(fh, 1, 4, 0, 0, h)
First(h) == Between(one, 0, 5, 0, 0, h)
Second(h) == Between(two, 0, 5, 0, 0, h)
HistogramRows(h1, h2, h3) ==
  {<<Load(h1)>>, <<Load(h1), First(h2)>>, <<Second(h3), Load(h1)>>,
   <<First(h2), Load(h1), Second(h3)>>,
   <<Between(both, 0, 5, 0, 0, Gives([t \in Times |-> 7])), First(h2), Load(h1)>>,
   <<Load(h1), Between(one, 0, 3, 0, 1, h2), Between(fh, 0, 1, 1, 0, Fails)>>,
   <<First(h2), Load(h1), Between(fh, 0, 1, 1, 0, h3)>>}
HistogramInputs ==
  UNION {{[type |-> 3, condtions |-> cs, indexes |-> <<At(x0, 0, Silent)>>] :
            cs \in HistogramRows(h1, h2, h3)} :
           h1 \in Series(3, {1, 2, 3, 8}), h2 \in Series(1, {6, 7}), h3 \in Series(1, {6, 7})}

\* For the finding: a load on its upper limit, which the condition excludes.
ExcludedLimit ==
  {[type |-> 3, condtions |-> <<Between(fh, 1, 4, 0, 1, Gives([t \in Times |-> 8]))>>,
    indexes |-> <<At(x0, 0, Always(10))>>]}

AllInputs == FilterInputs \cup LayoutInputs \cup HistogramInputs
=================================================================================
