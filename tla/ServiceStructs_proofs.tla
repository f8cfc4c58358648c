--------------------------- MODULE ServiceStructs_proofs ---------------------------
(***************************************************************************)
(* Theorems about the readers and the writers of the structs, for every    *)
(* message the other end can send, whatever fields and values it has, and  *)
(* for every object this program writes.                                   *)
(***************************************************************************)
EXTENDS ServiceStructs, SequenceTheorems, NaturalsInduction, WellFoundedInduction, TLAPS

(***************************************************************************)
(* Least and greatest numbers.                                             *)
(***************************************************************************)

\* A set of numbers has a least one.
LEMMA LeastExists ==
  ASSUME NEW S \in SUBSET Nat, S # {}
  PROVE  Min(S) \in S /\ \A m \in S : Min(S) <= m
<1> DEFINE R == {p \in Nat \X Nat : p[1] < p[2]}
<1>1. IsWellFoundedOn(R, Nat)
  BY NatLessThanWellFounded DEF OpToRel
<1> HIDE DEF R
<1>2. PICK x \in S : \A y \in S : ~ (<<y, x>> \in R)
  BY <1>1, WFMin
<1>3. ASSUME NEW y \in S PROVE x <= y
  <2>1. x \in Nat /\ y \in Nat
    OBVIOUS
  <2>2. CASE y < x
    <3>1. <<y, x>> \in R
      BY <2>1, <2>2 DEF R
    <3> QED
      BY <1>2, <3>1
  <2> QED
    BY <2>1, <2>2
<1> QED
  BY <1>3 DEF Min

\* A set of numbers up to n has a greatest one.
LEMMA GreatestExists ==
  ASSUME NEW n \in Nat, NEW S \in SUBSET (1..n), S # {}
  PROVE  Max(S) \in S /\ \A m \in S : m <= Max(S)
<1> DEFINE B == {b \in Nat : \A m \in S : m <= b}
<1>1. n \in B
  OBVIOUS
<1>2. Min(B) \in B /\ \A b \in B : Min(B) <= b
  BY <1>1, LeastExists
<1> DEFINE g == Min(B)
<1> HIDE DEF g
<1>3. g \in Nat /\ (\A m \in S : m <= g) /\ \A b \in B : g <= b
  BY <1>2 DEF g
<1>4. ASSUME g \notin S PROVE FALSE
  <2>1. PICK m \in S : TRUE
    OBVIOUS
  <2>2. m \in 1..n /\ m <= g
    BY <1>3
  <2>3. g - 1 \in Nat /\ \A k \in S : k <= g - 1
    <3>1. \A k \in S : k \in Int /\ k <= g /\ k # g
      BY <1>3, <1>4
    <3> QED
      BY <1>3, <2>2, <3>1
  <2>4. g - 1 \in B
    BY <2>3
  <2> QED
    BY <1>3, <2>4
<1>5. \E x \in S : \A m \in S : x >= m
  <2>1. \A m \in S : m \in Int /\ m <= g
    BY <1>3
  <2>2. \A m \in S : g >= m
    BY <1>3, <2>1
  <2> QED
    BY <1>4, <2>2
<1>6. Max(S) \in S /\ \A m \in S : Max(S) >= m
  BY <1>5 DEF Max
<1>7. \A m \in S : m \in Int
  OBVIOUS
<1> QED
  BY <1>6, <1>7

\* The greatest one is the one that is not less than any other.
LEMMA GreatestIs ==
  ASSUME NEW S \in SUBSET Int, NEW g \in S, \A m \in S : m <= g
  PROVE  Max(S) = g
<1>1. \A m \in S : g >= m
  OBVIOUS
<1>2. Max(S) \in S /\ \A m \in S : Max(S) >= m
  BY <1>1 DEF Max
<1>3. Max(S) >= g /\ Max(S) <= g
  BY <1>2
<1>4. Max(S) \in Int /\ g \in Int
  BY <1>2
<1> QED
  BY <1>3, <1>4

(***************************************************************************)
(* Sequences one after the other.  FlattenSeq is recursive: that its       *)
(* recursion defines a function is shown for one more at a time.           *)
(***************************************************************************)

Joins(f, seqs, n) == f = [i \in 1..n |-> IF i = 1 THEN seqs[i] ELSE f[i - 1] \o seqs[i]]

LEMMA JoinOneMore ==
  ASSUME NEW seqs, NEW n \in Nat, NEW f, Joins(f, seqs, n)
  PROVE  \E g : Joins(g, seqs, n + 1)
<1> DEFINE g == [i \in 1..(n + 1) |->
                  IF i <= n THEN f[i] ELSE IF i = 1 THEN seqs[i] ELSE f[i - 1] \o seqs[i]]
<1>1. \A i \in 1..n : f[i] = IF i = 1 THEN seqs[i] ELSE f[i - 1] \o seqs[i]
  BY DEF Joins
<1>2. ASSUME NEW i \in 1..(n + 1)
      PROVE  g[i] = IF i = 1 THEN seqs[i] ELSE g[i - 1] \o seqs[i]
  <2>1. CASE i = 1
    BY <1>1, <2>1
  <2>2. CASE i # 1
    <3>1. g[i - 1] = f[i - 1]
      BY <2>2
    <3>2. CASE i <= n
      <4>1. i \in 1..n /\ g[i] = f[i]
        BY <3>2
      <4> QED
        BY <1>1, <2>2, <3>1, <4>1
    <3>3. CASE ~(i <= n)
      BY <2>2, <3>1, <3>3
    <3> QED
      BY <3>2, <3>3
  <2> QED
    BY <2>1, <2>2
<1>3. g = [i \in 1..(n + 1) |-> g[i]]
  OBVIOUS
<1> HIDE DEF g
<1>4. g = [i \in 1..(n + 1) |-> IF i = 1 THEN seqs[i] ELSE g[i - 1] \o seqs[i]]
  BY <1>2, <1>3
<1> QED
  BY <1>4 DEF Joins

LEMMA JoinExists ==
  ASSUME NEW seqs, NEW n \in Nat
  PROVE  \E f : Joins(f, seqs, n)
<1> DEFINE Bad == {m \in Nat : ~ \E f : Joins(f, seqs, m)}
<1>1. ASSUME Bad # {} PROVE FALSE
  <2>1. Min(Bad) \in Bad /\ \A m \in Bad : Min(Bad) <= m
    BY <1>1, LeastExists
  <2> DEFINE least == Min(Bad)
  <2> HIDE DEF least
  <2>2. least \in Nat /\ (~ \E f : Joins(f, seqs, least))
        /\ \A m \in Nat : m < least => \E f : Joins(f, seqs, m)
    BY <2>1 DEF least
  <2>3. CASE least = 0
    <3> DEFINE f == [i \in 1..0 |-> 0]
    <3>1. f = [i \in 1..0 |-> IF i = 1 THEN seqs[i] ELSE f[i - 1] \o seqs[i]]
      OBVIOUS
    <3> HIDE DEF f
    <3> QED
      BY <2>2, <2>3, <3>1 DEF Joins
  <2>4. CASE least # 0
    <3>1. least - 1 \in Nat /\ least - 1 < least /\ (least - 1) + 1 = least
      BY <2>2, <2>4
    <3>2. PICK f : Joins(f, seqs, least - 1)
      BY <2>2, <3>1
    <3> QED
      BY <2>2, <3>1, <3>2, JoinOneMore
  <2> QED
    BY <2>3, <2>4
<1> QED
  BY <1>1

\* Joins of the same sequences are the same, the longer one goes on.
LEMMA JoinsAgree ==
  ASSUME NEW seqs, NEW others, NEW f, NEW g, NEW n \in Nat, NEW m \in Nat, n <= m,
         Joins(f, seqs, n), Joins(g, others, m), \A i \in 1..n : seqs[i] = others[i]
  PROVE  \A i \in 1..n : f[i] = g[i]
<1>1. \A i \in 1..n : f[i] = IF i = 1 THEN seqs[i] ELSE f[i - 1] \o seqs[i]
  BY DEF Joins
<1>2. \A i \in 1..n : g[i] = IF i = 1 THEN others[i] ELSE g[i - 1] \o others[i]
  <2>1. \A i \in 1..m : g[i] = IF i = 1 THEN others[i] ELSE g[i - 1] \o others[i]
    BY DEF Joins
  <2> QED
    BY <2>1
<1> DEFINE Bad == {i \in 1..n : f[i] # g[i]}
<1>3. ASSUME Bad # {} PROVE FALSE
  <2>1. Bad \in SUBSET Nat
    OBVIOUS
  <2>2. Min(Bad) \in Bad /\ \A i \in Bad : Min(Bad) <= i
    BY <1>3, <2>1, LeastExists
  <2> DEFINE least == Min(Bad)
  <2> HIDE DEF least
  <2>3. least \in 1..n /\ f[least] # g[least] /\ \A i \in 1..n : i < least => f[i] = g[i]
    BY <2>2 DEF least
  <2>4. CASE least = 1
    BY <1>1, <1>2, <2>3, <2>4
  <2>5. CASE least # 1
    <3>1. least - 1 \in 1..n /\ least - 1 < least
      BY <2>3, <2>5
    <3>2. f[least - 1] = g[least - 1]
      BY <2>3, <3>1
    <3> QED
      BY <1>1, <1>2, <2>3, <2>5, <3>2
  <2> QED
    BY <2>4, <2>5
<1> QED
  BY <1>3

\* FlattenSeq starts with the first one and appends the others one by one.
LEMMA FlattenIsJoined ==
  ASSUME NEW seqs, Len(seqs) \in Nat \ {0}
  PROVE  \E f : Joins(f, seqs, Len(seqs)) /\ FlattenSeq(seqs) = f[Len(seqs)]
<1> DEFINE n == Len(seqs)
           flatten == CHOOSE f : f = [i \in 1..n |-> IF i = 1 THEN seqs[i] ELSE f[i - 1] \o seqs[i]]
<1>1. \E f : f = [i \in 1..n |-> IF i = 1 THEN seqs[i] ELSE f[i - 1] \o seqs[i]]
  BY JoinExists DEF Joins
<1>2. flatten = [i \in 1..n |-> IF i = 1 THEN seqs[i] ELSE flatten[i - 1] \o seqs[i]]
  BY <1>1
<1>3. FlattenSeq(seqs) = flatten[n]
  BY DEF FlattenSeq
<1> HIDE DEF flatten
<1> QED
  BY <1>2, <1>3 DEF Joins

LEMMA FlattenEmpty == FlattenSeq(<< >>) = << >>
BY DEF FlattenSeq

\* One sequence more is joined at the end.
LEMMA FlattenAppend ==
  ASSUME NEW S, NEW seqs \in Seq(Seq(S)), NEW e \in Seq(S)
  PROVE  FlattenSeq(Append(seqs, e)) = FlattenSeq(seqs) \o e
<1> DEFINE n == Len(seqs)
           more == Append(seqs, e)
<1>1. /\ n \in Nat /\ more \in Seq(Seq(S)) /\ Len(more) = n + 1
      /\ (\A i \in 1..n : more[i] = seqs[i]) /\ more[n + 1] = e
  OBVIOUS
<1>6. Len(seqs) = n
  OBVIOUS
<1> HIDE DEF n, more
<1>2. PICK g : Joins(g, more, n + 1) /\ FlattenSeq(more) = g[n + 1]
  <2>1. Len(more) \in Nat \ {0}
    BY <1>1
  <2>2. \E f : Joins(f, more, Len(more)) /\ FlattenSeq(more) = f[Len(more)]
    BY <2>1, FlattenIsJoined
  <2> QED
    BY <1>1, <2>2
<1>3. \A i \in 1..(n + 1) : g[i] = IF i = 1 THEN more[i] ELSE g[i - 1] \o more[i]
  BY <1>2 DEF Joins
<1>4. CASE n = 0
  <2>1. seqs = << >> /\ FlattenSeq(seqs) = << >>
    BY <1>4, <1>6, FlattenEmpty
  <2>2. FlattenSeq(more) = e
    BY <1>1, <1>2, <1>3, <1>4
  <2> QED
    BY <2>1, <2>2 DEF more
<1>5. CASE n # 0
  <2>1. PICK f : Joins(f, seqs, n) /\ FlattenSeq(seqs) = f[n]
    BY <1>1, <1>6, <1>5, FlattenIsJoined
  <2>2. f[n] = g[n]
    <3>1. n <= n + 1 /\ n + 1 \in Nat /\ \A i \in 1..n : seqs[i] = more[i]
      BY <1>1
    <3>2. n \in Nat /\ Joins(f, seqs, n) /\ Joins(g, more, n + 1)
      BY <1>1, <1>2, <2>1
    <3>3. \A i \in 1..n : f[i] = g[i]
      BY <3>1, <3>2, JoinsAgree
    <3> QED
      BY <1>1, <1>5, <3>3
  <2>3. g[n + 1] = g[n] \o e
    <3>1. n + 1 \in 1..(n + 1) /\ n + 1 # 1 /\ (n + 1) - 1 = n
      BY <1>1, <1>5
    <3> QED
      BY <1>1, <1>3, <3>1
  <2> QED
    BY <1>2, <2>1, <2>2, <2>3 DEF more
<1> QED
  BY <1>4, <1>5 DEF more

LEMMA PieceOf ==
  ASSUME NEW T, NEW s \in Seq(T), NEW m \in Nat, NEW n \in Nat,
         1 <= m, m <= n + 1, n <= Len(s)
  PROVE  /\ SubSeq(s, m, n) \in Seq(T)
         /\ Len(SubSeq(s, m, n)) = n - m + 1
         /\ \A i \in 1..(n - m + 1) : SubSeq(s, m, n)[i] = s[m + i - 1]
<1>1. \A i \in m..n : s[i] \in T
  OBVIOUS
<1>2. m \in Int /\ n \in Int
  OBVIOUS
<1>3. /\ SubSeq(s, m, n) \in Seq(T)
      /\ Len(SubSeq(s, m, n)) = IF m <= n THEN n - m + 1 ELSE 0
      /\ \A i \in 1..(n - m + 1) : SubSeq(s, m, n)[i] = s[m + i - 1]
  BY <1>1, <1>2, SubSeqProperties
<1> QED
  BY <1>3

LEMMA FrontAndLast ==
  ASSUME NEW T, NEW s \in Seq(T), s # << >>
  PROVE  \E front \in Seq(T), last \in T :
           /\ s = Append(front, last)
           /\ Len(front) = Len(s) - 1
           /\ Len(s) \in Nat
<1> DEFINE n == Len(s)
           front == SubSeq(s, 1, n - 1)
<1>1. n \in Nat /\ n >= 1 /\ s[n] \in T
  OBVIOUS
<1>2. /\ front \in Seq(T) /\ Len(front) = n - 1
      /\ \A i \in 1..(n - 1) : front[i] = s[i]
  <2>1. 1 \in Nat /\ n - 1 \in Nat /\ 1 <= 1 /\ 1 <= (n - 1) + 1 /\ n - 1 <= Len(s)
    BY <1>1
  <2>2. /\ front \in Seq(T) /\ Len(front) = (n - 1) - 1 + 1
        /\ \A i \in 1..((n - 1) - 1 + 1) : front[i] = s[1 + i - 1]
    BY <2>1, PieceOf, ZenonT(60)
  <2> HIDE DEF front
  <2> QED
    BY <1>1, <2>2
<1>3. s = Append(front, s[n])
  <2> HIDE DEF front
  <2>1. Append(front, s[n]) \in Seq(T) /\ Len(Append(front, s[n])) = n
    BY <1>1, <1>2
  <2>2. \A i \in 1..n : Append(front, s[n])[i] = s[i]
    BY <1>1, <1>2
  <2> QED
    BY <1>1, <2>1, <2>2, SeqEqual
<1> QED
  BY <1>1, <1>2, <1>3

\* All of them joined is a sequence of the same elements.
LEMMA FlattenType ==
  ASSUME NEW S, NEW seqs \in Seq(Seq(S))
  PROVE  FlattenSeq(seqs) \in Seq(S)
<1> DEFINE Bad == {n \in Nat : \E p \in Seq(Seq(S)) : Len(p) = n /\ FlattenSeq(p) \notin Seq(S)}
<1>1. ASSUME Bad # {} PROVE FALSE
  <2>1. Min(Bad) \in Bad /\ \A n \in Bad : Min(Bad) <= n
    BY <1>1, LeastExists
  <2> DEFINE least == Min(Bad)
  <2> HIDE DEF least
  <2>2. least \in Nat /\ \A n \in Nat : n < least => n \notin Bad
    <3>1. least \in Nat /\ \A n \in Bad : least <= n
      BY <2>1 DEF least
    <3> HIDE DEF Bad
    <3> QED
      BY <3>1
  <2>3. PICK p \in Seq(Seq(S)) : Len(p) = least /\ FlattenSeq(p) \notin Seq(S)
    BY <2>1 DEF least
  <2>4. p # << >>
    BY <2>3, FlattenEmpty
  <2>5. PICK front \in Seq(Seq(S)), last \in Seq(S) :
          p = Append(front, last) /\ Len(front) = Len(p) - 1
    BY <2>4, FrontAndLast
  <2>6. Len(front) \in Nat /\ Len(front) < least
    BY <2>2, <2>3, <2>5
  <2>7. FlattenSeq(front) \in Seq(S)
    BY <2>2, <2>6
  <2>8. FlattenSeq(p) = FlattenSeq(front) \o last
    BY <2>5, FlattenAppend
  <2> QED
    BY <2>3, <2>7, <2>8
<1>2. Len(seqs) \in Nat
  OBVIOUS
<1> QED
  BY <1>1, <1>2

\* The first one and then the others joined.
LEMMA FlattenPeel ==
  ASSUME NEW S, NEW seqs \in Seq(Seq(S)), seqs # << >>
  PROVE  FlattenSeq(seqs) = Head(seqs) \o FlattenSeq(Tail(seqs))
<1> DEFINE Wrong(p) == FlattenSeq(p) # Head(p) \o FlattenSeq(Tail(p))
           Bad == {n \in Nat : \E p \in Seq(Seq(S)) : Len(p) = n /\ p # << >> /\ Wrong(p)}
<1>1. ASSUME Bad # {} PROVE FALSE
  <2>1. Min(Bad) \in Bad /\ \A n \in Bad : Min(Bad) <= n
    BY <1>1, LeastExists
  <2> DEFINE least == Min(Bad)
  <2> HIDE DEF least
  <2>2. least \in Nat /\ \A n \in Nat : n < least => n \notin Bad
    <3>1. least \in Bad /\ least \in Nat /\ \A n \in Bad : least <= n
      BY <2>1 DEF least
    <3> HIDE DEF Bad
    <3> QED
      BY <3>1
  <2>3. PICK p \in Seq(Seq(S)) : Len(p) = least /\ p # << >> /\ Wrong(p)
    BY <2>1 DEF least
  <2>4. PICK front \in Seq(Seq(S)), last \in Seq(S) :
          p = Append(front, last) /\ Len(front) = Len(p) - 1
    BY <2>3, FrontAndLast
  <2>5. FlattenSeq(p) = FlattenSeq(front) \o last
    BY <2>4, FlattenAppend
  <2>6. CASE front = << >>
    <3>1. Head(p) = last /\ Tail(p) = << >>
      BY <2>4, <2>6
    <3>2. FlattenSeq(p) = last /\ last \o << >> = last
      BY <2>5, <2>6, FlattenEmpty
    <3> QED
      BY <2>3, <3>1, <3>2, FlattenEmpty
  <2>7. CASE front # << >>
    <3> DEFINE first == Head(front)
               rest == Tail(front)
    <3>1. first \in Seq(S) /\ rest \in Seq(Seq(S))
      BY <2>7
    <3>2. FlattenSeq(front) = first \o FlattenSeq(rest)
      <4>1. Len(front) \in Nat /\ Len(front) < least
        BY <2>2, <2>3, <2>4
      <4>2. Len(front) \notin Bad
        BY <2>2, <4>1
      <4> QED
        BY <2>7, <4>1, <4>2
    <3>3. FlattenSeq(rest) \in Seq(S)
      BY <3>1, FlattenType
    <3>4. Head(p) = first /\ Tail(p) = Append(rest, last)
      BY <2>4, <2>7, SMTT(30)
    <3> HIDE DEF first, rest
    <3>5. FlattenSeq(Tail(p)) = FlattenSeq(rest) \o last
      BY <3>1, <3>4, FlattenAppend
    <3>6. (first \o FlattenSeq(rest)) \o last = first \o (FlattenSeq(rest) \o last)
      BY <3>1, <3>3, ConcatAssociative, SMTT(30)
    <3> QED
      BY <2>3, <2>5, <3>2, <3>4, <3>5, <3>6
  <2> QED
    BY <2>6, <2>7
<1>2. Len(seqs) \in Nat
  OBVIOUS
<1> QED
  BY <1>1, <1>2

-----------------------------------------------------------------------------
(***************************************************************************)
(* The tokens after the first n pieces.                                    *)
(***************************************************************************)

From(pieces, n) == FlattenSeq(SubSeq(pieces, n + 1, Len(pieces)))

LEMMA FromType ==
  ASSUME NEW S, NEW p \in Seq(Seq(S)), NEW n \in 0..Len(p)
  PROVE  From(p, n) \in Seq(S)
<1>1. n + 1 \in Nat /\ Len(p) \in Nat /\ 1 <= n + 1 /\ n + 1 <= Len(p) + 1 /\ Len(p) <= Len(p)
  OBVIOUS
<1>2. SubSeq(p, n + 1, Len(p)) \in Seq(Seq(S))
  BY <1>1, PieceOf
<1> QED
  BY <1>2, FlattenType DEF From

LEMMA FromStart ==
  ASSUME NEW S, NEW p \in Seq(Seq(S))
  PROVE  From(p, 0) = FlattenSeq(p)
<1>1. 0 + 1 = 1 /\ SubSeq(p, 1, Len(p)) = p
  OBVIOUS
<1> QED
  BY <1>1 DEF From

LEMMA FromEnd ==
  ASSUME NEW S, NEW p \in Seq(Seq(S))
  PROVE  From(p, Len(p)) = << >>
<1>1. SubSeq(p, Len(p) + 1, Len(p)) = << >>
  OBVIOUS
<1> QED
  BY <1>1, FlattenEmpty DEF From

\* The next piece comes first.
LEMMA FromPeel ==
  ASSUME NEW S, NEW p \in Seq(Seq(S)), NEW n \in 0..(Len(p) - 1)
  PROVE  From(p, n) = p[n + 1] \o From(p, n + 1)
<1> DEFINE rest == SubSeq(p, n + 1, Len(p))
           after == SubSeq(p, n + 2, Len(p))
<1>1. /\ n \in Nat /\ Len(p) \in Nat /\ n + 1 \in Nat /\ n + 2 \in Nat
      /\ 1 <= n + 1 /\ n + 1 <= Len(p) + 1 /\ Len(p) <= Len(p)
      /\ 1 <= n + 2 /\ n + 2 <= Len(p) + 1
  OBVIOUS
<1>2. /\ rest \in Seq(Seq(S)) /\ Len(rest) = Len(p) - (n + 1) + 1
      /\ \A i \in 1..(Len(p) - (n + 1) + 1) : rest[i] = p[(n + 1) + i - 1]
  BY <1>1, PieceOf
<1>3. /\ after \in Seq(Seq(S)) /\ Len(after) = Len(p) - (n + 2) + 1
      /\ \A i \in 1..(Len(p) - (n + 2) + 1) : after[i] = p[(n + 2) + i - 1]
  BY <1>1, PieceOf
<1> HIDE DEF rest, after
<1>4. rest # << >> /\ rest[1] = p[n + 1]
  BY <1>1, <1>2
<1>5. Tail(rest) = after
  <2>1. /\ Tail(rest) \in Seq(Seq(S)) /\ Len(Tail(rest)) = Len(rest) - 1
        /\ \A i \in 1..Len(Tail(rest)) : Tail(rest)[i] = rest[i + 1]
    BY <1>2, <1>4, HeadTailProperties
  <2>2. Len(Tail(rest)) = Len(after)
    BY <1>1, <1>2, <1>3, <2>1
  <2>3. \A i \in 1..Len(Tail(rest)) : Tail(rest)[i] = after[i]
    <3>1. TAKE i \in 1..Len(Tail(rest))
    <3>2. i + 1 \in 1..(Len(p) - (n + 1) + 1) /\ i \in 1..(Len(p) - (n + 2) + 1)
      BY <1>1, <1>2, <2>1, <3>1
    <3>3. rest[i + 1] = p[(n + 1) + (i + 1) - 1] /\ after[i] = p[(n + 2) + i - 1]
      BY <1>2, <1>3, <3>2
    <3>4. (n + 1) + (i + 1) - 1 = (n + 2) + i - 1
      BY <1>1, <3>1
    <3> QED
      BY <2>1, <3>1, <3>3, <3>4
  <2> QED
    BY <1>3, <2>1, <2>2, <2>3, SeqEqual
<1>6. FlattenSeq(rest) = Head(rest) \o FlattenSeq(Tail(rest))
  BY <1>2, <1>4, FlattenPeel
<1>7. Head(rest) = p[n + 1]
  BY <1>2, <1>4
<1>8. (n + 1) + 1 = n + 2
  BY <1>1
<1> QED
  BY <1>5, <1>6, <1>7, <1>8 DEF From, rest, after

-----------------------------------------------------------------------------
(***************************************************************************)
(* The tables of the fields.                                               *)
(***************************************************************************)

Parts == {"data_info", "CalcException"}
Structs == Args \cup Results \cup Parts

TableOK(s, table) ==
  /\ DOMAIN table \subseteq 0..4
  /\ \A fid \in DOMAIN table :
       /\ table[fid].ttype \in TTypes
       /\ table[fid].ttype = "list" => table[fid].of \in {"double", "data_info"}
       /\ table[fid].ttype = "struct" => table[fid].of = "CalcException"
       /\ s \in Parts => table[fid].ttype \in Scalars

LEMMA ResultOK ==
  ASSUME NEW s \in Results, NEW type, type \in {Scalar("string"), Scalar("i16"), ListOf("double")}
  PROVE  TableOK(s, Result(type)) /\ DOMAIN Result(type) = {0, 1}
<1>1. s \notin Parts
  BY DEF Results, Parts
<1>2. /\ DOMAIN Result(type) = {0, 1} /\ Result(type)[0] = type
      /\ Result(type)[1] = StructOf("CalcException")
  BY DEF Result
<1>3. type.ttype \in {"string", "i16"} \/ (type.ttype = "list" /\ type.of = "double")
  BY DEF Scalar, ListOf
<1>4. StructOf("CalcException").ttype = "struct" /\ StructOf("CalcException").of = "CalcException"
  BY DEF StructOf
<1> HIDE DEF Result
<1> QED
  BY <1>1, <1>2, <1>3, <1>4 DEF TableOK, TTypes, Scalars

LEMMA TablesOK ==
  \A s \in Structs : TableOK(s, Fields[s]) /\ (s \in Results => DOMAIN Fields[s] = {0, 1})
<1>1. /\ Fields["getLogistic_result"] = getLogistic_result
      /\ Fields["getWeibull_result"] = getWeibull_result
      /\ Fields["trainModel_result"] = trainModel_result
      /\ Fields["predict_result"] = predict_result
      /\ Fields["getLogistic_args"] = getLogistic_args
      /\ Fields["getWeibull_args"] = getWeibull_args
      /\ Fields["trainModel_args"] = trainModel_args
      /\ Fields["predict_args"] = predict_args
      /\ Fields["data_info"] = data_info
      /\ Fields["CalcException"] = CalcException
  BY DEF Fields
<1>2. ASSUME NEW s \in Results
      PROVE  TableOK(s, Fields[s]) /\ DOMAIN Fields[s] = {0, 1}
  <2>1. \E type \in {Scalar("string"), Scalar("i16"), ListOf("double")} : Fields[s] = Result(type)
    BY <1>1 DEF Results, getLogistic_result, getWeibull_result, trainModel_result, predict_result
  <2> QED
    BY <2>1, ResultOK
<1>3. ASSUME NEW s \in {"getLogistic_args", "getWeibull_args"}
      PROVE  TableOK(s, Fields[s])
  <2>1. Fields[s] = <<ListOf("double")>> /\ s \notin Parts
    BY <1>1 DEF getLogistic_args, getWeibull_args, Parts
  <2> QED
    BY <2>1 DEF TableOK, ListOf, TTypes
<1>4. ASSUME NEW s \in {"trainModel_args", "predict_args"}
      PROVE  TableOK(s, Fields[s])
  <2>1. Fields[s] = <<Scalar("string"), ListOf("data_info"), ListOf("double")>> /\ s \notin Parts
    BY <1>1 DEF trainModel_args, predict_args, Parts
  <2> QED
    BY <2>1 DEF TableOK, Scalar, ListOf, TTypes, Scalars
<1>5. TableOK("data_info", Fields["data_info"])
  BY <1>1 DEF data_info, TableOK, Scalar, TTypes, Scalars
<1>6. TableOK("CalcException", Fields["CalcException"])
  BY <1>1 DEF CalcException, TableOK, Scalar, TTypes, Scalars
<1>7. Structs = Results \cup {"getLogistic_args", "getWeibull_args"}
                  \cup {"trainModel_args", "predict_args"} \cup {"data_info"} \cup {"CalcException"}
  BY DEF Structs, Args, Parts
<1>8. \A s \in Structs \ Results : s \notin Results
  OBVIOUS
<1> QED
  BY <1>2, <1>3, <1>4, <1>5, <1>6, <1>7

LEMMA PartTables ==
  /\ DOMAIN data_info = 1..4 /\ DOMAIN Fields["data_info"] = 1..4
  /\ Required("data_info") = 1..4 /\ Required("CalcException") = {}
  /\ OnWire("data_info") = "struct" /\ OnWire("double") = "double"
  /\ "data_info" \in Structs /\ "CalcException" \in Structs
  /\ "data_info" \notin Args \cup Results /\ "CalcException" \notin Args \cup Results
<1>1. Fields["data_info"] = data_info /\ DOMAIN data_info = 1..4
  BY DEF Fields, data_info
<1>2. "data_info" \in DOMAIN Fields /\ "double" \notin DOMAIN Fields
  BY DEF Fields
<1>3. "CalcException" \notin Args \cup {"data_info"} /\ "CalcException" \notin Results
      /\ "data_info" \notin Args \cup Results
  BY DEF Args, Results
<1>4. Required("data_info") = 1..4 /\ Required("CalcException") = {}
  BY <1>1, <1>3 DEF Required
<1>5. OnWire("data_info") = "struct" /\ OnWire("double") = "double"
  BY <1>2 DEF OnWire
<1>6. "data_info" \in Structs /\ "CalcException" \in Structs
  BY DEF Structs, Parts
<1> QED
  BY <1>1, <1>3, <1>4, <1>5, <1>6

-----------------------------------------------------------------------------
(***************************************************************************)
(* What is open of a value after each of its tokens.  Open is recursive:   *)
(* that its recursion defines a function is shown for one token more at a  *)
(* time.                                                                   *)
(***************************************************************************)

NextOpen(todo, k) == IF todo = << >> THEN << >> ELSE After(todo, k)
Opens(f, t, tokens, n) ==
  f = [i \in 0..n |-> IF i = 0 THEN <<t>> ELSE NextOpen(f[i - 1], tokens[i])]

LEMMA OpenOneMore ==
  ASSUME NEW t, NEW tokens, NEW n \in Nat, NEW f, Opens(f, t, tokens, n)
  PROVE  \E g : Opens(g, t, tokens, n + 1)
<1> DEFINE g == [i \in 0..(n + 1) |->
                  IF i <= n THEN f[i] ELSE NextOpen(f[i - 1], tokens[i])]
<1>1. \A i \in 0..n : f[i] = IF i = 0 THEN <<t>> ELSE NextOpen(f[i - 1], tokens[i])
  BY DEF Opens
<1>2. ASSUME NEW i \in 0..(n + 1)
      PROVE  g[i] = IF i = 0 THEN <<t>> ELSE NextOpen(g[i - 1], tokens[i])
  <2>1. CASE i = 0
    BY <1>1, <2>1
  <2>2. CASE i # 0
    <3>1. g[i - 1] = f[i - 1]
      BY <2>2
    <3>2. CASE i <= n
      <4>1. i \in 0..n /\ g[i] = f[i]
        BY <3>2
      <4> QED
        BY <1>1, <2>2, <3>1, <4>1
    <3>3. CASE ~(i <= n)
      BY <2>2, <3>1, <3>3
    <3> QED
      BY <3>2, <3>3
  <2> QED
    BY <2>1, <2>2
<1>3. g = [i \in 0..(n + 1) |-> g[i]]
  OBVIOUS
<1> HIDE DEF g
<1>4. g = [i \in 0..(n + 1) |-> IF i = 0 THEN <<t>> ELSE NextOpen(g[i - 1], tokens[i])]
  BY <1>2, <1>3
<1> QED
  BY <1>4 DEF Opens

LEMMA OpenExists ==
  ASSUME NEW t, NEW tokens, NEW n \in Nat
  PROVE  \E f : Opens(f, t, tokens, n)
<1> DEFINE Bad == {m \in Nat : ~ \E f : Opens(f, t, tokens, m)}
<1>1. ASSUME Bad # {} PROVE FALSE
  <2>1. Min(Bad) \in Bad /\ \A m \in Bad : Min(Bad) <= m
    BY <1>1, LeastExists
  <2> DEFINE least == Min(Bad)
  <2> HIDE DEF least
  <2>2. least \in Nat /\ (~ \E f : Opens(f, t, tokens, least))
        /\ \A m \in Nat : m < least => \E f : Opens(f, t, tokens, m)
    BY <2>1 DEF least
  <2>3. CASE least = 0
    <3> DEFINE f == [i \in 0..0 |-> <<t>>]
    <3>1. \A i \in 0..0 : i = 0
      OBVIOUS
    <3>2. f = [i \in 0..0 |-> IF i = 0 THEN <<t>> ELSE NextOpen(f[i - 1], tokens[i])]
      BY <3>1
    <3> HIDE DEF f
    <3> QED
      BY <2>2, <2>3, <3>2 DEF Opens
  <2>4. CASE least # 0
    <3>1. least - 1 \in Nat /\ least - 1 < least /\ (least - 1) + 1 = least
      BY <2>2, <2>4
    <3>2. PICK f : Opens(f, t, tokens, least - 1)
      BY <2>2, <3>1
    <3> QED
      BY <2>2, <3>1, <3>2, OpenOneMore
  <2> QED
    BY <2>3, <2>4
<1> QED
  BY <1>1

LEMMA OpenIs ==
  ASSUME NEW t, NEW tokens, Len(tokens) \in Nat
  PROVE  Opens(Open(t, tokens), t, tokens, Len(tokens))
<1> DEFINE n == Len(tokens)
           Is(f) == f = [i \in 0..n |->
                      IF i = 0 THEN <<t>>
                      ELSE IF f[i - 1] = << >> THEN << >> ELSE After(f[i - 1], tokens[i])]
           open == CHOOSE f : Is(f)
<1>1. \E f : Is(f)
  <2>1. PICK f : Opens(f, t, tokens, n)
    BY OpenExists
  <2>2. Is(f)
    BY <2>1 DEF Opens, NextOpen
  <2> QED
    BY <2>2
<1>2. Is(open)
  BY <1>1
<1>3. Open(t, tokens) = open
  BY DEF Open
<1> HIDE DEF open
<1> QED
  BY <1>2, <1>3 DEF Opens, NextOpen

\* What is open depends on the tokens so far, not on those that follow.
LEMMA OpenAgrees ==
  ASSUME NEW t, NEW ks, NEW ls, Len(ks) \in Nat, Len(ls) \in Nat,
         NEW l \in Nat, l <= Len(ks), l <= Len(ls), \A i \in 1..l : ks[i] = ls[i]
  PROVE  \A i \in 0..l : Open(t, ks)[i] = Open(t, ls)[i]
<1> DEFINE f == Open(t, ks)
           g == Open(t, ls)
           n == Len(ks)
           m == Len(ls)
<1>4. Opens(f, t, ks, n) /\ Opens(g, t, ls, m)
  BY OpenIs
<1>5. n \in Nat /\ m \in Nat /\ l <= n /\ l <= m
  OBVIOUS
<1> HIDE DEF f, g, n, m
<1>1. \A i \in 0..l : f[i] = IF i = 0 THEN <<t>> ELSE NextOpen(f[i - 1], ks[i])
  <2>1. \A i \in 0..n : f[i] = IF i = 0 THEN <<t>> ELSE NextOpen(f[i - 1], ks[i])
    BY <1>4 DEF Opens
  <2> QED
    BY <1>5, <2>1
<1>2. \A i \in 0..l : g[i] = IF i = 0 THEN <<t>> ELSE NextOpen(g[i - 1], ls[i])
  <2>1. \A i \in 0..m : g[i] = IF i = 0 THEN <<t>> ELSE NextOpen(g[i - 1], ls[i])
    BY <1>4 DEF Opens
  <2> QED
    BY <1>5, <2>1
<1> DEFINE Bad == {i \in 0..l : f[i] # g[i]}
<1>3. ASSUME Bad # {} PROVE FALSE
  <2>1. Bad \in SUBSET Nat
    OBVIOUS
  <2>2. Min(Bad) \in Bad /\ \A i \in Bad : Min(Bad) <= i
    BY <1>3, <2>1, LeastExists
  <2> DEFINE least == Min(Bad)
  <2> HIDE DEF least
  <2>3. least \in 0..l /\ f[least] # g[least] /\ \A i \in 0..l : i < least => f[i] = g[i]
    <3>1. least \in Bad /\ \A i \in Bad : least <= i
      BY <2>2 DEF least
    <3>2. least \in 0..l /\ f[least] # g[least]
      BY <3>1
    <3>3. ASSUME NEW i \in 0..l, i < least, f[i] # g[i] PROVE FALSE
      <4>1. least <= i
        BY <3>1, <3>3
      <4> QED
        BY <3>2, <3>3, <4>1
    <3> QED
      BY <3>2, <3>3
  <2>4. CASE least = 0
    BY <1>1, <1>2, <2>3, <2>4
  <2>5. CASE least # 0
    <3>1. least - 1 \in 0..l /\ least - 1 < least /\ least \in 1..l
      BY <2>3, <2>5
    <3>2. f[least - 1] = g[least - 1]
      BY <2>3, <3>1
    <3> QED
      BY <1>1, <1>2, <2>3, <2>5, <3>1, <3>2
  <2> QED
    BY <2>4, <2>5
<1> QED
  BY <1>3 DEF f, g

IsScalar(t, v) == \E k \in Int : v = <<ValueToken(t, k)>>

\* An encoded value starts with a token that fits, a scalar is one token.
LEMMA EncodesHead ==
  ASSUME NEW t, NEW ks \in Seq(Token), Encodes(t, ks)
  PROVE  /\ Len(ks) \in Nat /\ Len(ks) # 0 /\ ks[1] \in Token /\ Fits(t, ks[1])
         /\ t \in Scalars => Len(ks) = 1
<1> DEFINE n == Len(ks)
           open == Open(t, ks)
<1>1. n \in Nat /\ DOMAIN ks = 1..n
  OBVIOUS
<1>2. \A i \in 0..n : open[i] = IF i = 0 THEN <<t>> ELSE NextOpen(open[i - 1], ks[i])
  BY <1>1, OpenIs DEF Opens
<1>3. open[n] = << >> /\ \A i \in 1..n : open[i - 1] # << >> /\ Fits(Head(open[i - 1]), ks[i])
  BY <1>1 DEF Encodes
<1> HIDE DEF open
<1>4. open[0] = <<t>> /\ n # 0
  <2>1. 0 \in 0..n
    BY <1>1
  <2>2. open[0] = <<t>>
    BY <1>2, <2>1
  <2>3. <<t>> # << >>
    OBVIOUS
  <2> QED
    BY <1>3, <2>2, <2>3
<1>5. ks[1] \in Token
  BY <1>1, <1>4
<1>6. Fits(t, ks[1])
  <2>1. 1 \in 1..n /\ 1 - 1 = 0
    BY <1>1, <1>4
  <2>2. Fits(Head(open[0]), ks[1])
    BY <1>3, <2>1
  <2>3. Head(<<t>>) = t
    OBVIOUS
  <2> QED
    BY <1>4, <2>2, <2>3
<1>7. ASSUME t \in Scalars PROVE n = 1
  <2>1. t # "struct" /\ t # "list"
    BY <1>7 DEF Scalars
  <2>2. open[1] = NextOpen(open[0], ks[1])
    <3>1. 1 \in 0..n /\ 1 # 0 /\ 1 - 1 = 0
      BY <1>1, <1>4
    <3> QED
      BY <1>2, <3>1
  <2>3. After(<<t>>, ks[1]) = << >>
    <3>1. Head(<<t>>) = t /\ Tail(<<t>>) = << >>
      OBVIOUS
    <3> QED
      BY <2>1, <3>1 DEF After
  <2>4. open[1] = << >>
    BY <1>4, <2>2, <2>3 DEF NextOpen
  <2>5. ASSUME n # 1 PROVE FALSE
    <3>1. 2 \in 1..n /\ 2 - 1 = 1
      BY <1>1, <1>4, <2>5
    <3> QED
      BY <1>3, <2>4, <3>1
  <2> QED
    BY <2>5
<1> QED
  BY <1>1, <1>4, <1>5, <1>6, <1>7

\* A token that fits a scalar is its value.
LEMMA FitsScalar ==
  ASSUME NEW t \in Scalars, NEW k \in Token, Fits(t, k)
  PROVE  k.number \in Int /\ k = ValueToken(t, k.number)
<1>1. t # "struct" /\ t # "list"
  BY DEF Scalars
<1>2. k.kind = "value" /\ k.ttype = t
  BY <1>1 DEF Fits
<1>3. k \in [kind : {"value"}, ttype : Scalars, number : Int]
  BY <1>2 DEF Token, Stop
<1> QED
  BY <1>2, <1>3 DEF ValueToken

LEMMA EncodesScalar ==
  ASSUME NEW t \in Scalars, NEW ks \in Seq(Token), Encodes(t, ks)
  PROVE  IsScalar(t, ks)
<1>1. Len(ks) = 1 /\ ks[1] \in Token /\ Fits(t, ks[1])
  BY EncodesHead
<1>2. ks = <<ks[1]>>
  BY <1>1
<1>3. ks[1].number \in Int /\ ks[1] = ValueToken(t, ks[1].number)
  BY <1>1, FitsScalar
<1>4. ks = <<ValueToken(t, ks[1].number)>>
  BY <1>2, <1>3
<1> QED
  BY <1>3, <1>4 DEF IsScalar

-----------------------------------------------------------------------------
(***************************************************************************)
(* What arrives of the tokens that are sent: all, or a proper beginning    *)
(* when the connection got lost.                                           *)
(***************************************************************************)

Arrives(w, how, tokens) ==
  /\ how = "lost" => Len(w) < Len(tokens)
  /\ how # "lost" => Len(w) = Len(tokens)
  /\ \A i \in 1..Len(w) : w[i] = tokens[i]

\* The first one that is read is the first one that was sent.
LEMMA ArrivesHead ==
  ASSUME NEW how, NEW w \in Seq(Token), NEW k \in Token, NEW rest \in Seq(Token),
         w # << >>, Arrives(w, how, <<k>> \o rest)
  PROVE  /\ Head(w) = k /\ Tail(w) \in Seq(Token) /\ Len(w) \in Nat /\ Len(w) # 0
         /\ Arrives(Tail(w), how, rest)
<1> DEFINE all == <<k>> \o rest
           after == Tail(w)
<1>1. /\ Len(all) = Len(rest) + 1 /\ all[1] = k /\ Len(rest) \in Nat
      /\ \A i \in 1..Len(rest) : all[i + 1] = rest[i]
  OBVIOUS
<1>2. /\ Len(w) \in Nat /\ Len(w) # 0 /\ Head(w) = w[1]
      /\ after \in Seq(Token) /\ Len(after) = Len(w) - 1
      /\ \A i \in 1..Len(after) : after[i] = w[i + 1]
  OBVIOUS
<1>3. /\ how = "lost" => Len(w) < Len(all)
      /\ how # "lost" => Len(w) = Len(all)
      /\ \A i \in 1..Len(w) : w[i] = all[i]
  BY DEF Arrives
<1> HIDE DEF all, after
<1>4. Head(w) = k
  BY <1>1, <1>2, <1>3
<1>5. /\ how = "lost" => Len(after) < Len(rest)
      /\ how # "lost" => Len(after) = Len(rest)
  BY <1>1, <1>2, <1>3
<1>6. \A i \in 1..Len(after) : after[i] = rest[i]
  <2>1. TAKE i \in 1..Len(after)
  <2>2. i + 1 \in 1..Len(w) /\ i \in 1..Len(rest)
    BY <1>1, <1>2, <1>3, <2>1
  <2>3. after[i] = w[i + 1] /\ w[i + 1] = all[i + 1] /\ all[i + 1] = rest[i]
    BY <1>1, <1>2, <1>3, <2>1, <2>2
  <2> QED
    BY <2>3
<1> QED
  BY <1>2, <1>4, <1>5, <1>6 DEF Arrives, after

\* Of a value whose first m tokens have come the rest follows.
LEMMA ArrivesAfter ==
  ASSUME NEW how, NEW w \in Seq(Token), NEW ks \in Seq(Token), NEW rest \in Seq(Token),
         Len(ks) <= Len(w), Arrives(w, how, ks \o rest)
  PROVE  /\ SubSeq(w, Len(ks) + 1, Len(w)) \in Seq(Token)
         /\ Arrives(SubSeq(w, Len(ks) + 1, Len(w)), how, rest)
<1> DEFINE n == Len(ks)
           m == Len(w)
           all == ks \o rest
           after == SubSeq(w, n + 1, m)
<1>1. /\ n \in Nat /\ Len(rest) \in Nat /\ Len(all) = n + Len(rest)
      /\ \A i \in 1..Len(rest) : all[n + i] = rest[i]
  OBVIOUS
<1>2. m \in Nat /\ n <= m
  OBVIOUS
<1>3. /\ after \in Seq(Token) /\ Len(after) = m - (n + 1) + 1
      /\ \A i \in 1..(m - (n + 1) + 1) : after[i] = w[(n + 1) + i - 1]
  <2>1. n + 1 \in Nat /\ m \in Nat /\ 1 <= n + 1 /\ n + 1 <= m + 1 /\ m <= Len(w)
    BY <1>1, <1>2
  <2> QED
    BY <2>1, PieceOf
<1>4. /\ how = "lost" => m < Len(all)
      /\ how # "lost" => m = Len(all)
      /\ \A i \in 1..m : w[i] = all[i]
  BY DEF Arrives
<1> HIDE DEF n, m, all, after
<1>5. /\ how = "lost" => Len(after) < Len(rest)
      /\ how # "lost" => Len(after) = Len(rest)
  BY <1>1, <1>2, <1>3, <1>4
<1>6. \A i \in 1..Len(after) : after[i] = rest[i]
  <2>1. TAKE i \in 1..Len(after)
  <2>2. i \in 1..(m - (n + 1) + 1) /\ (n + 1) + i - 1 = n + i /\ n + i \in 1..m
    BY <1>1, <1>2, <1>3, <2>1, SMTT(30)
  <2>4. Len(after) <= Len(rest)
    <3>1. Len(after) \in Nat
      BY <1>3
    <3> QED
      BY <1>1, <1>5, <3>1
  <2>5. i \in 1..Len(rest)
    BY <1>1, <1>3, <2>1, <2>4
  <2>3. after[i] = w[n + i] /\ w[n + i] = all[n + i] /\ all[n + i] = rest[i]
    BY <1>1, <1>3, <1>4, <2>2, <2>5
  <2> QED
    BY <2>3
<1> QED
  BY <1>3, <1>5, <1>6 DEF Arrives, after, n, m

\* skip gets past exactly one value, or the connection got lost in it.
LEMMA SkipArrives ==
  ASSUME NEW how, NEW t, NEW w \in Seq(Token), NEW ks \in Seq(Token), NEW rest \in Seq(Token),
         Encodes(t, ks), Arrives(w, how, ks \o rest)
  PROVE  LET r == Skipped(t, w) IN
         \/ r.status = "ok" /\ r.rest \in Seq(Token) /\ Arrives(r.rest, how, rest)
         \/ r.status = "broken" /\ how = "lost"
<1> DEFINE n == Len(ks)
           m == Len(w)
           f == Open(t, ks)
           g == Open(t, w)
           ends == {i \in 0..m : g[i] = << >>}
<1>1. n \in Nat /\ m \in Nat /\ DOMAIN ks = 1..n
  OBVIOUS
<1>2. Opens(f, t, ks, n) /\ Opens(g, t, w, m)
  BY <1>1, OpenIs
<1>3. f[n] = << >> /\ \A i \in 1..n : f[i - 1] # << >>
  BY <1>1 DEF Encodes
<1>4. /\ Len(ks \o rest) = n + Len(rest) /\ Len(rest) \in Nat
      /\ \A i \in 1..n : (ks \o rest)[i] = ks[i]
  OBVIOUS
<1>5. /\ how # "lost" => m = n + Len(rest)
      /\ \A i \in 1..m : w[i] = (ks \o rest)[i]
  BY <1>4 DEF Arrives
<1>6. Skipped(t, w) = IF ends = {} THEN Throws("broken") ELSE Got(0, SubSeq(w, Min(ends) + 1, m))
  BY DEF Skipped, Skip
<1> HIDE DEF f, g
<1>7. CASE n <= m
  <2>1. \A i \in 1..n : ks[i] = w[i]
    BY <1>1, <1>4, <1>5, <1>7
  <2>2. \A i \in 0..n : f[i] = g[i]
    BY <1>1, <1>7, <2>1, OpenAgrees DEF f, g
  <2>3. n \in ends
    BY <1>1, <1>3, <1>7, <2>2
  <2>4. ASSUME NEW i \in ends PROVE n <= i
    <3>1. i \in 0..m /\ g[i] = << >>
      OBVIOUS
    <3>2. ASSUME i < n PROVE FALSE
      <4>1. i + 1 \in 1..n /\ (i + 1) - 1 = i /\ i \in 0..n
        BY <1>1, <3>1, <3>2
      <4>2. f[i] # << >>
        BY <1>3, <4>1
      <4> QED
        BY <2>2, <3>1, <4>1, <4>2
    <3> QED
      BY <1>1, <3>1, <3>2
  <2>5. Min(ends) = n
    <3>1. ends \in SUBSET Nat
      BY <1>1
    <3> HIDE DEF ends
    <3>2. Min(ends) \in ends /\ \A i \in ends : Min(ends) <= i
      BY <2>3, <3>1, LeastExists
    <3>3. Min(ends) \in Nat /\ Min(ends) <= n /\ n <= Min(ends)
      BY <2>3, <2>4, <3>1, <3>2
    <3> QED
      BY <1>1, <3>3
  <2>6. Skipped(t, w) = Got(0, SubSeq(w, n + 1, m))
    BY <1>6, <2>3, <2>5
  <2>7. SubSeq(w, n + 1, m) \in Seq(Token) /\ Arrives(SubSeq(w, n + 1, m), how, rest)
    BY <1>7, ArrivesAfter
  <2> QED
    BY <2>6, <2>7 DEF Got
<1>8. CASE ~ (n <= m)
  <2>1. m < n /\ how = "lost"
    BY <1>1, <1>4, <1>5, <1>8
  <2>2. \A i \in 1..m : ks[i] = w[i]
    BY <1>1, <1>4, <1>5, <2>1
  <2>3. \A i \in 0..m : f[i] = g[i]
    <3>1. Len(ks) \in Nat /\ Len(w) \in Nat /\ m \in Nat /\ m <= Len(ks) /\ m <= Len(w)
      BY <1>1, <2>1
    <3> HIDE DEF m
    <3>2. \A i \in 0..m : Open(t, ks)[i] = Open(t, w)[i]
      BY <2>2, <3>1, OpenAgrees
    <3> QED
      BY <3>2 DEF f, g
  <2>4. ends = {}
    <3>1. ASSUME NEW i \in 0..m PROVE g[i] # << >>
      <4>1. i + 1 \in 1..n /\ (i + 1) - 1 = i
        BY <1>1, <2>1
      <4> QED
        BY <1>3, <2>3, <4>1
    <3> QED
      BY <3>1
  <2> QED
    BY <1>6, <2>1, <2>4 DEF Throws
<1> QED
  BY <1>7, <1>8

-----------------------------------------------------------------------------
(***************************************************************************)
(* The tokens of the fields, of the members of a part and of the elements  *)
(* of a list, one piece each.                                              *)
(***************************************************************************)

FieldPieces(fields) ==
  [i \in DOMAIN fields |-> <<Heading(fields[i])>> \o Tokens(fields[i].ttype, fields[i].value)]
PartPieces(fields) == [i \in DOMAIN fields |-> <<Heading(fields[i])>> \o fields[i].value]
ElementPieces(v) ==
  [i \in DOMAIN v.elements |->
     IF v.of = "struct" THEN PartTokens(v.elements[i]) ELSE v.elements[i]]

LEMMA FunctionIsSeq ==
  ASSUME NEW S, NEW n \in Nat, NEW f, f = [i \in 1..n |-> f[i]], \A i \in 1..n : f[i] \in S
  PROVE  f \in Seq(S) /\ Len(f) = n /\ DOMAIN f = 1..n
<1>1. f \in [1..n -> S]
  OBVIOUS
<1> QED
  BY <1>1

LEMMA StopType == Stop \in Token /\ <<Stop>> \in Seq(Token)
BY DEF Token

LEMMA HeadingType ==
  ASSUME NEW f, f.fid \in Int, f.ttype \in TTypes
  PROVE  /\ Heading(f) \in Token /\ Heading(f) # Stop /\ Heading(f).kind = "field"
         /\ Heading(f).fid = f.fid /\ Heading(f).ttype = f.ttype
<1>1. /\ Heading(f).kind = "field" /\ Heading(f).fid = f.fid /\ Heading(f).ttype = f.ttype
      /\ Heading(f) \in [kind : {"field"}, ttype : TTypes, fid : Int]
  BY DEF Heading
<1>2. Stop.kind = "stop"
  BY DEF Stop
<1> QED
  BY <1>1, <1>2 DEF Token

LEMMA PartPiecesType ==
  ASSUME NEW e \in Seq(PartField)
  PROVE  /\ PartPieces(e) \in Seq(Seq(Token)) /\ Len(PartPieces(e)) = Len(e)
         /\ PartTokens(e) = From(PartPieces(e), 0) \o <<Stop>>
         /\ From(PartPieces(e), 0) \in Seq(Token)
         /\ PartTokens(e) \in Seq(Token) /\ PartTokens(e) # << >>
<1> DEFINE n == Len(e)
           p == PartPieces(e)
<1>1. n \in Nat /\ DOMAIN e = 1..n
  OBVIOUS
<1>2. p = [i \in 1..n |-> p[i]] /\ \A i \in 1..n : p[i] = <<Heading(e[i])>> \o e[i].value
  BY <1>1 DEF PartPieces
<1>3. ASSUME NEW i \in 1..n PROVE p[i] \in Seq(Token)
  <2>1. e[i] \in PartField
    BY <1>1
  <2>2. e[i].fid \in Int /\ e[i].ttype \in TTypes /\ e[i].value \in Seq(Token)
    BY <2>1 DEF PartField
  <2>3. <<Heading(e[i])>> \in Seq(Token)
    BY <2>2, HeadingType
  <2>4. <<Heading(e[i])>> \o e[i].value \in Seq(Token)
    BY <2>2, <2>3, ConcatProperties
  <2>5. p[i] = <<Heading(e[i])>> \o e[i].value
    BY <1>2
  <2> QED
    BY <2>4, <2>5
<1> HIDE DEF p
<1>4. p \in Seq(Seq(Token)) /\ Len(p) = n
  BY <1>1, <1>2, <1>3, FunctionIsSeq
<1>5. PartTokens(e) = FlattenSeq(p) \o <<Stop>>
  BY DEF PartTokens, PartPieces, p
<1>6. From(p, 0) = FlattenSeq(p) /\ From(p, 0) \in Seq(Token)
  BY <1>4, FromStart, FlattenType
<1>7. PartTokens(e) \in Seq(Token) /\ PartTokens(e) # << >>
  <2>1. \A s \in Seq(Token) : s \o <<Stop>> \in Seq(Token) /\ s \o <<Stop>> # << >>
    BY StopType
  <2> QED
    BY <1>5, <1>6, <2>1
<1> QED
  BY <1>4, <1>5, <1>6, <1>7 DEF p

\* Elements that are structs, and others.
TypedElements(v) ==
  /\ v.of \in TTypes
  /\ v.of = "struct" => v.elements \in Seq(Seq(PartField))
  /\ v.of # "struct" => v.elements \in Seq(Seq(Token))

LEMMA ElementPiecesType ==
  ASSUME NEW v, TypedElements(v)
  PROVE  /\ ElementPieces(v) \in Seq(Seq(Token)) /\ Len(ElementPieces(v)) = Len(v.elements)
         /\ Len(v.elements) \in Nat
         /\ ElementTokens(v) = From(ElementPieces(v), 0)
         /\ ElementTokens(v) \in Seq(Token)
         /\ ListToken(v) \in Token
<1> DEFINE n == Len(v.elements)
           p == ElementPieces(v)
<1>1. n \in Nat /\ DOMAIN v.elements = 1..n
  BY DEF TypedElements
<1>2. p = [i \in 1..n |-> p[i]]
      /\ \A i \in 1..n : p[i] = IF v.of = "struct" THEN PartTokens(v.elements[i]) ELSE v.elements[i]
  BY <1>1 DEF ElementPieces
<1>3. ASSUME NEW i \in 1..n PROVE p[i] \in Seq(Token)
  <2>1. CASE v.of = "struct"
    <3>1. v.elements[i] \in Seq(PartField)
      BY <1>1, <2>1 DEF TypedElements
    <3> QED
      BY <1>2, <2>1, <3>1, PartPiecesType
  <2>2. CASE v.of # "struct"
    <3>1. v.elements[i] \in Seq(Token)
      BY <1>1, <2>2 DEF TypedElements
    <3> QED
      BY <1>2, <2>2, <3>1
  <2> QED
    BY <2>1, <2>2
<1> HIDE DEF p
<1>4. p \in Seq(Seq(Token)) /\ Len(p) = n
  BY <1>1, <1>2, <1>3, FunctionIsSeq
<1>5. ElementTokens(v) = FlattenSeq(p)
  BY DEF ElementTokens, ElementPieces, p
<1>6. From(p, 0) = FlattenSeq(p) /\ From(p, 0) \in Seq(Token)
  BY <1>4, FromStart, FlattenType
<1>7. ListToken(v) \in [kind : {"list"}, of : TTypes, size : Nat]
  BY <1>1 DEF ListToken, TypedElements
<1> QED
  BY <1>1, <1>4, <1>5, <1>6, <1>7 DEF p, Token

-----------------------------------------------------------------------------
(***************************************************************************)
(* The fields that can be sent: what struct s knows of them fits, the      *)
(* others can be skipped.                                                  *)
(***************************************************************************)

GoodPart(s, e) ==
  /\ e \in Seq(PartField)
  /\ \A i \in DOMAIN e : /\ WellTyped(s, e[i]) => IsScalar(e[i].ttype, e[i].value)
                         /\ ~ WellTyped(s, e[i]) => Encodes(e[i].ttype, e[i].value)
GoodElement(of, e) ==
  /\ Len(e) # 0 /\ Fits(of, e[1])
  /\ of \in Scalars => IsScalar(of, e)
GoodList(v) ==
  /\ TypedElements(v)
  /\ \A i \in DOMAIN v.elements :
       /\ v.of = "struct" => GoodPart("data_info", v.elements[i])
       /\ v.of # "struct" => GoodElement(v.of, v.elements[i])
Good(s, f) ==
  /\ f.fid \in Int /\ f.ttype \in TTypes
  /\ Tokens(f.ttype, f.value) \in Seq(Token)
  /\ ~ WellTyped(s, f) => Encodes(f.ttype, Tokens(f.ttype, f.value))
  /\ WellTyped(s, f) => /\ f.ttype \in Scalars => IsScalar(f.ttype, f.value)
                        /\ f.ttype = "struct" => GoodPart("CalcException", f.value)
                        /\ f.ttype = "list" => GoodList(f.value)

LEMMA GoodPartOf ==
  ASSUME NEW s \in Parts, NEW e, IsPart(e)
  PROVE  GoodPart(s, e)
<1>1. e \in Seq(PartField) /\ \A i \in DOMAIN e : Encodes(e[i].ttype, e[i].value)
  BY DEF IsPart
<1>2. ASSUME NEW i \in DOMAIN e, WellTyped(s, e[i])
      PROVE  IsScalar(e[i].ttype, e[i].value)
  <2>1. s \in Structs
    BY DEF Structs
  <2>2. e[i].ttype \in Scalars
    BY <1>2, <2>1, TablesOK DEF TableOK, WellTyped
  <2>3. e[i].value \in Seq(Token)
    <3>1. e[i] \in PartField
      BY <1>1, <1>2
    <3> QED
      BY <3>1 DEF PartField
  <2> QED
    BY <1>1, <1>2, <2>2, <2>3, EncodesScalar
<1> QED
  BY <1>1, <1>2 DEF GoodPart

LEMMA GoodListOf ==
  ASSUME NEW v, IsList(v)
  PROVE  GoodList(v)
<1>1. TypedElements(v)
  BY DEF IsList, TypedElements
<1>2. ASSUME v.of = "struct", NEW i \in DOMAIN v.elements
      PROVE  GoodPart("data_info", v.elements[i])
  BY <1>2, GoodPartOf DEF IsList, Parts
<1>3. ASSUME v.of # "struct", NEW i \in DOMAIN v.elements
      PROVE  GoodElement(v.of, v.elements[i])
  <2>1. v.elements[i] \in Seq(Token) /\ Encodes(v.of, v.elements[i])
    BY <1>3 DEF IsList
  <2>2. Len(v.elements[i]) # 0 /\ Fits(v.of, v.elements[i][1])
    BY <2>1, EncodesHead
  <2>3. v.of \in Scalars => IsScalar(v.of, v.elements[i])
    BY <2>1, EncodesScalar
  <2> QED
    BY <2>2, <2>3 DEF GoodElement
<1> QED
  BY <1>1, <1>2, <1>3 DEF GoodList

\* What the other end sends is good.
LEMMA PeerIsGood ==
  ASSUME NEW s \in Args \cup Results, NEW f \in PeerFields(s)
  PROVE  Good(s, f)
<1>1. IsField(f)
  BY PeerAssumption
<1>2. /\ f.fid \in Int /\ f.ttype \in TTypes
      /\ Encodes(f.ttype, Tokens(f.ttype, f.value))
  BY <1>1 DEF IsField
<1>3. CASE f.ttype = "struct"
  <2>1. IsPart(f.value) /\ Tokens(f.ttype, f.value) = PartTokens(f.value)
    BY <1>1, <1>3 DEF IsField, Tokens
  <2>2. f.value \in Seq(PartField)
    BY <2>1 DEF IsPart
  <2>3. GoodPart("CalcException", f.value)
    BY <2>1, GoodPartOf DEF Parts
  <2>4. f.ttype \notin Scalars /\ f.ttype # "list"
    BY <1>3 DEF Scalars
  <2> QED
    BY <1>2, <2>1, <2>2, <2>3, <2>4, PartPiecesType DEF Good
<1>4. CASE f.ttype = "list"
  <2>1. IsList(f.value) /\ Tokens(f.ttype, f.value) = <<ListToken(f.value)>> \o ElementTokens(f.value)
    BY <1>1, <1>4 DEF IsField, Tokens
  <2>2. GoodList(f.value)
    BY <2>1, GoodListOf
  <2>3. ElementTokens(f.value) \in Seq(Token) /\ ListToken(f.value) \in Token
    BY <2>2, ElementPiecesType DEF GoodList
  <2>4. <<ListToken(f.value)>> \o ElementTokens(f.value) \in Seq(Token)
    BY <2>3
  <2>5. f.ttype \notin Scalars /\ f.ttype # "struct"
    BY <1>4 DEF Scalars
  <2> QED
    BY <1>2, <2>1, <2>2, <2>4, <2>5 DEF Good
<1>5. CASE f.ttype \in Scalars
  <2>1. f.ttype # "list" /\ f.ttype # "struct"
    BY <1>5 DEF Scalars
  <2>2. f.value \in Seq(Token) /\ Tokens(f.ttype, f.value) = f.value
    BY <1>1, <1>5, <2>1 DEF IsField, Tokens
  <2>3. IsScalar(f.ttype, f.value)
    BY <1>2, <1>5, <2>2, EncodesScalar
  <2> QED
    BY <1>2, <2>1, <2>2, <2>3 DEF Good
<1> QED
  BY <1>2, <1>3, <1>4, <1>5 DEF TTypes

-----------------------------------------------------------------------------
(***************************************************************************)
(* What this program writes.                                               *)
(***************************************************************************)

\* Each field once.
Orders(ids, fids) ==
  /\ ids \in Seq(fids)
  /\ \A i, j \in 1..Len(ids) : ids[i] = ids[j] => i = j
  /\ \A fid \in fids : \E i \in 1..Len(ids) : ids[i] = fid

LEMMA OneMorePresent ==
  ASSUME NEW fids, NEW n \in Nat, NEW ids, Orders(ids, fids \cap (0..(n - 1)))
  PROVE  Orders(ids \o Present(fids, n), fids \cap (0..n))
<1> DEFINE old == fids \cap (0..(n - 1))
           new == fids \cap (0..n)
<1>1. /\ ids \in Seq(old) /\ (\A i, j \in 1..Len(ids) : ids[i] = ids[j] => i = j)
      /\ \A fid \in old : \E i \in 1..Len(ids) : ids[i] = fid
  BY DEF Orders
<1>2. old \subseteq new /\ n \notin old /\ new \subseteq old \cup {n}
  OBVIOUS
<1>3. n \in fids => n \in new
  OBVIOUS
<1>4. n \notin fids => new = old
  BY <1>2
<1> HIDE DEF old, new
<1>5. CASE n \in fids
  <2> DEFINE all == Append(ids, n)
  <2>1. Present(fids, n) = <<n>>
    BY <1>5 DEF Present
  <2>2. ids \in Seq(new) /\ n \in new
    <3>1. n \in new
      BY <1>3, <1>5
    <3>2. Len(ids) \in Nat /\ ids = [i \in 1..Len(ids) |-> ids[i]]
          /\ \A i \in 1..Len(ids) : ids[i] \in old
      BY <1>1
    <3>3. \A i \in 1..Len(ids) : ids[i] \in new
      BY <1>2, <3>2
    <3>4. ids \in Seq(new)
      BY <3>2, <3>3, FunctionIsSeq
    <3> QED
      BY <3>1, <3>4
  <2>3. ids \o Present(fids, n) = all
    BY <2>1, <2>2, AppendIsConcat
  <2>4. /\ all \in Seq(new) /\ Len(all) = Len(ids) + 1 /\ Len(ids) \in Nat
        /\ (\A i \in 1..Len(ids) : all[i] = ids[i]) /\ all[Len(ids) + 1] = n
    BY <2>2
  <2>5. \A i \in 1..Len(ids) : ids[i] \in old
    BY <1>1
  <2> HIDE DEF all
  <2>6. ASSUME NEW i \in 1..Len(all), NEW j \in 1..Len(all), all[i] = all[j] PROVE i = j
    <3>1. i \in 1..Len(ids) \/ i = Len(ids) + 1
      BY <2>4
    <3>2. j \in 1..Len(ids) \/ j = Len(ids) + 1
      BY <2>4
    <3>3. CASE i \in 1..Len(ids) /\ j \in 1..Len(ids)
      BY <1>1, <2>4, <2>6, <3>3
    <3>4. CASE i \in 1..Len(ids) /\ j = Len(ids) + 1
      BY <1>2, <2>4, <2>5, <2>6, <3>4
    <3>5. CASE i = Len(ids) + 1 /\ j \in 1..Len(ids)
      BY <1>2, <2>4, <2>5, <2>6, <3>5
    <3> QED
      BY <3>1, <3>2, <3>3, <3>4, <3>5
  <2>7. ASSUME NEW fid \in new PROVE \E i \in 1..Len(all) : all[i] = fid
    <3>1. CASE fid \in old
      <4>1. PICK i \in 1..Len(ids) : ids[i] = fid
        BY <1>1, <3>1
      <4>2. i \in 1..Len(all) /\ all[i] = fid
        BY <2>4, <4>1
      <4> QED
        BY <4>2
    <3>2. CASE fid = n
      <4>1. Len(ids) + 1 \in 1..Len(all)
        BY <2>4
      <4> QED
        BY <2>4, <3>2, <4>1
    <3> QED
      BY <1>2, <3>1, <3>2
  <2>8. Orders(all, new)
    BY <2>4, <2>6, <2>7 DEF Orders
  <2> QED
    BY <2>3, <2>8 DEF new
<1>6. CASE n \notin fids
  <2>1. Present(fids, n) = << >>
    BY <1>6 DEF Present
  <2>2. ids \o << >> = ids
    BY <1>1
  <2>3. Orders(ids, new)
    BY <1>4, <1>6 DEF old
  <2> QED
    BY <2>1, <2>2, <2>3 DEF new
<1> QED
  BY <1>5, <1>6

LEMMA InOrderIs ==
  ASSUME NEW fids \in SUBSET (0..4)
  PROVE  Orders(InOrder(fids), fids)
<1>1. Orders(<< >>, fids \cap (0..(0 - 1)))
  <2>1. fids \cap (0..(0 - 1)) = {}
    OBVIOUS
  <2>2. << >> \in Seq({}) /\ Len(<< >>) = 0
    OBVIOUS
  <2> QED
    BY <2>1, <2>2 DEF Orders
<1>2. Orders(<< >> \o Present(fids, 0), fids \cap (0..0))
  BY <1>1, OneMorePresent
<1>3. << >> \o Present(fids, 0) = Present(fids, 0)
  BY DEF Present
<1>4. 1 - 1 = 0 /\ 2 - 1 = 1 /\ 3 - 1 = 2 /\ 4 - 1 = 3
  OBVIOUS
<1> DEFINE two == Present(fids, 0) \o Present(fids, 1)
           three == two \o Present(fids, 2)
           four == three \o Present(fids, 3)
           five == four \o Present(fids, 4)
<1>5. Orders(two, fids \cap (0..1))
  BY <1>2, <1>3, <1>4, OneMorePresent
<1>6. Orders(three, fids \cap (0..2))
  <2> HIDE DEF two
  <2> QED
    BY <1>4, <1>5, OneMorePresent
<1>7. Orders(four, fids \cap (0..3))
  <2> HIDE DEF three
  <2> QED
    BY <1>4, <1>6, OneMorePresent
<1>8. Orders(five, fids \cap (0..4))
  <2> HIDE DEF four
  <2> QED
    BY <1>4, <1>7, OneMorePresent
<1>9. InOrder(fids) = five /\ fids \cap (0..4) = fids
  BY DEF InOrder
<1> QED
  BY <1>8, <1>9

LEMMA ValueTokenType ==
  ASSUME NEW t \in Scalars, NEW k \in Int
  PROVE  /\ ValueToken(t, k) \in Token /\ <<ValueToken(t, k)>> \in Seq(Token)
         /\ IsScalar(t, <<ValueToken(t, k)>>)
         /\ <<ValueToken(t, k)>>[1].number = k
         /\ Len(<<ValueToken(t, k)>>) = 1 /\ Fits(t, <<ValueToken(t, k)>>[1])
<1>1. ValueToken(t, k) \in [kind : {"value"}, ttype : Scalars, number : Int]
  BY DEF ValueToken
<1>2. ValueToken(t, k) \in Token
  BY <1>1 DEF Token
<1>3. ValueToken(t, k).number = k /\ ValueToken(t, k).kind = "value" /\ ValueToken(t, k).ttype = t
  BY DEF ValueToken
<1>4. t # "struct" /\ t # "list"
  BY DEF Scalars
<1>5. Fits(t, ValueToken(t, k))
  BY <1>3, <1>4 DEF Fits
<1> QED
  BY <1>2, <1>3, <1>5 DEF IsScalar

\* The members of a part are written one by one, as numbers.
LEMMA PartFieldsIs ==
  ASSUME NEW s \in Parts, NEW fids \in SUBSET DOMAIN Fields[s], NEW v \in [fids -> Int]
  PROVE  LET ids == InOrder(fids)
             e == PartFields(s, v)
         IN /\ Orders(ids, fids)
            /\ e \in Seq(PartField) /\ Len(e) = Len(ids) /\ Len(ids) \in Nat
            /\ \A i \in 1..Len(ids) :
                 /\ e[i].fid = ids[i] /\ WellTyped(s, e[i]) /\ e[i].ttype \in Scalars
                 /\ e[i].value = <<ValueToken(e[i].ttype, v[ids[i]])>> /\ v[ids[i]] \in Int
<1> DEFINE ids == InOrder(fids)
           e == PartFields(s, v)
           T(i) == Fields[s][ids[i]].ttype
<1>1. s \in Structs
  BY DEF Structs
<1>2. fids \in SUBSET (0..4)
  BY <1>1, TablesOK DEF TableOK
<1>3. Orders(ids, fids)
  BY <1>2, InOrderIs
<1>4. ids \in Seq(fids) /\ Len(ids) \in Nat /\ DOMAIN ids = 1..Len(ids)
  BY <1>3 DEF Orders
<1>5. DOMAIN v = fids
  OBVIOUS
<1>6. e = [i \in 1..Len(ids) |->
            [fid |-> ids[i], ttype |-> T(i), value |-> <<ValueToken(T(i), v[ids[i]])>>]]
  BY <1>4, <1>5 DEF PartFields
<1>7. e = [i \in 1..Len(ids) |-> e[i]]
  BY <1>6
<1> HIDE DEF ids
<1>8. ASSUME NEW i \in 1..Len(ids)
      PROVE  /\ e[i].fid = ids[i] /\ e[i].ttype = T(i)
             /\ e[i].value = <<ValueToken(T(i), v[ids[i]])>>
             /\ e[i] = [fid |-> ids[i], ttype |-> T(i), value |-> <<ValueToken(T(i), v[ids[i]])>>]
  BY <1>6
<1> HIDE DEF e
<1>9. ASSUME NEW i \in 1..Len(ids)
      PROVE  ids[i] \in fids /\ T(i) \in Scalars /\ v[ids[i]] \in Int /\ ids[i] \in Int
  <2>1. ids[i] \in fids
    BY <1>4
  <2>2. ids[i] \in DOMAIN Fields[s] /\ ids[i] \in Int
    BY <1>2, <2>1
  <2>3. T(i) \in Scalars
    BY <1>1, <2>2, TablesOK DEF TableOK
  <2> QED
    BY <2>1, <2>2, <2>3
<1> HIDE DEF T
<1>10. ASSUME NEW i \in 1..Len(ids) PROVE e[i] \in PartField
  <2>1. T(i) \in TTypes /\ <<ValueToken(T(i), v[ids[i]])>> \in Seq(Token)
    BY <1>9, ValueTokenType DEF TTypes
  <2>2. e[i] = [fid |-> ids[i], ttype |-> T(i), value |-> <<ValueToken(T(i), v[ids[i]])>>]
    BY <1>8
  <2>3. ids[i] \in Int
    BY <1>9
  <2> DEFINE w == <<ValueToken(T(i), v[ids[i]])>>
  <2> HIDE DEF w
  <2>4. [fid |-> ids[i], ttype |-> T(i), value |-> w] \in PartField
    BY <2>1, <2>3 DEF PartField, w
  <2> QED
    BY <2>2, <2>4 DEF w
<1>11. e \in Seq(PartField) /\ Len(e) = Len(ids)
  BY <1>4, <1>7, <1>10, FunctionIsSeq
<1>12. ASSUME NEW i \in 1..Len(ids) PROVE WellTyped(s, e[i])
  BY <1>8, <1>9 DEF WellTyped, T
<1> QED
  BY <1>3, <1>4, <1>8, <1>9, <1>11, <1>12 DEF ids, e

LEMMA PartFieldsGood ==
  ASSUME NEW s \in Parts, NEW fids \in SUBSET DOMAIN Fields[s], NEW v \in [fids -> Int]
  PROVE  GoodPart(s, PartFields(s, v))
<1> DEFINE ids == InOrder(fids)
           e == PartFields(s, v)
<1>1. /\ e \in Seq(PartField) /\ Len(e) = Len(ids) /\ Len(ids) \in Nat
      /\ \A i \in 1..Len(ids) :
           /\ WellTyped(s, e[i]) /\ v[ids[i]] \in Int
           /\ e[i].value = <<ValueToken(e[i].ttype, v[ids[i]])>>
  BY PartFieldsIs
<1> HIDE DEF ids, e
<1>2. DOMAIN e = 1..Len(ids)
  BY <1>1
<1>3. ASSUME NEW i \in 1..Len(ids) PROVE IsScalar(e[i].ttype, e[i].value)
  BY <1>1 DEF IsScalar
<1>4. GoodPart(s, e)
  BY <1>1, <1>2, <1>3 DEF GoodPart
<1> QED
  BY <1>4 DEF e

\* A list is written with its elements, of the type they have on the wire.
LEMMA ListIsWritten ==
  ASSUME NEW type, type.ttype = "list", type.of \in {"double", "data_info"},
         NEW v, HasType(v, type)
  PROVE  LET w == WireValue(type, v) IN
         /\ w.of = OnWire(type.of) /\ GoodList(w)
         /\ Len(w.elements) = Len(v) /\ Len(v) \in Nat /\ v = [i \in 1..Len(v) |-> v[i]]
         /\ type.of = "double" =>
              \A i \in 1..Len(v) : v[i] \in Int /\ w.elements[i] = <<ValueToken("double", v[i])>>
         /\ type.of = "data_info" =>
              \A i \in 1..Len(v) : /\ v[i] \in [1..4 -> Int]
                                   /\ w.elements[i] = PartFields("data_info", v[i])
<1> DEFINE w == WireValue(type, v)
           n == Len(v)
           E(i) == IF type.of = "data_info" THEN PartFields(type.of, v[i])
                   ELSE <<ValueToken(type.of, v[i])>>
<1>1. v \in Seq(IF type.of = "data_info" THEN [1..4 -> Int] ELSE Int)
  BY PartTables DEF HasType
<1>2. n \in Nat /\ DOMAIN v = 1..n /\ v = [i \in 1..n |-> v[i]]
  BY <1>1
<1>3. w = [of |-> OnWire(type.of), elements |-> [i \in DOMAIN v |-> E(i)]]
  BY DEF WireValue
<1>4. /\ w.of = OnWire(type.of)
      /\ w.elements = [i \in 1..n |-> E(i)]
  BY <1>2, <1>3
<1>5. w.elements = [i \in 1..n |-> w.elements[i]] /\ \A i \in 1..n : w.elements[i] = E(i)
  BY <1>4
<1> HIDE DEF w, n
<1>6. CASE type.of = "double"
  <2>1. w.of = "double" /\ "double" # "struct" /\ "double" \in Scalars /\ "double" \in TTypes
    BY <1>4, <1>6, PartTables DEF Scalars, TTypes
  <2>2. \A i \in 1..n : v[i] \in Int /\ w.elements[i] = <<ValueToken("double", v[i])>>
    BY <1>1, <1>2, <1>5, <1>6 DEF n
  <2>3. \A i \in 1..n : /\ w.elements[i] \in Seq(Token) /\ IsScalar("double", w.elements[i])
                        /\ Len(w.elements[i]) # 0 /\ Fits("double", w.elements[i][1])
    <3>1. TAKE i \in 1..n
    <3>2. v[i] \in Int /\ w.elements[i] = <<ValueToken("double", v[i])>>
      BY <2>2
    <3>3. /\ <<ValueToken("double", v[i])>> \in Seq(Token)
          /\ IsScalar("double", <<ValueToken("double", v[i])>>)
          /\ Len(<<ValueToken("double", v[i])>>) = 1
          /\ Fits("double", <<ValueToken("double", v[i])>>[1])
      BY <2>1, <3>2, ValueTokenType
    <3> QED
      BY <3>2, <3>3
  <2>4. w.elements \in Seq(Seq(Token)) /\ Len(w.elements) = n /\ DOMAIN w.elements = 1..n
    BY <1>2, <1>5, <2>3, FunctionIsSeq DEF n
  <2>5. GoodList(w)
    BY <2>1, <2>3, <2>4 DEF GoodList, TypedElements, GoodElement
  <2> QED
    BY <1>2, <1>4, <1>6, <2>2, <2>4, <2>5 DEF w, n
<1>7. CASE type.of = "data_info"
  <2>1. w.of = "struct" /\ "struct" \in TTypes
    BY <1>4, <1>7, PartTables DEF TTypes
  <2>2. \A i \in 1..n : v[i] \in [1..4 -> Int] /\ w.elements[i] = PartFields("data_info", v[i])
    BY <1>1, <1>2, <1>5, <1>7 DEF n
  <2>3. \A i \in 1..n : GoodPart("data_info", w.elements[i])
    <3>1. TAKE i \in 1..n
    <3>2. 1..4 \in SUBSET DOMAIN Fields["data_info"] /\ "data_info" \in Parts
      BY PartTables DEF Parts
    <3> QED
      BY <2>2, <3>2, PartFieldsGood
  <2>4. \A i \in 1..n : w.elements[i] \in Seq(PartField)
    BY <2>3 DEF GoodPart
  <2>5. w.elements \in Seq(Seq(PartField)) /\ Len(w.elements) = n /\ DOMAIN w.elements = 1..n
    BY <1>2, <1>5, <2>4, FunctionIsSeq DEF n
  <2>6. GoodList(w)
    BY <2>1, <2>3, <2>5 DEF GoodList, TypedElements
  <2> QED
    BY <1>2, <1>4, <1>7, <2>2, <2>5, <2>6 DEF w, n
<1> QED
  BY <1>6, <1>7

LEMMA WireFieldIs ==
  ASSUME NEW s \in Args \cup Results, NEW o, NEW fid \in DOMAIN Fields[s]
  PROVE  LET f == WireField(s, o, fid) IN
         /\ f.fid = fid /\ f.ttype = Fields[s][fid].ttype /\ f.fid \in Int
         /\ f.value = WireValue(Fields[s][fid], o[fid])
         /\ WellTyped(s, f) /\ f.ttype \in TTypes
         /\ f.ttype = "list" => Fields[s][fid].of \in {"double", "data_info"}
         /\ f.ttype = "struct" => Fields[s][fid].of = "CalcException"
<1> DEFINE f == WireField(s, o, fid)
<1>1. /\ f.fid = fid /\ f.ttype = Fields[s][fid].ttype
      /\ f.value = WireValue(Fields[s][fid], o[fid])
  BY DEF WireField
<1>2. s \in Structs
  BY DEF Structs
<1>3. /\ fid \in Int /\ Fields[s][fid].ttype \in TTypes
      /\ Fields[s][fid].ttype = "list" => Fields[s][fid].of \in {"double", "data_info"}
      /\ Fields[s][fid].ttype = "struct" => Fields[s][fid].of = "CalcException"
  BY <1>2, TablesOK DEF TableOK
<1> HIDE DEF f
<1>4. WellTyped(s, f)
  BY <1>1 DEF WellTyped
<1> QED
  BY <1>1, <1>3, <1>4 DEF f

\* What this program writes is good.
LEMMA WrittenIsGood ==
  ASSUME NEW s \in Args \cup Results, NEW o, NEW fid \in DOMAIN Fields[s],
         HasType(o[fid], Fields[s][fid])
  PROVE  Good(s, WireField(s, o, fid))
<1> DEFINE f == WireField(s, o, fid)
           type == Fields[s][fid]
<1>1. /\ f.fid \in Int /\ f.ttype = type.ttype /\ f.value = WireValue(type, o[fid])
      /\ WellTyped(s, f) /\ f.ttype \in TTypes
      /\ f.ttype = "list" => type.of \in {"double", "data_info"}
      /\ f.ttype = "struct" => type.of = "CalcException"
  BY WireFieldIs
<1> HIDE DEF f, type
<1>2. HasType(o[fid], type)
  BY DEF type
<1>3. CASE f.ttype = "struct"
  <2>1. f.value = PartFields("CalcException", o[fid])
        /\ Tokens(f.ttype, f.value) = PartTokens(f.value)
    BY <1>1, <1>3 DEF WireValue, Tokens
  <2>2. PICK fids \in SUBSET DOMAIN Fields["CalcException"] : o[fid] \in [fids -> Int]
    BY <1>1, <1>2, <1>3 DEF HasType
  <2>3. GoodPart("CalcException", f.value)
    BY <2>1, <2>2, PartFieldsGood DEF Parts
  <2>4. f.ttype \notin Scalars /\ f.ttype # "list"
    BY <1>3 DEF Scalars
  <2>5. f.value \in Seq(PartField)
    BY <2>3 DEF GoodPart
  <2>6. Good(s, f)
    BY <1>1, <2>1, <2>3, <2>4, <2>5, PartPiecesType DEF Good
  <2> QED
    BY <2>6 DEF f
<1>4. CASE f.ttype = "list"
  <2>1. GoodList(f.value)
    <3>1. type.ttype = "list" /\ type.of \in {"double", "data_info"}
      BY <1>1, <1>4
    <3>2. GoodList(WireValue(type, o[fid]))
      BY <1>2, <3>1, ListIsWritten
    <3> QED
      BY <1>1, <3>2
  <2>2. Tokens(f.ttype, f.value) = <<ListToken(f.value)>> \o ElementTokens(f.value)
    BY <1>4 DEF Tokens
  <2>3. ElementTokens(f.value) \in Seq(Token) /\ ListToken(f.value) \in Token
    BY <2>1, ElementPiecesType DEF GoodList
  <2>4. <<ListToken(f.value)>> \o ElementTokens(f.value) \in Seq(Token)
    BY <2>3
  <2>5. f.ttype \notin Scalars /\ f.ttype # "struct"
    BY <1>4 DEF Scalars
  <2>6. Good(s, f)
    BY <1>1, <2>1, <2>2, <2>4, <2>5 DEF Good
  <2> QED
    BY <2>6 DEF f
<1>5. CASE f.ttype \in Scalars
  <2>1. f.ttype # "list" /\ f.ttype # "struct"
    BY <1>5 DEF Scalars
  <2>2. f.value = <<ValueToken(f.ttype, o[fid])>> /\ o[fid] \in Int
        /\ Tokens(f.ttype, f.value) = f.value
    BY <1>1, <1>2, <2>1 DEF WireValue, HasType, Tokens
  <2>3. f.value \in Seq(Token) /\ IsScalar(f.ttype, f.value)
    BY <1>5, <2>2, ValueTokenType
  <2>4. Good(s, f)
    BY <1>1, <2>1, <2>2, <2>3 DEF Good
  <2> QED
    BY <2>4 DEF f
<1> QED
  BY <1>1, <1>3, <1>4, <1>5 DEF TTypes

-----------------------------------------------------------------------------
(***************************************************************************)
(* The messages that can be on the wire.                                   *)
(***************************************************************************)

Sendable(s) ==
  PeerFields(s)
  \cup UNION {{WireField(s, o, fid) : fid \in WrittenFields(s, o)} : o \in Originals(s)}

SentInv ==
  /\ sent \in Seq(Sendable(struct))
  /\ original # Empty => original \in Originals(struct) /\ sent = WireFields(struct, original)
  /\ original # Empty => writing # "open"

LEMMA WrittenFieldsKnown ==
  ASSUME NEW s \in Args \cup Results, NEW o \in Originals(s)
  PROVE  /\ WrittenFields(s, o) \subseteq DOMAIN o /\ DOMAIN o \subseteq DOMAIN Fields[s]
         /\ DOMAIN Fields[s] \subseteq 0..4
         /\ \A fid \in DOMAIN o : HasType(o[fid], Fields[s][fid])
<1>1. IsObject(s, o)
  BY OriginalsAssumption
<1>2. DOMAIN o \subseteq DOMAIN Fields[s] /\ \A fid \in DOMAIN o : HasType(o[fid], Fields[s][fid])
  BY <1>1 DEF IsObject
<1>3. DOMAIN Fields[s] \subseteq 0..4
  BY TablesOK DEF TableOK, Structs
<1>4. WrittenFields(s, o) \subseteq DOMAIN o
  BY DEF WrittenFields
<1> QED
  BY <1>2, <1>3, <1>4

LEMMA SendableIsGood ==
  ASSUME NEW s \in Args \cup Results, NEW f \in Sendable(s)
  PROVE  Good(s, f)
<1>1. CASE f \in PeerFields(s)
  BY <1>1, PeerIsGood
<1>2. CASE \E o \in Originals(s) : \E fid \in WrittenFields(s, o) : f = WireField(s, o, fid)
  <2>1. PICK o \in Originals(s) : \E fid \in WrittenFields(s, o) : f = WireField(s, o, fid)
    BY <1>2
  <2>3. PICK fid \in WrittenFields(s, o) : f = WireField(s, o, fid)
    BY <2>1
  <2>2. fid \in DOMAIN Fields[s] /\ HasType(o[fid], Fields[s][fid])
    BY WrittenFieldsKnown
  <2> QED
    BY <2>3, <2>2, WrittenIsGood
<1> QED
  BY <1>1, <1>2 DEF Sendable

LEMMA WireFieldsIs ==
  ASSUME NEW s \in Args \cup Results, NEW o \in Originals(s)
  PROVE  LET ids == InOrder(WrittenFields(s, o))
             fields == WireFields(s, o)
         IN /\ Orders(ids, WrittenFields(s, o)) /\ Len(ids) \in Nat
            /\ fields \in Seq(Sendable(s)) /\ Len(fields) = Len(ids)
            /\ \A i \in 1..Len(ids) : /\ ids[i] \in WrittenFields(s, o)
                                      /\ fields[i] = WireField(s, o, ids[i])
<1> DEFINE fids == WrittenFields(s, o)
           ids == InOrder(fids)
           fields == WireFields(s, o)
<1>1. fids \in SUBSET (0..4)
  BY WrittenFieldsKnown
<1>2. Orders(ids, fids)
  BY <1>1, InOrderIs
<1>3. ids \in Seq(fids) /\ Len(ids) \in Nat /\ DOMAIN ids = 1..Len(ids)
  BY <1>2 DEF Orders
<1>4. fields = [i \in 1..Len(ids) |-> WireField(s, o, ids[i])]
  BY <1>3 DEF WireFields
<1> HIDE DEF ids
<1>5. fields = [i \in 1..Len(ids) |-> fields[i]]
      /\ \A i \in 1..Len(ids) : fields[i] = WireField(s, o, ids[i])
  BY <1>4
<1> HIDE DEF fields
<1>6. \A i \in 1..Len(ids) : ids[i] \in fids
  BY <1>3
<1>7. \A i \in 1..Len(ids) : fields[i] \in Sendable(s)
  BY <1>5, <1>6 DEF Sendable
<1>8. fields \in Seq(Sendable(s)) /\ Len(fields) = Len(ids)
  BY <1>3, <1>5, <1>7, FunctionIsSeq
<1> QED
  BY <1>2, <1>3, <1>5, <1>6, <1>8 DEF ids, fields

LEMMA FieldPiecesType ==
  ASSUME NEW s \in Args \cup Results, NEW fields \in Seq(Sendable(s))
  PROVE  /\ FieldPieces(fields) \in Seq(Seq(Token)) /\ Len(FieldPieces(fields)) = Len(fields)
         /\ FieldTokens(fields) = FlattenSeq(FieldPieces(fields))
         /\ FieldTokens(fields) \in Seq(Token)
         /\ \A i \in 1..Len(fields) :
              /\ Good(s, fields[i])
              /\ FieldPieces(fields)[i]
                   = <<Heading(fields[i])>> \o Tokens(fields[i].ttype, fields[i].value)
<1> DEFINE n == Len(fields)
           p == FieldPieces(fields)
<1>1. n \in Nat /\ DOMAIN fields = 1..n
  OBVIOUS
<1>2. p = [i \in 1..n |-> p[i]]
      /\ \A i \in 1..n : p[i] = <<Heading(fields[i])>> \o Tokens(fields[i].ttype, fields[i].value)
  BY <1>1 DEF FieldPieces
<1> HIDE DEF p
<1>3. ASSUME NEW i \in 1..n PROVE p[i] \in Seq(Token) /\ Good(s, fields[i])
  <2>1. fields[i] \in Sendable(s)
    BY <1>1
  <2>2. Good(s, fields[i])
    BY <2>1, SendableIsGood
  <2>3. /\ fields[i].fid \in Int /\ fields[i].ttype \in TTypes
        /\ Tokens(fields[i].ttype, fields[i].value) \in Seq(Token)
    BY <2>2 DEF Good
  <2>4. <<Heading(fields[i])>> \in Seq(Token)
    BY <2>3, HeadingType
  <2>5. <<Heading(fields[i])>> \o Tokens(fields[i].ttype, fields[i].value) \in Seq(Token)
    BY <2>3, <2>4, ConcatProperties
  <2> QED
    BY <1>2, <2>2, <2>5
<1>4. p \in Seq(Seq(Token)) /\ Len(p) = n
  BY <1>1, <1>2, <1>3, FunctionIsSeq
<1>5. FieldTokens(fields) = FlattenSeq(p)
  BY DEF FieldTokens, FieldPieces, p
<1>6. FieldTokens(fields) \in Seq(Token)
  BY <1>4, <1>5, FlattenType
<1> QED
  BY <1>2, <1>3, <1>4, <1>5, <1>6 DEF p

-----------------------------------------------------------------------------
(***************************************************************************)
(* The type of the state.                                                  *)
(***************************************************************************)

PartTyped(s, p) == \E fids \in SUBSET DOMAIN Fields[s] : p \in [fids -> Int]
ObjectTyped(s, o) ==
  /\ DOMAIN o \subseteq DOMAIN Fields[s]
  /\ \A fid \in DOMAIN o : HasType(o[fid], Fields[s][fid])

\* Inside a list or a member: what is set so far has its type, too.
InsideOK ==
  /\ stage # "struct" => field \in DOMAIN Fields[struct]
  /\ stage \in {"list", "element"} =>
       Fields[struct][field].ttype = "list" /\ HasType(list, Fields[struct][field])
  /\ stage = "element" =>
       Fields[struct][field].of = "data_info" /\ PartTyped("data_info", part)
  /\ stage = "member" =>
       Fields[struct][field].ttype = "struct" /\ PartTyped("CalcException", part)

TypeInv == StructsTypeOK /\ SentInv /\ InsideOK

LEMMA EmptyTyped ==
  ASSUME NEW s
  PROVE  DOMAIN Empty = {} /\ PartTyped(s, Empty) /\ ObjectTyped(s, Empty)
<1>1. DOMAIN Empty = {} /\ Empty \in [{} -> Int]
  BY DEF Empty
<1>2. {} \in SUBSET DOMAIN Fields[s]
  OBVIOUS
<1> QED
  BY <1>1, <1>2 DEF PartTyped, ObjectTyped

LEMMA WithIs ==
  ASSUME NEW o, NEW fid, NEW v
  PROVE  /\ DOMAIN With(o, fid, v) = DOMAIN o \cup {fid}
         /\ With(o, fid, v)[fid] = v
         /\ \A g \in DOMAIN o : g # fid => With(o, fid, v)[g] = o[g]
BY DEF With

LEMMA WithTyped ==
  ASSUME NEW s, NEW o, ObjectTyped(s, o), NEW fid \in DOMAIN Fields[s], NEW v,
         HasType(v, Fields[s][fid])
  PROVE  ObjectTyped(s, With(o, fid, v))
<1>1. /\ DOMAIN o \subseteq DOMAIN Fields[s]
      /\ \A g \in DOMAIN o : HasType(o[g], Fields[s][g])
  BY DEF ObjectTyped
<1> DEFINE w == With(o, fid, v)
<1>5. /\ DOMAIN With(o, fid, v) = DOMAIN o \cup {fid}
      /\ With(o, fid, v)[fid] = v
      /\ \A g \in DOMAIN o : g # fid => With(o, fid, v)[g] = o[g]
  BY DEF With
<1>2. DOMAIN w = DOMAIN o \cup {fid} /\ w[fid] = v /\ \A g \in DOMAIN o : g # fid => w[g] = o[g]
  BY <1>5
<1> HIDE DEF w
<1>3. ASSUME NEW g \in DOMAIN w PROVE HasType(w[g], Fields[s][g])
  BY <1>1, <1>2
<1>4. ObjectTyped(s, w)
  BY <1>1, <1>2, <1>3 DEF ObjectTyped
<1> QED
  BY <1>4 DEF w

LEMMA WithPartTyped ==
  ASSUME NEW s, NEW p, PartTyped(s, p), NEW fid \in DOMAIN Fields[s], NEW v \in Int
  PROVE  PartTyped(s, With(p, fid, v))
<1>1. PICK fids \in SUBSET DOMAIN Fields[s] : p \in [fids -> Int]
  BY DEF PartTyped
<1>2. With(p, fid, v) \in [fids \cup {fid} -> Int]
  BY <1>1 DEF With
<1>3. fids \cup {fid} \in SUBSET DOMAIN Fields[s]
  BY <1>1
<1> QED
  BY <1>2, <1>3 DEF PartTyped

\* What is read for a scalar is a number.
LEMMA ReadScalarTyped ==
  ASSUME NEW t \in Scalars, NEW w \in Seq(Token)
  PROVE  LET r == ReadScalar(t, w) IN
         /\ r.status \in {"ok", "broken", "garbled"}
         /\ r.status = "ok" => r.value \in Int /\ r.rest \in Seq(Token)
<1>1. CASE w = << >>
  BY <1>1 DEF ReadScalar, Throws
<1>2. CASE w # << >>
  <2>1. Head(w) \in Token /\ Tail(w) \in Seq(Token)
    BY <1>2
  <2>2. CASE Head(w).kind = "value" /\ Head(w).ttype = t
    <3>1. Fits(t, Head(w))
      BY <2>2 DEF Fits, Scalars
    <3>2. Head(w).number \in Int
      BY <2>1, <3>1, FitsScalar
    <3> QED
      BY <1>2, <2>1, <2>2, <3>2 DEF ReadScalar, Got
  <2>3. CASE ~ (Head(w).kind = "value" /\ Head(w).ttype = t)
    BY <1>2, <2>3 DEF ReadScalar, Throws
  <2> QED
    BY <2>2, <2>3
<1> QED
  BY <1>1, <1>2

LEMMA SkippedTyped ==
  ASSUME NEW t, NEW w \in Seq(Token)
  PROVE  LET r == Skipped(t, w) IN
         /\ r.status \in {"ok", "broken"}
         /\ r.status = "ok" => r.rest \in Seq(Token)
<1> DEFINE m == Len(w)
           open == Open(t, w)
           ends == {i \in 0..m : open[i] = << >>}
<1>1. Skipped(t, w) = IF ends = {} THEN Throws("broken") ELSE Got(0, SubSeq(w, Min(ends) + 1, m))
  BY DEF Skipped, Skip
<1>2. m \in Nat
  OBVIOUS
<1>3. ends \subseteq 0..m
  OBVIOUS
<1> HIDE DEF ends
<1>4. CASE ends = {}
  BY <1>1, <1>4 DEF Throws
<1>5. CASE ends # {}
  <2>1. ends \in SUBSET Nat
    BY <1>2, <1>3
  <2>2. Min(ends) \in 0..m
    BY <1>3, <1>5, <2>1, LeastExists
  <2>3. Min(ends) + 1 \in Nat /\ 1 <= Min(ends) + 1 /\ Min(ends) + 1 <= m + 1 /\ m <= Len(w)
    BY <1>2, <2>2
  <2>4. SubSeq(w, Min(ends) + 1, m) \in Seq(Token)
    BY <1>2, <2>3, PieceOf
  <2> QED
    BY <1>1, <1>5, <2>4 DEF Got
<1> QED
  BY <1>4, <1>5

\* The struct the reader is in, and the types of its fields.
LEMMA HereIs ==
  ASSUME TypeInv, stage # "list"
  PROVE  /\ Here \in Structs
         /\ stage = "struct" => Here = struct /\ Held = object
         /\ stage = "element" => Here = "data_info" /\ Held = part
         /\ stage = "member" => Here = "CalcException" /\ Held = part
         /\ stage # "struct" =>
              /\ Here \in Parts /\ PartTyped(Here, part)
              /\ \A f : WellTyped(Here, f) => f.ttype \in Scalars
<1>1. struct \in Args \cup Results /\ stage \in {"struct", "element", "member"}
  BY DEF TypeInv, StructsTypeOK
<1>2. struct \in Structs
  BY <1>1 DEF Structs
<1>3. CASE stage = "struct"
  BY <1>2, <1>3 DEF Here, Held
<1>4. CASE stage # "struct"
  <2>1. field \in DOMAIN Fields[struct]
    BY <1>4 DEF TypeInv, InsideOK
  <2>2. CASE stage = "element"
    <3>1. Here = "data_info" /\ PartTyped("data_info", part)
      BY <2>2 DEF TypeInv, InsideOK, Here
    <3>2. "data_info" \in Parts /\ "data_info" \in Structs
      BY PartTables DEF Parts
    <3>3. \A f : WellTyped("data_info", f) => f.ttype \in Scalars
      BY <3>2, TablesOK DEF WellTyped, TableOK
    <3> QED
      BY <2>2, <3>1, <3>2, <3>3 DEF Held
  <2>3. CASE stage = "member"
    <3>1. Fields[struct][field].ttype = "struct" /\ PartTyped("CalcException", part)
      BY <2>3 DEF TypeInv, InsideOK
    <3>2. Here = "CalcException"
      BY <1>2, <2>1, <2>3, <3>1, TablesOK DEF TableOK, Here
    <3>3. "CalcException" \in Parts /\ "CalcException" \in Structs
      BY PartTables DEF Parts
    <3>4. \A f : WellTyped("CalcException", f) => f.ttype \in Scalars
      BY <3>3, TablesOK DEF WellTyped, TableOK
    <3> QED
      BY <2>3, <3>1, <3>2, <3>3, <3>4 DEF Held
  <2> QED
    BY <1>1, <1>4, <2>2, <2>3
<1> QED
  BY <1>3, <1>4

\* The message stays the same while it is read.
LEMMA SameMessage ==
  ASSUME SentInv, UNCHANGED <<struct, original, sent, writing>>
  PROVE  SentInv'
BY DEF SentInv

LEMMA ThrowTyped ==
  ASSUME TypeInv, NEW why \in {"broken", "invalid", "garbled"}, Throw(why),
         UNCHANGED <<struct, original, sent, writing>>
  PROVE  TypeInv'
<1>1. reader' = why /\ wire' = << >>
      /\ UNCHANGED <<object, stage, field, left, list, part, struct, original, sent, writing>>
  BY DEF Throw, inside
<1>2. SentInv'
  BY SameMessage DEF TypeInv
<1>3. << >> \in Seq(Token)
  OBVIOUS
<1>4. StructsTypeOK'
  BY <1>1, <1>3 DEF TypeInv, StructsTypeOK
<1>5. InsideOK'
  BY <1>1 DEF TypeInv, InsideOK
<1> QED
  BY <1>2, <1>4, <1>5 DEF TypeInv

LEMMA WriteStructTyped ==
  ASSUME TypeInv, WriteStruct
  PROVE  TypeInv'
<1>1. PICK o \in Originals(struct) :
        original' = o /\ sent' = WireFields(struct, o) /\ wire' = FieldTokens(sent') \o <<Stop>>
  BY DEF WriteStruct
<1>2. /\ writing' = "stopped"
      /\ UNCHANGED <<struct, object, reader, stage, field, left, list, part>>
  BY DEF WriteStruct, inside
<1>3. struct \in Args \cup Results
  BY DEF TypeInv, StructsTypeOK
<1>4. WireFields(struct, o) \in Seq(Sendable(struct))
  BY <1>3, WireFieldsIs
<1>5. SentInv'
  BY <1>1, <1>2, <1>4 DEF SentInv
<1>6. FieldTokens(WireFields(struct, o)) \in Seq(Token)
  BY <1>3, <1>4, FieldPiecesType
<1>7. wire' \in Seq(Token)
  BY <1>1, <1>6, StopType, ConcatProperties
<1>8. StructsTypeOK'
  BY <1>2, <1>7 DEF TypeInv, StructsTypeOK
<1>9. InsideOK'
  BY <1>2 DEF TypeInv, InsideOK
<1> QED
  BY <1>5, <1>8, <1>9 DEF TypeInv

LEMMA PeerWritesTyped ==
  ASSUME TypeInv, PeerWrites
  PROVE  TypeInv'
<1>1. PICK f \in PeerFields(struct) : sent' = Append(sent, f) /\ wire' = wire \o FieldTokens(<<f>>)
  BY DEF PeerWrites
<1>2. /\ writing = "open"
      /\ UNCHANGED <<struct, original, writing, object, reader, stage, field, left, list, part>>
  BY DEF PeerWrites, inside
<1>3. struct \in Args \cup Results /\ wire \in Seq(Token)
  BY DEF TypeInv, StructsTypeOK
<1>4. f \in Sendable(struct) /\ <<f>> \in Seq(Sendable(struct))
  BY DEF Sendable
<1>5. SentInv'
  <2>1. sent \in Seq(Sendable(struct)) /\ original = Empty
    BY <1>2 DEF TypeInv, SentInv
  <2>2. sent' \in Seq(Sendable(struct))
    BY <1>1, <1>4, <2>1
  <2> QED
    BY <1>2, <2>1, <2>2 DEF SentInv
<1>6. FieldTokens(<<f>>) \in Seq(Token)
  BY <1>3, <1>4, FieldPiecesType
<1>7. wire' \in Seq(Token)
  BY <1>1, <1>3, <1>6, ConcatProperties
<1>8. StructsTypeOK'
  BY <1>2, <1>7 DEF TypeInv, StructsTypeOK
<1>9. InsideOK'
  BY <1>2 DEF TypeInv, InsideOK
<1> QED
  BY <1>5, <1>8, <1>9 DEF TypeInv

LEMMA PeerStopsTyped ==
  ASSUME TypeInv, PeerStops
  PROVE  TypeInv'
<1>1. /\ writing' = "stopped" /\ wire' = Append(wire, Stop)
      /\ UNCHANGED <<struct, original, sent, object, reader, stage, field, left, list, part>>
  BY DEF PeerStops, inside
<1>2. wire' \in Seq(Token)
  BY <1>1, StopType DEF TypeInv, StructsTypeOK
<1>3. StructsTypeOK'
  BY <1>1, <1>2 DEF TypeInv, StructsTypeOK
<1>4. SentInv'
  BY <1>1 DEF TypeInv, SentInv
<1>5. InsideOK'
  BY <1>1 DEF TypeInv, InsideOK
<1> QED
  BY <1>3, <1>4, <1>5 DEF TypeInv

LEMMA LoseTyped ==
  ASSUME TypeInv, Lose
  PROVE  TypeInv'
<1>1. /\ writing' = "lost"
      /\ UNCHANGED <<struct, original, sent, object, reader, stage, field, left, list, part>>
  BY DEF Lose, inside
<1>2. PICK n \in 0..(Len(wire) - 1) : wire' = SubSeq(wire, 1, n)
  BY DEF Lose
<1>3. wire' \in Seq(Token)
  <2>1. wire \in Seq(Token) /\ Len(wire) \in Nat
    BY DEF TypeInv, StructsTypeOK
  <2>2. n \in Nat /\ 1 \in Nat /\ 1 <= 1 /\ 1 <= n + 1 /\ n <= Len(wire)
    BY <2>1
  <2>3. SubSeq(wire, 1, n) \in Seq(Token)
    BY <2>1, <2>2, PieceOf
  <2> QED
    BY <1>2, <2>3
<1>4. StructsTypeOK'
  BY <1>1, <1>3 DEF TypeInv, StructsTypeOK
<1>5. SentInv'
  BY <1>1 DEF TypeInv, SentInv
<1>6. InsideOK'
  BY <1>1 DEF TypeInv, InsideOK
<1> QED
  BY <1>4, <1>5, <1>6 DEF TypeInv

LEMMA NextStructTyped ==
  ASSUME TypeInv, NEW s \in Args \cup Results, NextStruct(s)
  PROVE  TypeInv'
<1>1. /\ struct' = s /\ original' = Empty /\ sent' = << >> /\ writing' = "open"
      /\ wire' = IF reader = "returned" THEN wire ELSE << >>
      /\ object' = Empty /\ reader' = "reading" /\ stage' = "struct"
  BY DEF NextStruct, Outside
<1>2. wire' \in Seq(Token)
  BY <1>1 DEF TypeInv, StructsTypeOK
<1>3. DOMAIN Empty = {}
  BY EmptyTyped
<1>4. StructsTypeOK'
  BY <1>1, <1>2, <1>3 DEF StructsTypeOK
<1>5. SentInv'
  BY <1>1 DEF SentInv
<1>6. InsideOK'
  BY <1>1 DEF InsideOK
<1> QED
  BY <1>4, <1>5, <1>6 DEF TypeInv

LEMMA ReadScalarFieldTyped ==
  ASSUME TypeInv, ReadScalarField
  PROVE  TypeInv'
<1> DEFINE fid == Head(wire).fid
           t == Head(wire).ttype
           r == ReadScalar(t, Tail(wire))
<1>1. /\ stage # "list" /\ wire # << >> /\ WellTyped(Here, Head(wire)) /\ t \in Scalars
      /\ UNCHANGED <<struct, original, sent, writing>>
  BY DEF ReadScalarField, AtField
<1>2. wire \in Seq(Token) /\ struct \in Args \cup Results /\ ObjectTyped(struct, object)
  BY DEF TypeInv, StructsTypeOK, ObjectTyped
<1>3. Tail(wire) \in Seq(Token)
  BY <1>1, <1>2
<1>4. /\ r.status \in {"ok", "broken", "garbled"}
      /\ r.status = "ok" => r.value \in Int /\ r.rest \in Seq(Token)
  BY <1>1, <1>3, ReadScalarTyped
<1>5. fid \in DOMAIN Fields[Here] /\ t = Fields[Here][fid].ttype
  BY <1>1 DEF WellTyped
<1>6. \/ /\ r.status = "ok" /\ wire' = r.rest
         /\ object' = IF stage = "struct" THEN With(Held, fid, r.value) ELSE object
         /\ part' = IF stage = "struct" THEN part ELSE With(Held, fid, r.value)
         /\ UNCHANGED <<reader, stage, field, left, list>>
      \/ r.status # "ok" /\ Throw(r.status)
  BY DEF ReadScalarField
<1> HIDE DEF fid, t, r
<1>7. CASE r.status # "ok" /\ Throw(r.status)
  BY <1>1, <1>4, <1>7, ThrowTyped
<1>8. CASE /\ r.status = "ok" /\ wire' = r.rest
           /\ object' = IF stage = "struct" THEN With(Held, fid, r.value) ELSE object
           /\ part' = IF stage = "struct" THEN part ELSE With(Held, fid, r.value)
           /\ UNCHANGED <<reader, stage, field, left, list>>
  <2>1. wire' \in Seq(Token) /\ r.value \in Int
    BY <1>4, <1>8
  <2>2. SentInv'
    BY <1>1, SameMessage DEF TypeInv
  <2>3. CASE stage = "struct"
    <3>1. Here = struct /\ Held = object
      BY <1>1, <2>3, HereIs
    <3>2. HasType(r.value, Fields[struct][fid])
      BY <1>1, <1>5, <2>1, <3>1 DEF HasType, Scalars
    <3>3. ObjectTyped(struct, With(object, fid, r.value))
      BY <1>2, <1>5, <3>1, <3>2, WithTyped
    <3>4. ObjectTyped(struct', object')
      BY <1>1, <1>8, <2>3, <3>1, <3>3
    <3>5. StructsTypeOK'
      BY <1>1, <1>8, <2>1, <3>4 DEF TypeInv, StructsTypeOK, ObjectTyped
    <3>6. InsideOK'
      BY <1>8, <2>3 DEF InsideOK
    <3> QED
      BY <2>2, <3>5, <3>6 DEF TypeInv
  <2>4. CASE stage # "struct"
    <3>1. Held = part /\ PartTyped(Here, part) /\ Here = Here'
      <4>1. Held = part /\ PartTyped(Here, part)
        BY <1>1, <2>4, HereIs DEF Held
      <4>2. Here' = Here
        BY <1>1, <1>8 DEF Here
      <4> QED
        BY <4>1, <4>2
    <3>2. PartTyped(Here, part')
      <4>1. PartTyped(Here, With(part, fid, r.value))
        BY <1>5, <2>1, <3>1, WithPartTyped
      <4> QED
        BY <1>8, <2>4, <3>1, <4>1
    <3>3. StructsTypeOK'
      BY <1>1, <1>8, <2>1, <2>4 DEF TypeInv, StructsTypeOK
    <3>4. stage = "element" => Here = "data_info"
      BY <1>1, HereIs
    <3>5. stage = "member" => Here = "CalcException"
      BY <1>1, HereIs
    <3>6. InsideOK'
      BY <1>1, <1>8, <2>4, <3>2, <3>4, <3>5 DEF TypeInv, InsideOK
    <3> QED
      BY <2>2, <3>3, <3>6 DEF TypeInv
  <2> QED
    BY <2>3, <2>4
<1> QED
  BY <1>6, <1>7, <1>8

LEMMA EmptyList ==
  ASSUME NEW type, type.ttype = "list"
  PROVE  HasType(<< >>, type)
BY DEF HasType

\* Only the loop of the struct meets a list or a struct that it knows.
LEMMA OnlyInTheStruct ==
  ASSUME TypeInv, stage # "list", WellTyped(Here, Head(wire)), Head(wire).ttype \notin Scalars
  PROVE  stage = "struct" /\ Here = struct /\ Head(wire).fid \in DOMAIN Fields[struct]
         /\ Head(wire).ttype = Fields[struct][Head(wire).fid].ttype
<1>1. stage = "struct" /\ Here = struct
  BY HereIs
<1> QED
  BY <1>1 DEF WellTyped

LEMMA ReadListBeginTyped ==
  ASSUME TypeInv, ReadListBegin
  PROVE  TypeInv'
<1>1. /\ stage # "list" /\ wire # << >> /\ WellTyped(Here, Head(wire))
      /\ Head(wire).ttype = "list" /\ Head(wire).ttype \notin Scalars
      /\ UNCHANGED <<struct, original, sent, writing>>
  BY DEF ReadListBegin, AtField, Scalars
<1>2. /\ Head(wire).fid \in DOMAIN Fields[struct]
      /\ Fields[struct][Head(wire).fid].ttype = "list"
  BY <1>1, OnlyInTheStruct
<1>3. CASE Len(wire) = 1 /\ Throw("broken")
  BY <1>1, <1>3, ThrowTyped
<1>4. CASE /\ Len(wire) > 1 /\ wire' = Tail(Tail(wire))
           /\ stage' = "list" /\ field' = Head(wire).fid
           /\ left' = wire[2].size /\ list' = Cleared(Head(wire).fid)
           /\ UNCHANGED <<object, reader, part>>
  <2>1. wire \in Seq(Token)
    BY DEF TypeInv, StructsTypeOK
  <2>2. Tail(wire) \in Seq(Token) /\ Len(Tail(wire)) = Len(wire) - 1 /\ Len(wire) \in Nat
    BY <1>1, <2>1
  <2>3. Tail(wire) # << >>
    <3>1. Len(Tail(wire)) # 0 /\ Len(<< >>) = 0
      BY <1>4, <2>2
    <3> QED
      BY <3>1
  <2>4. wire' \in Seq(Token)
    BY <1>4, <2>2, <2>3
  <2>5. StructsTypeOK'
    BY <1>1, <1>4, <2>4 DEF TypeInv, StructsTypeOK
  <2>6. SentInv'
    BY <1>1, SameMessage DEF TypeInv
  <2>7. HasType(list', Fields[struct][field'])
    BY <1>2, <1>4, EmptyList DEF Cleared
  <2>8. InsideOK'
    BY <1>1, <1>2, <1>4, <2>7 DEF InsideOK
  <2> QED
    BY <2>5, <2>6, <2>8 DEF TypeInv
<1> QED
  BY <1>3, <1>4 DEF ReadListBegin

LEMMA ReadStructBeginTyped ==
  ASSUME TypeInv, ReadStructBegin
  PROVE  TypeInv'
<1> DEFINE fid == Head(wire).fid
<1>1. /\ stage # "list" /\ wire # << >> /\ WellTyped(Here, Head(wire))
      /\ Head(wire).ttype = "struct" /\ Head(wire).ttype \notin Scalars
      /\ UNCHANGED <<struct, original, sent, writing, object, reader, left, list>>
      /\ wire' = Tail(wire) /\ stage' = "member" /\ field' = fid
      /\ part' = IF fid \in DOMAIN object THEN object[fid] ELSE Empty
  BY DEF ReadStructBegin, AtField, Scalars
<1>2. fid \in DOMAIN Fields[struct] /\ Fields[struct][fid].ttype = "struct"
  BY <1>1, OnlyInTheStruct
<1> HIDE DEF fid
<1>3. wire' \in Seq(Token) /\ struct \in Structs
  BY <1>1 DEF TypeInv, StructsTypeOK, Structs
<1>4. StructsTypeOK'
  BY <1>1, <1>3 DEF TypeInv, StructsTypeOK
<1>5. SentInv'
  BY <1>1, SameMessage DEF TypeInv
<1>6. PartTyped("CalcException", part')
  <2>1. Fields[struct][fid].of = "CalcException"
    BY <1>2, <1>3, TablesOK DEF TableOK
  <2>2. CASE fid \in DOMAIN object
    <3>1. HasType(object[fid], Fields[struct][fid])
      BY <2>2 DEF TypeInv, StructsTypeOK
    <3> QED
      BY <1>1, <1>2, <2>1, <2>2, <3>1 DEF HasType, PartTyped
  <2>3. CASE fid \notin DOMAIN object
    BY <1>1, <2>3, EmptyTyped
  <2> QED
    BY <2>2, <2>3
<1>7. InsideOK'
  BY <1>1, <1>2, <1>6 DEF InsideOK
<1> QED
  BY <1>4, <1>5, <1>7 DEF TypeInv

LEMMA SkipFieldTyped ==
  ASSUME TypeInv, SkipField
  PROVE  TypeInv'
<1> DEFINE r == Skipped(Head(wire).ttype, Tail(wire))
<1>1. wire # << >> /\ UNCHANGED <<struct, original, sent, writing>>
  BY DEF SkipField, AtField
<1>2. wire \in Seq(Token) /\ Tail(wire) \in Seq(Token)
  BY <1>1 DEF TypeInv, StructsTypeOK
<1>3. r.status \in {"ok", "broken"} /\ (r.status = "ok" => r.rest \in Seq(Token))
  BY <1>2, SkippedTyped
<1>4. \/ /\ r.status = "ok" /\ wire' = r.rest
         /\ UNCHANGED <<object, reader, stage, field, left, list, part>>
      \/ r.status # "ok" /\ Throw(r.status)
  BY DEF SkipField, inside
<1> HIDE DEF r
<1>5. CASE r.status # "ok" /\ Throw(r.status)
  BY <1>1, <1>3, <1>5, ThrowTyped
<1>6. CASE /\ r.status = "ok" /\ wire' = r.rest
           /\ UNCHANGED <<object, reader, stage, field, left, list, part>>
  <2>1. StructsTypeOK'
    BY <1>1, <1>3, <1>6 DEF TypeInv, StructsTypeOK
  <2>2. SentInv'
    BY <1>1, SameMessage DEF TypeInv
  <2>3. InsideOK'
    BY <1>1, <1>6 DEF TypeInv, InsideOK
  <2> QED
    BY <2>1, <2>2, <2>3 DEF TypeInv
<1> QED
  BY <1>4, <1>5, <1>6

LEMMA ListGrows ==
  ASSUME NEW type, type.ttype = "list", NEW l, HasType(l, type), NEW v,
         type.of = "data_info" => v \in [1..4 -> Int],
         type.of # "data_info" => v \in Int
  PROVE  HasType(Append(l, v), type)
<1> DEFINE T == IF type.of = "data_info" THEN [DOMAIN data_info -> Int] ELSE Int
<1>1. l \in Seq(T)
  BY DEF HasType
<1>2. v \in T
  BY PartTables
<1> HIDE DEF T
<1>3. Append(l, v) \in Seq(T)
  BY <1>1, <1>2
<1> QED
  BY <1>3 DEF HasType, T

LEMMA ReadElementTyped ==
  ASSUME TypeInv, ReadElement
  PROVE  TypeInv'
<1> DEFINE of == Fields[struct][field].of
           r == ReadScalar(of, wire)
<1>1. stage = "list" /\ UNCHANGED <<struct, original, sent, writing>>
  BY DEF ReadElement
<1>2. /\ struct \in Structs /\ wire \in Seq(Token)
      /\ field \in DOMAIN Fields[struct] /\ Fields[struct][field].ttype = "list"
      /\ HasType(list, Fields[struct][field])
  BY <1>1 DEF TypeInv, StructsTypeOK, InsideOK, Structs
<1>3. of \in {"double", "data_info"}
  BY <1>2, TablesOK DEF TableOK
<1>4. \/ /\ of = "data_info"
         /\ stage' = "element" /\ part' = Empty
         /\ UNCHANGED <<wire, object, reader, field, list>>
      \/ /\ of # "data_info" /\ r.status = "ok"
         /\ wire' = r.rest /\ list' = Append(list, r.value)
         /\ UNCHANGED <<object, reader, stage, field, part>>
      \/ of # "data_info" /\ r.status # "ok" /\ Throw(r.status)
  BY DEF ReadElement
<1>5. SentInv'
  BY <1>1, SameMessage DEF TypeInv
<1>6. ASSUME of # "data_info"
      PROVE  /\ r.status \in {"ok", "broken", "garbled"}
             /\ r.status = "ok" => r.value \in Int /\ r.rest \in Seq(Token)
  <2>1. of \in Scalars
    BY <1>3, <1>6 DEF Scalars
  <2> QED
    BY <1>2, <2>1, ReadScalarTyped
<1> HIDE DEF of, r
<1>7. CASE /\ of = "data_info"
           /\ stage' = "element" /\ part' = Empty
           /\ UNCHANGED <<wire, object, reader, field, list>>
  <2>1. StructsTypeOK'
    BY <1>1, <1>7 DEF TypeInv, StructsTypeOK
  <2>2. InsideOK'
    BY <1>1, <1>2, <1>7, EmptyTyped DEF InsideOK, of
  <2> QED
    BY <1>5, <2>1, <2>2 DEF TypeInv
<1>8. CASE /\ of # "data_info" /\ r.status = "ok"
           /\ wire' = r.rest /\ list' = Append(list, r.value)
           /\ UNCHANGED <<object, reader, stage, field, part>>
  <2>1. r.value \in Int /\ wire' \in Seq(Token)
    BY <1>6, <1>8
  <2>2. StructsTypeOK'
    BY <1>1, <1>8, <2>1 DEF TypeInv, StructsTypeOK
  <2>3. HasType(list', Fields[struct][field])
    BY <1>2, <1>8, <2>1, ListGrows DEF of
  <2>4. InsideOK'
    BY <1>1, <1>2, <1>8, <2>3 DEF InsideOK
  <2> QED
    BY <1>5, <2>2, <2>4 DEF TypeInv
<1>9. CASE of # "data_info" /\ r.status # "ok" /\ Throw(r.status)
  BY <1>1, <1>6, <1>9, ThrowTyped
<1> QED
  BY <1>4, <1>7, <1>8, <1>9

LEMMA EndListTyped ==
  ASSUME TypeInv, EndList
  PROVE  TypeInv'
<1>1. /\ stage = "list" /\ object' = With(object, field, list) /\ stage' = "struct"
      /\ UNCHANGED <<struct, original, sent, writing, wire, reader>>
  BY DEF EndList, Outside
<1>2. /\ field \in DOMAIN Fields[struct] /\ HasType(list, Fields[struct][field])
      /\ ObjectTyped(struct, object)
  BY <1>1 DEF TypeInv, StructsTypeOK, InsideOK, ObjectTyped
<1>3. ObjectTyped(struct', object')
  BY <1>1, <1>2, WithTyped
<1>4. StructsTypeOK'
  BY <1>1, <1>3 DEF TypeInv, StructsTypeOK, ObjectTyped
<1>5. SentInv'
  BY <1>1, SameMessage DEF TypeInv
<1>6. InsideOK'
  BY <1>1 DEF InsideOK
<1> QED
  BY <1>4, <1>5, <1>6 DEF TypeInv

LEMMA ReadStopTyped ==
  ASSUME TypeInv, ReadStop
  PROVE  TypeInv'
<1>1. /\ stage # "list" /\ wire # << >> /\ wire \in Seq(Token) /\ Tail(wire) \in Seq(Token)
      /\ UNCHANGED <<struct, original, sent, writing>>
  <2>1. stage # "list" /\ wire # << >> /\ UNCHANGED <<struct, original, sent, writing>>
    BY DEF ReadStop
  <2>2. wire \in Seq(Token)
    BY DEF TypeInv, StructsTypeOK
  <2> QED
    BY <2>1, <2>2
<1>2. SentInv'
  BY <1>1, SameMessage DEF TypeInv
<1>3. CASE /\ Complete /\ stage = "struct"
           /\ reader' = "returned" /\ wire' = Tail(wire)
           /\ UNCHANGED <<object, inside>>
  <2>1. UNCHANGED <<object, stage, field, left, list, part>>
    BY <1>3 DEF inside
  <2>2. StructsTypeOK'
    BY <1>1, <1>3, <2>1 DEF TypeInv, StructsTypeOK
  <2>3. InsideOK'
    BY <1>3, <2>1 DEF InsideOK
  <2> QED
    BY <1>2, <2>2, <2>3 DEF TypeInv
<1>4. CASE /\ Complete /\ stage = "element"
           /\ list' = Append(list, part) /\ wire' = Tail(wire)
           /\ stage' = "list" /\ part' = Empty
           /\ UNCHANGED <<object, reader, field, left>>
  <2>1. /\ field \in DOMAIN Fields[struct] /\ Fields[struct][field].ttype = "list"
        /\ Fields[struct][field].of = "data_info" /\ HasType(list, Fields[struct][field])
        /\ PartTyped("data_info", part)
    BY <1>4 DEF TypeInv, InsideOK
  <2>2. part \in [1..4 -> Int]
    <3>1. Here = "data_info" /\ Held = part
      BY <1>1, <1>4, HereIs
    <3>2. 1..4 \subseteq DOMAIN part
      BY <1>4, <3>1, PartTables DEF Complete
    <3>3. PICK fids \in SUBSET (1..4) : part \in [fids -> Int]
      BY <2>1, PartTables DEF PartTyped
    <3>4. fids = 1..4
      BY <3>2, <3>3
    <3> QED
      BY <3>3, <3>4
  <2>3. HasType(list', Fields[struct][field])
    BY <1>4, <2>1, <2>2, ListGrows
  <2>4. StructsTypeOK'
    BY <1>1, <1>4 DEF TypeInv, StructsTypeOK
  <2>5. InsideOK'
    BY <1>1, <1>4, <2>1, <2>3 DEF InsideOK
  <2> QED
    BY <1>2, <2>4, <2>5 DEF TypeInv
<1>5. CASE /\ Complete /\ stage = "member"
           /\ object' = With(object, field, part) /\ wire' = Tail(wire)
           /\ Outside
           /\ UNCHANGED reader
  <2>1. /\ field \in DOMAIN Fields[struct] /\ Fields[struct][field].ttype = "struct"
        /\ PartTyped("CalcException", part) /\ ObjectTyped(struct, object) /\ struct \in Structs
    BY <1>5 DEF TypeInv, StructsTypeOK, InsideOK, ObjectTyped, Structs
  <2>2. HasType(part, Fields[struct][field])
    <3>1. Fields[struct][field].of = "CalcException"
      BY <2>1, TablesOK DEF TableOK
    <3> QED
      BY <2>1, <3>1 DEF HasType, PartTyped
  <2>3. ObjectTyped(struct', object')
    BY <1>1, <1>5, <2>1, <2>2, WithTyped
  <2>4. stage' = "struct"
    BY <1>5 DEF Outside
  <2>5. StructsTypeOK'
    BY <1>1, <1>5, <2>3, <2>4 DEF TypeInv, StructsTypeOK, ObjectTyped
  <2>6. InsideOK'
    BY <2>4 DEF InsideOK
  <2> QED
    BY <1>2, <2>5, <2>6 DEF TypeInv
<1>6. CASE ~ Complete /\ Throw("invalid")
  BY <1>1, <1>6, ThrowTyped
<1> QED
  BY <1>3, <1>4, <1>5, <1>6 DEF ReadStop

LEMMA TypeInit == StructsInit => TypeInv
<1> SUFFICES ASSUME StructsInit PROVE TypeInv
  OBVIOUS
<1>1. DOMAIN Empty = {}
  BY EmptyTyped
<1>2. StructsTypeOK
  BY <1>1 DEF StructsInit, StructsTypeOK
<1>3. SentInv
  BY DEF StructsInit, SentInv
<1>4. InsideOK
  BY DEF StructsInit, InsideOK
<1> QED
  BY <1>2, <1>3, <1>4 DEF TypeInv

LEMMA TypeNext == TypeInv /\ [StructsNext]_structVars => TypeInv'
<1> SUFFICES ASSUME TypeInv, [StructsNext]_structVars PROVE TypeInv'
  OBVIOUS
<1>1. CASE WriteStruct
  BY <1>1, WriteStructTyped
<1>2. CASE PeerWrites
  BY <1>2, PeerWritesTyped
<1>3. CASE PeerStops
  BY <1>3, PeerStopsTyped
<1>4. CASE Lose
  BY <1>4, LoseTyped
<1>5. CASE ReadScalarField
  BY <1>5, ReadScalarFieldTyped
<1>6. CASE ReadListBegin
  BY <1>6, ReadListBeginTyped
<1>7. CASE ReadStructBegin
  BY <1>7, ReadStructBeginTyped
<1>8. CASE SkipField
  BY <1>8, SkipFieldTyped
<1>9. CASE ReadElement
  BY <1>9, ReadElementTyped
<1>10. CASE EndList
  BY <1>10, EndListTyped
<1>11. CASE ReadStop
  BY <1>11, ReadStopTyped
<1>12. CASE ReadNothing
  BY <1>12, ThrowTyped DEF ReadNothing
<1>13. CASE ReadNonsense
  BY <1>13, ThrowTyped DEF ReadNonsense
<1>14. ASSUME NEW s \in Args \cup Results, NextStruct(s) PROVE TypeInv'
  BY <1>14, NextStructTyped
<1>15. CASE UNCHANGED structVars
  <2>1. UNCHANGED <<struct, original, sent, writing, wire, object, reader, stage, field, list, part>>
    BY <1>15 DEF structVars, inside
  <2>2. SentInv'
    BY <2>1, SameMessage DEF TypeInv
  <2>3. StructsTypeOK' /\ InsideOK'
    BY <2>1 DEF TypeInv, StructsTypeOK, InsideOK
  <2> QED
    BY <2>2, <2>3 DEF TypeInv
<1> QED
  BY <1>1, <1>2, <1>3, <1>4, <1>5, <1>6, <1>7, <1>8, <1>9, <1>10, <1>11, <1>12, <1>13,
     <1>14, <1>15 DEF StructsNext

\* What a reader has set are members of the struct with their types, whatever the
\* other end sends: every data_info in a list has all four of its members.
THEOREM StructsTypeCorrect == StructsSpec => []StructsTypeOK
<1>1. StructsSpec => []TypeInv
  BY TypeInit, TypeNext, PTL DEF StructsSpec
<1>2. TypeInv => StructsTypeOK
  BY DEF TypeInv
<1> QED
  BY <1>1, <1>2, PTL

-----------------------------------------------------------------------------
(***************************************************************************)
(* What the fields mean, one field after the other.                        *)
(***************************************************************************)

LEMMA PlacesSame ==
  ASSUME NEW s, NEW fields, NEW n \in Nat, NEW fid,
         fields[n + 1].fid # fid \/ ~ WellTyped(s, fields[n + 1])
  PROVE  Places(s, fields, n + 1, fid) = Places(s, fields, n, fid)
<1>1. 1..(n + 1) = (1..n) \cup {n + 1}
  OBVIOUS
<1> QED
  BY <1>1 DEF Places

LEMMA PlacesNext ==
  ASSUME NEW s, NEW fields, NEW n \in Nat, WellTyped(s, fields[n + 1])
  PROVE  LET fid == fields[n + 1].fid IN
         /\ Places(s, fields, n + 1, fid) = Places(s, fields, n, fid) \cup {n + 1}
         /\ Places(s, fields, n, fid) \in SUBSET (1..n)
<1>1. 1..(n + 1) = (1..n) \cup {n + 1}
  OBVIOUS
<1> QED
  BY <1>1 DEF Places

\* Before the first field nothing is said.
LEMMA NothingSaid ==
  ASSUME NEW s, NEW fields
  PROVE  /\ \A fid : Places(s, fields, 0, fid) = {}
         /\ Said(s, fields, 0) = {}
         /\ PartMeaning(s, fields, 0) = Empty /\ Meaning(s, fields, 0) = Empty
<1>1. \A fid : Places(s, fields, 0, fid) = {}
  BY DEF Places
<1>2. Said(s, fields, 0) = {}
  BY <1>1 DEF Said
<1> QED
  BY <1>1, <1>2 DEF PartMeaning, Meaning, Empty

\* The last one of the places that include the newest is the newest.
LEMMA NewestIsLast ==
  ASSUME NEW n \in Nat, NEW S \in SUBSET (1..n)
  PROVE  Max(S \cup {n + 1}) = n + 1
<1>1. \A m \in S \cup {n + 1} : m <= n + 1
  OBVIOUS
<1>2. S \cup {n + 1} \in SUBSET Int /\ n + 1 \in S \cup {n + 1}
  OBVIOUS
<1> QED
  BY <1>1, <1>2, GreatestIs

\* A field that is not known, or has another type, says nothing.
LEMMA SaidSkipped ==
  ASSUME NEW s, NEW fields, NEW n \in Nat, ~ WellTyped(s, fields[n + 1])
  PROVE  /\ \A fid : Places(s, fields, n + 1, fid) = Places(s, fields, n, fid)
         /\ Said(s, fields, n + 1) = Said(s, fields, n)
<1>1. \A fid : Places(s, fields, n + 1, fid) = Places(s, fields, n, fid)
  BY PlacesSame
<1> QED
  BY <1>1 DEF Said

LEMMA SaidNext ==
  ASSUME NEW s, NEW fields, NEW n \in Nat, WellTyped(s, fields[n + 1])
  PROVE  LET fid == fields[n + 1].fid IN
         /\ Said(s, fields, n + 1) = Said(s, fields, n) \cup {fid}
         /\ LastOne(s, fields, n + 1, fid) = fields[n + 1].value
         /\ \A g : g # fid => /\ Places(s, fields, n + 1, g) = Places(s, fields, n, g)
                              /\ LastOne(s, fields, n + 1, g) = LastOne(s, fields, n, g)
<1> DEFINE fid == fields[n + 1].fid
<1>1. /\ Places(s, fields, n + 1, fid) = Places(s, fields, n, fid) \cup {n + 1}
      /\ Places(s, fields, n, fid) \in SUBSET (1..n)
  BY PlacesNext
<1>2. \A g : g # fid => Places(s, fields, n + 1, g) = Places(s, fields, n, g)
  BY PlacesSame
<1>3. fid \in DOMAIN Fields[s]
  BY DEF WellTyped
<1> HIDE DEF fid
<1>4. Max(Places(s, fields, n + 1, fid)) = n + 1
  BY <1>1, NewestIsLast
<1>5. LastOne(s, fields, n + 1, fid) = fields[n + 1].value
  BY <1>4 DEF LastOne
<1>6. \A g : g # fid => LastOne(s, fields, n + 1, g) = LastOne(s, fields, n, g)
  BY <1>2 DEF LastOne
<1>7. Said(s, fields, n + 1) = Said(s, fields, n) \cup {fid}
  <2>1. Places(s, fields, n + 1, fid) # {}
    BY <1>1
  <2> QED
    BY <1>2, <1>3, <2>1 DEF Said
<1> QED
  BY <1>2, <1>5, <1>6, <1>7 DEF fid

LEMMA PartMeaningSkipped ==
  ASSUME NEW s, NEW fields, NEW n \in Nat, ~ WellTyped(s, fields[n + 1])
  PROVE  PartMeaning(s, fields, n + 1) = PartMeaning(s, fields, n)
<1>1. \A fid : LastOne(s, fields, n + 1, fid) = LastOne(s, fields, n, fid)
  BY SaidSkipped DEF LastOne
<1>2. Said(s, fields, n + 1) = Said(s, fields, n)
  BY SaidSkipped
<1> QED
  BY <1>1, <1>2 DEF PartMeaning

LEMMA PartMeaningNext ==
  ASSUME NEW s, NEW fields, NEW n \in Nat, WellTyped(s, fields[n + 1])
  PROVE  PartMeaning(s, fields, n + 1)
           = With(PartMeaning(s, fields, n), fields[n + 1].fid, fields[n + 1].value[1].number)
<1> DEFINE fid == fields[n + 1].fid
           v == fields[n + 1].value
           last(g) == LastOne(s, fields, n, g)
           next(g) == LastOne(s, fields, n + 1, g)
           S == Said(s, fields, n)
<1>1. /\ Said(s, fields, n + 1) = S \cup {fid} /\ next(fid) = v
      /\ \A g : g # fid => next(g) = last(g)
  BY SaidNext
<1>2. /\ PartMeaning(s, fields, n) = [g \in S |-> last(g)[1].number]
      /\ PartMeaning(s, fields, n + 1) = [g \in S \cup {fid} |-> next(g)[1].number]
  BY <1>1 DEF PartMeaning
<1>3. With(PartMeaning(s, fields, n), fid, v[1].number)
        = [g \in S \cup {fid} |-> IF g = fid THEN v[1].number ELSE last(g)[1].number]
  <2> HIDE DEF fid, v, S, last
  <2>1. DOMAIN PartMeaning(s, fields, n) = S
    BY <1>2
  <2>2. \A g \in S : PartMeaning(s, fields, n)[g] = last(g)[1].number
    BY <1>2
  <2> QED
    BY <2>1, <2>2 DEF With
<1> HIDE DEF fid, v, S, last, next
<1>4. \A g \in S \cup {fid} :
        next(g)[1].number = IF g = fid THEN v[1].number ELSE last(g)[1].number
  BY <1>1
<1>5. PartMeaning(s, fields, n + 1) = With(PartMeaning(s, fields, n), fid, v[1].number)
  BY <1>2, <1>3, <1>4
<1> QED
  BY <1>5 DEF fid, v

\* What is said of a field depends on where it is said.
LEMMA ValueSame ==
  ASSUME NEW s, NEW fields, NEW n, NEW k, NEW fid,
         Places(s, fields, k, fid) = Places(s, fields, n, fid)
  PROVE  ValueMeaning(s, fields, k, fid) = ValueMeaning(s, fields, n, fid)
<1>1. LastOne(s, fields, k, fid) = LastOne(s, fields, n, fid)
  BY DEF LastOne
<1>2. \A m : Naming(s, fields, k, fid, m) = Naming(s, fields, n, fid, m)
  BY DEF Naming
<1>3. AddedUp(s, fields, k, fid) = AddedUp(s, fields, n, fid)
  BY <1>2 DEF AddedUp
<1> QED
  BY <1>1, <1>3 DEF ValueMeaning

LEMMA MeaningSkipped ==
  ASSUME NEW s, NEW fields, NEW n \in Nat, ~ WellTyped(s, fields[n + 1])
  PROVE  Meaning(s, fields, n + 1) = Meaning(s, fields, n)
<1>1. \A fid : Places(s, fields, n + 1, fid) = Places(s, fields, n, fid)
      /\ Said(s, fields, n + 1) = Said(s, fields, n)
  BY SaidSkipped
<1>2. \A fid : ValueMeaning(s, fields, n + 1, fid) = ValueMeaning(s, fields, n, fid)
  <2>1. TAKE fid
  <2>2. Places(s, fields, n + 1, fid) = Places(s, fields, n, fid)
    BY <1>1
  <2> QED
    BY <2>2, ValueSame
<1>3. Said(s, fields, n + 1) = Said(s, fields, n)
  BY <1>1
<1> QED
  BY <1>2, <1>3 DEF Meaning

\* One that is known says what its field is now.
LEMMA MeaningNext ==
  ASSUME NEW s, NEW fields, NEW n \in Nat, WellTyped(s, fields[n + 1])
  PROVE  LET fid == fields[n + 1].fid IN
         Meaning(s, fields, n + 1)
           = With(Meaning(s, fields, n), fid, ValueMeaning(s, fields, n + 1, fid))
<1> DEFINE fid == fields[n + 1].fid
           S == Said(s, fields, n)
           old(g) == ValueMeaning(s, fields, n, g)
           new(g) == ValueMeaning(s, fields, n + 1, g)
<1>1. Said(s, fields, n + 1) = S \cup {fid}
  BY SaidNext
<1>2. \A g : g # fid => Places(s, fields, n + 1, g) = Places(s, fields, n, g)
  BY SaidNext
<1>3. \A g : g # fid => new(g) = old(g)
  <2> HIDE DEF fid
  <2>1. TAKE g
  <2>2. HAVE g # fid
  <2>3. Places(s, fields, n + 1, g) = Places(s, fields, n, g)
    BY <1>2, <2>2
  <2> QED
    BY <2>3, ValueSame
<1>4. /\ Meaning(s, fields, n) = [g \in S |-> old(g)]
      /\ Meaning(s, fields, n + 1) = [g \in S \cup {fid} |-> new(g)]
  BY <1>1 DEF Meaning
<1> HIDE DEF fid, S, old, new
<1>5. DOMAIN Meaning(s, fields, n) = S /\ \A g \in S : Meaning(s, fields, n)[g] = old(g)
  BY <1>4
<1>6. With(Meaning(s, fields, n), fid, new(fid))
        = [g \in S \cup {fid} |-> IF g = fid THEN new(fid) ELSE old(g)]
  BY <1>5 DEF With
<1>7. Meaning(s, fields, n + 1) = With(Meaning(s, fields, n), fid, new(fid))
  BY <1>3, <1>4, <1>6
<1> QED
  BY <1>7 DEF fid, new

\* A scalar and a list: what the last one says.
LEMMA ScalarNext ==
  ASSUME NEW s, NEW fields, NEW n \in Nat, WellTyped(s, fields[n + 1]),
         fields[n + 1].ttype \in Scalars
  PROVE  ValueMeaning(s, fields, n + 1, fields[n + 1].fid) = fields[n + 1].value[1].number
<1> DEFINE fid == fields[n + 1].fid
<1>1. LastOne(s, fields, n + 1, fid) = fields[n + 1].value
  BY SaidNext
<1>2. Fields[s][fid].ttype = fields[n + 1].ttype
  BY DEF WellTyped
<1>3. Fields[s][fid].ttype # "struct" /\ Fields[s][fid].ttype # "list"
  BY <1>2 DEF Scalars
<1> HIDE DEF fid
<1>4. ValueMeaning(s, fields, n + 1, fid) = fields[n + 1].value[1].number
  BY <1>1, <1>3 DEF ValueMeaning
<1> QED
  BY <1>4 DEF fid

LEMMA ListNext ==
  ASSUME NEW s, NEW fields, NEW n \in Nat, WellTyped(s, fields[n + 1]),
         fields[n + 1].ttype = "list"
  PROVE  LET f == fields[n + 1] IN
         ValueMeaning(s, fields, n + 1, f.fid)
           = [i \in DOMAIN f.value.elements |->
                ElementMeaning(Fields[s][f.fid].of, f.value.elements[i])]
<1> DEFINE fid == fields[n + 1].fid
<1>1. LastOne(s, fields, n + 1, fid) = fields[n + 1].value
  BY SaidNext
<1>2. Fields[s][fid].ttype = "list"
  BY DEF WellTyped
<1> HIDE DEF fid
<1>3. ValueMeaning(s, fields, n + 1, fid)
        = [i \in DOMAIN fields[n + 1].value.elements |->
             ElementMeaning(Fields[s][fid].of, fields[n + 1].value.elements[i])]
  BY <1>1, <1>2 DEF ValueMeaning
<1> QED
  BY <1>3 DEF fid

\* Reading a part over an object that has some members already.
Over(old, new) ==
  [m \in DOMAIN old \cup DOMAIN new |-> IF m \in DOMAIN new THEN new[m] ELSE old[m]]

LEMMA OverEmpty ==
  ASSUME NEW old, old = [m \in DOMAIN old |-> old[m]]
  PROVE  Over(old, Empty) = old
<1>1. DOMAIN Empty = {}
  BY EmptyTyped
<1>2. DOMAIN old \cup {} = DOMAIN old
  OBVIOUS
<1>3. Over(old, Empty) = [m \in DOMAIN old |-> old[m]]
  BY <1>1, <1>2 DEF Over
<1> QED
  BY <1>3

LEMMA OverWith ==
  ASSUME NEW old, NEW new, NEW fid, NEW v
  PROVE  Over(old, With(new, fid, v)) = With(Over(old, new), fid, v)
<1> DEFINE w == With(new, fid, v)
           o == Over(old, new)
           a == Over(old, w)
           b == With(o, fid, v)
<1>1. DOMAIN w = DOMAIN new \cup {fid} /\ DOMAIN o = DOMAIN old \cup DOMAIN new
  BY DEF With, Over
<1>2. \A m \in DOMAIN w : w[m] = IF m = fid THEN v ELSE new[m]
  BY DEF With
<1>3. \A m \in DOMAIN o : o[m] = IF m \in DOMAIN new THEN new[m] ELSE old[m]
  BY DEF Over
<1> HIDE DEF w, o
<1>4. a = [m \in DOMAIN old \cup DOMAIN w |-> IF m \in DOMAIN w THEN w[m] ELSE old[m]]
  BY DEF Over
<1>5. b = [m \in DOMAIN o \cup {fid} |-> IF m = fid THEN v ELSE o[m]]
  BY DEF With
<1>6. DOMAIN old \cup DOMAIN w = DOMAIN o \cup {fid}
  BY <1>1
<1>7. \A m \in DOMAIN o \cup {fid} :
        (IF m \in DOMAIN w THEN w[m] ELSE old[m]) = (IF m = fid THEN v ELSE o[m])
  BY <1>1, <1>2, <1>3
<1>8. a = b
  BY <1>4, <1>5, <1>6, <1>7
<1> QED
  BY <1>8 DEF w, o

\* Two structs add up: the newer one is read over what was there.
LEMMA StructNext ==
  ASSUME NEW s, NEW fields, NEW n \in Nat, WellTyped(s, fields[n + 1]),
         fields[n + 1].ttype = "struct"
  PROVE  LET f == fields[n + 1]
             of == Fields[s][f.fid].of
         IN ValueMeaning(s, fields, n + 1, f.fid)
              = Over(AddedUp(s, fields, n, f.fid), PartMeaning(of, f.value, Len(f.value)))
<1> DEFINE fid == fields[n + 1].fid
           v == fields[n + 1].value
           of == Fields[s][fid].of
           pm == PartMeaning(of, v, Len(v))
           old(m) == Naming(s, fields, n, fid, m)
           new(m) == Naming(s, fields, n + 1, fid, m)
           said == Said(of, v, Len(v))
           M(i, m) == PartMeaning(of, fields[i].value, Len(fields[i].value))[m]
<1>1. Fields[s][fid].ttype = "struct"
  BY DEF WellTyped
<1>2. /\ Places(s, fields, n + 1, fid) = Places(s, fields, n, fid) \cup {n + 1}
      /\ Places(s, fields, n, fid) \in SUBSET (1..n)
  BY PlacesNext
<1>3. \A m : new(m) = old(m) \cup (IF m \in said THEN {n + 1} ELSE {})
  BY <1>2 DEF Naming
<1>4. \A m : old(m) \in SUBSET (1..n)
  BY <1>2 DEF Naming
<1>5. said \subseteq DOMAIN Fields[of] /\ DOMAIN pm = said
  BY DEF Said, PartMeaning
<1>6. AddedUp(s, fields, n, fid)
        = [m \in {k \in DOMAIN Fields[of] : old(k) # {}} |-> M(Max(old(m)), m)]
  BY DEF AddedUp
<1>7. AddedUp(s, fields, n + 1, fid)
        = [m \in {k \in DOMAIN Fields[of] : new(k) # {}} |-> M(Max(new(m)), m)]
  BY DEF AddedUp
<1>8. \A m : M(n + 1, m) = pm[m]
  OBVIOUS
<1>9. ValueMeaning(s, fields, n + 1, fid) = AddedUp(s, fields, n + 1, fid)
  BY <1>1 DEF ValueMeaning
<1> HIDE DEF fid, v, of, pm, old, new, said, M
<1> DEFINE A == AddedUp(s, fields, n, fid)
           D == {k \in DOMAIN Fields[of] : old(k) # {}}
<1>10. DOMAIN A = D /\ \A m \in D : A[m] = M(Max(old(m)), m)
  BY <1>6
<1>11. {k \in DOMAIN Fields[of] : new(k) # {}} = D \cup said
  BY <1>3, <1>5
<1> HIDE DEF A, D
<1>12. \A m \in D \cup said :
         M(Max(new(m)), m) = IF m \in said THEN pm[m] ELSE A[m]
  <2>1. TAKE m \in D \cup said
  <2>2. CASE m \in said
    <3>1. new(m) = old(m) \cup {n + 1} /\ old(m) \in SUBSET (1..n)
      BY <1>3, <1>4, <2>2
    <3>2. Max(new(m)) = n + 1
      BY <3>1, NewestIsLast
    <3> QED
      BY <1>8, <2>2, <3>2
  <2>3. CASE m \notin said
    <3>1. new(m) = old(m) /\ m \in D
      BY <1>3, <2>1, <2>3
    <3> QED
      BY <1>10, <2>3, <3>1
  <2> QED
    BY <2>2, <2>3
<1>13. AddedUp(s, fields, n + 1, fid)
         = [m \in D \cup said |-> IF m \in said THEN pm[m] ELSE A[m]]
  BY <1>7, <1>11, <1>12
<1>14. Over(A, pm) = [m \in D \cup said |-> IF m \in said THEN pm[m] ELSE A[m]]
  BY <1>5, <1>10 DEF Over
<1> QED
  BY <1>9, <1>13, <1>14 DEF A, fid, v, of, pm

\* What is held of a struct before it comes again.
LEMMA HeldBefore ==
  ASSUME NEW s, NEW fields, NEW n, NEW fid \in DOMAIN Fields[s], Fields[s][fid].ttype = "struct"
  PROVE  LET o == Meaning(s, fields, n)
             A == AddedUp(s, fields, n, fid)
         IN /\ A = IF fid \in DOMAIN o THEN o[fid] ELSE Empty
            /\ A = [m \in DOMAIN A |-> A[m]]
<1> DEFINE o == Meaning(s, fields, n)
           A == AddedUp(s, fields, n, fid)
<1>1. DOMAIN o = Said(s, fields, n)
      /\ \A g \in Said(s, fields, n) : o[g] = ValueMeaning(s, fields, n, g)
  BY DEF Meaning
<1>2. A = [m \in DOMAIN A |-> A[m]]
  BY DEF AddedUp
<1>3. CASE fid \in DOMAIN o
  <2>1. ValueMeaning(s, fields, n, fid) = A
    BY DEF ValueMeaning
  <2> QED
    BY <1>1, <1>2, <1>3, <2>1
<1>4. CASE fid \notin DOMAIN o
  <2>1. Places(s, fields, n, fid) = {}
    BY <1>1, <1>4 DEF Said
  <2>2. \A m : Naming(s, fields, n, fid, m) = {}
    BY <2>1 DEF Naming
  <2>3. A = Empty
    BY <2>2 DEF AddedUp, Empty
  <2> QED
    BY <1>2, <1>4, <2>3
<1> QED
  BY <1>3, <1>4

-----------------------------------------------------------------------------
(***************************************************************************)
(* What is left of a message after its first fields, of a part after its   *)
(* first members, of a list after its first elements.                      *)
(***************************************************************************)

StructRest(fields, n) == From(FieldPieces(fields), n) \o <<Stop>>
PartRest(e, j, after) == From(PartPieces(e), j) \o (<<Stop>> \o after)
ListRest(v, e, after) == From(ElementPieces(v), e) \o after

LEMMA Associative ==
  ASSUME NEW a \in Seq(Token), NEW b \in Seq(Token), NEW c \in Seq(Token)
  PROVE  (a \o b) \o c = a \o (b \o c) /\ b \o c \in Seq(Token) /\ << >> \o c = c
BY ConcatAssociative, ConcatProperties

\* A field of the rest, the rest of its tokens and what follows.
LEMMA HeadingFirst ==
  ASSUME NEW h \in Token, NEW t \in Seq(Token), NEW a \in Seq(Token), NEW z \in Seq(Token)
  PROVE  /\ ((<<h>> \o t) \o a) \o z = <<h>> \o (t \o (a \o z))
         /\ t \o (a \o z) \in Seq(Token)
<1>1. <<h>> \in Seq(Token)
  OBVIOUS
<1> DEFINE k == <<h>>
<1> HIDE DEF k
<1>2. k \in Seq(Token)
  BY <1>1 DEF k
<1>3. k \o t \in Seq(Token) /\ a \o z \in Seq(Token)
  BY <1>2, Associative
<1>4. ((k \o t) \o a) \o z = (k \o t) \o (a \o z)
  <2> DEFINE kt == k \o t
  <2>1. kt \in Seq(Token)
    BY <1>3
  <2> HIDE DEF kt
  <2>2. (kt \o a) \o z = kt \o (a \o z)
    BY <2>1, Associative
  <2> QED
    BY <2>2 DEF kt
<1>5. (k \o t) \o (a \o z) = k \o (t \o (a \o z)) /\ t \o (a \o z) \in Seq(Token)
  BY <1>2, <1>3, Associative
<1> QED
  BY <1>4, <1>5 DEF k

LEMMA StructRestIs ==
  ASSUME NEW s \in Args \cup Results, NEW fields \in Seq(Sendable(s)), NEW n \in 0..Len(fields)
  PROVE  /\ From(FieldPieces(fields), n) \in Seq(Token)
         /\ StructRest(fields, n) \in Seq(Token)
         /\ n = Len(fields) => StructRest(fields, n) = <<Stop>>
<1> DEFINE p == FieldPieces(fields)
<1>1. p \in Seq(Seq(Token)) /\ Len(p) = Len(fields)
  BY FieldPiecesType
<1>2. StructRest(fields, n) = From(p, n) \o <<Stop>>
  BY DEF StructRest
<1> HIDE DEF p
<1>3. From(p, n) \in Seq(Token)
  BY <1>1, FromType
<1>4. StructRest(fields, n) \in Seq(Token)
  BY <1>2, <1>3, StopType, Associative
<1>5. ASSUME n = Len(fields) PROVE StructRest(fields, n) = <<Stop>>
  <2>1. From(p, n) = << >>
    BY <1>1, <1>5, FromEnd
  <2>2. << >> \o <<Stop>> = <<Stop>>
    OBVIOUS
  <2> QED
    BY <1>2, <2>1, <2>2
<1> QED
  BY <1>3, <1>4, <1>5 DEF p

LEMMA StructRestPeel ==
  ASSUME NEW s \in Args \cup Results, NEW fields \in Seq(Sendable(s)), NEW n \in Nat,
         n < Len(fields)
  PROVE  LET f == fields[n + 1]
             t == Tokens(f.ttype, f.value)
         IN /\ Good(s, f) /\ Heading(f) \in Token /\ Heading(f) # Stop
            /\ t \in Seq(Token) /\ t \o StructRest(fields, n + 1) \in Seq(Token)
            /\ StructRest(fields, n) = <<Heading(f)>> \o (t \o StructRest(fields, n + 1))
<1> DEFINE p == FieldPieces(fields)
           f == fields[n + 1]
           h == Heading(f)
           t == Tokens(f.ttype, f.value)
           a == From(p, n + 1)
<1>1. /\ p \in Seq(Seq(Token)) /\ Len(p) = Len(fields)
      /\ \A i \in 1..Len(fields) :
           /\ Good(s, fields[i])
           /\ p[i] = <<Heading(fields[i])>> \o Tokens(fields[i].ttype, fields[i].value)
  BY FieldPiecesType
<1>2. Len(fields) \in Nat
  OBVIOUS
<1>3. n + 1 \in 1..Len(fields) /\ n + 1 \in 0..Len(fields)
  BY <1>2
<1>4. p[n + 1] = <<h>> \o t /\ Good(s, f)
  BY <1>1, <1>3
<1>5. f.fid \in Int /\ f.ttype \in TTypes /\ t \in Seq(Token)
  BY <1>4 DEF Good
<1>6. h \in Token /\ h # Stop
  BY <1>5, HeadingType
<1> HIDE DEF p
<1>7. n \in 0..(Len(p) - 1)
  BY <1>1, <1>2
<1>8. From(p, n) = p[n + 1] \o a
  BY <1>1, <1>7, FromPeel
<1>9. StructRest(fields, n) = From(p, n) \o <<Stop>> /\ StructRest(fields, n + 1) = a \o <<Stop>>
  BY DEF StructRest, p
<1>10. a \in Seq(Token)
  BY <1>1, <1>3, FromType
<1> HIDE DEF f, h, t, a
<1>11. /\ ((<<h>> \o t) \o a) \o <<Stop>> = <<h>> \o (t \o (a \o <<Stop>>))
       /\ t \o (a \o <<Stop>>) \in Seq(Token)
  BY <1>5, <1>6, <1>10, StopType, HeadingFirst
<1>12. StructRest(fields, n) = <<h>> \o (t \o StructRest(fields, n + 1))
  BY <1>4, <1>8, <1>9, <1>11
<1>13. t \o StructRest(fields, n + 1) \in Seq(Token)
  BY <1>9, <1>11
<1> QED
  BY <1>4, <1>5, <1>6, <1>12, <1>13 DEF f, h, t

LEMMA PartRestIs ==
  ASSUME NEW e \in Seq(PartField), NEW j \in 0..Len(e), NEW after \in Seq(Token)
  PROVE  /\ PartRest(e, j, after) \in Seq(Token)
         /\ PartTokens(e) \o after = PartRest(e, 0, after)
         /\ j = Len(e) => PartRest(e, j, after) = <<Stop>> \o after
<1> DEFINE p == PartPieces(e)
           z == <<Stop>> \o after
<1>1. /\ p \in Seq(Seq(Token)) /\ Len(p) = Len(e)
      /\ PartTokens(e) = From(p, 0) \o <<Stop>> /\ From(p, 0) \in Seq(Token)
  BY PartPiecesType
<1>2. PartRest(e, j, after) = From(p, j) \o z /\ PartRest(e, 0, after) = From(p, 0) \o z
  BY DEF PartRest
<1>3. z \in Seq(Token)
  BY StopType, Associative
<1>4. (From(p, 0) \o <<Stop>>) \o after = From(p, 0) \o z
  BY <1>1, StopType, Associative
<1> HIDE DEF p, z
<1>5. From(p, j) \in Seq(Token)
  BY <1>1, FromType
<1>6. PartRest(e, j, after) \in Seq(Token)
  BY <1>2, <1>3, <1>5, Associative
<1>7. ASSUME j = Len(e) PROVE PartRest(e, j, after) = z
  <2>1. From(p, j) = << >>
    BY <1>1, <1>7, FromEnd
  <2>2. << >> \o z = z
    BY <1>3
  <2> QED
    BY <1>2, <2>1, <2>2
<1>8. PartTokens(e) \o after = PartRest(e, 0, after)
  BY <1>1, <1>2, <1>4
<1> QED
  BY <1>6, <1>7, <1>8 DEF z

LEMMA PartRestPeel ==
  ASSUME NEW e \in Seq(PartField), NEW j \in Nat, j < Len(e), NEW after \in Seq(Token)
  PROVE  LET f == e[j + 1] IN
         /\ f \in PartField /\ Heading(f) \in Token /\ Heading(f) # Stop
         /\ f.value \in Seq(Token) /\ f.value \o PartRest(e, j + 1, after) \in Seq(Token)
         /\ PartRest(e, j, after) = <<Heading(f)>> \o (f.value \o PartRest(e, j + 1, after))
<1> DEFINE p == PartPieces(e)
           z == <<Stop>> \o after
           f == e[j + 1]
           h == Heading(f)
           t == f.value
           a == From(p, j + 1)
<1>1. p \in Seq(Seq(Token)) /\ Len(p) = Len(e)
  BY PartPiecesType
<1>2. Len(e) \in Nat /\ DOMAIN e = 1..Len(e)
  OBVIOUS
<1>3. j + 1 \in 1..Len(e) /\ j + 1 \in 0..Len(e)
  BY <1>2
<1>4. p[j + 1] = <<h>> \o t
  BY <1>2, <1>3 DEF PartPieces
<1>5. f \in PartField
  BY <1>3
<1>6. f.fid \in Int /\ f.ttype \in TTypes /\ t \in Seq(Token)
  BY <1>5 DEF PartField
<1>7. h \in Token /\ h # Stop
  BY <1>6, HeadingType
<1>8. PartRest(e, j, after) = From(p, j) \o z /\ PartRest(e, j + 1, after) = a \o z
  BY DEF PartRest
<1>9. z \in Seq(Token)
  BY StopType, Associative
<1> HIDE DEF p, z
<1>10. j \in 0..(Len(p) - 1)
  BY <1>1, <1>2
<1>11. From(p, j) = p[j + 1] \o a
  BY <1>1, <1>10, FromPeel
<1>12. a \in Seq(Token)
  BY <1>1, <1>3, FromType
<1> HIDE DEF f, h, t, a
<1>13. ((<<h>> \o t) \o a) \o z = <<h>> \o (t \o (a \o z)) /\ t \o (a \o z) \in Seq(Token)
  BY <1>6, <1>7, <1>9, <1>12, HeadingFirst
<1>14. PartRest(e, j, after) = <<h>> \o (t \o PartRest(e, j + 1, after))
  BY <1>4, <1>8, <1>11, <1>13
<1>15. t \o PartRest(e, j + 1, after) \in Seq(Token)
  BY <1>8, <1>13
<1> QED
  BY <1>5, <1>6, <1>7, <1>14, <1>15 DEF f, h, t

LEMMA ListRestIs ==
  ASSUME NEW v, TypedElements(v), NEW e \in 0..Len(v.elements), NEW after \in Seq(Token)
  PROVE  /\ ListRest(v, e, after) \in Seq(Token)
         /\ ElementTokens(v) \o after = ListRest(v, 0, after)
         /\ e = Len(v.elements) => ListRest(v, e, after) = after
<1> DEFINE p == ElementPieces(v)
<1>1. /\ p \in Seq(Seq(Token)) /\ Len(p) = Len(v.elements) /\ ElementTokens(v) = From(p, 0)
  BY ElementPiecesType
<1>2. ListRest(v, e, after) = From(p, e) \o after /\ ListRest(v, 0, after) = From(p, 0) \o after
  BY DEF ListRest
<1> HIDE DEF p
<1>3. From(p, e) \in Seq(Token)
  BY <1>1, FromType
<1>4. ListRest(v, e, after) \in Seq(Token)
  BY <1>2, <1>3, Associative
<1>5. ASSUME e = Len(v.elements) PROVE ListRest(v, e, after) = after
  <2>1. From(p, e) = << >>
    BY <1>1, <1>5, FromEnd
  <2>2. << >> \o after = after
    OBVIOUS
  <2> QED
    BY <1>2, <2>1, <2>2
<1> QED
  BY <1>1, <1>2, <1>4, <1>5

LEMMA ListRestPeel ==
  ASSUME NEW v, TypedElements(v), NEW e \in Nat, e < Len(v.elements), NEW after \in Seq(Token)
  PROVE  LET k == v.elements[e + 1] IN
         /\ e + 1 \in DOMAIN v.elements /\ ListRest(v, e + 1, after) \in Seq(Token)
         /\ v.of = "struct" =>
              /\ k \in Seq(PartField)
              /\ ListRest(v, e, after) = PartRest(k, 0, ListRest(v, e + 1, after))
         /\ v.of # "struct" =>
              /\ k \in Seq(Token)
              /\ ListRest(v, e, after) = k \o ListRest(v, e + 1, after)
<1> DEFINE p == ElementPieces(v)
           k == v.elements[e + 1]
           a == From(p, e + 1)
           r == ListRest(v, e + 1, after)
<1>1. p \in Seq(Seq(Token)) /\ Len(p) = Len(v.elements) /\ Len(v.elements) \in Nat
  BY ElementPiecesType
<1>2. DOMAIN v.elements = 1..Len(v.elements)
  <2>1. v.elements \in Seq(Seq(PartField)) \/ v.elements \in Seq(Seq(Token))
    BY DEF TypedElements
  <2> QED
    BY <2>1
<1>3. e + 1 \in 1..Len(v.elements) /\ e + 1 \in 0..Len(v.elements)
  BY <1>1
<1>4. p[e + 1] = IF v.of = "struct" THEN PartTokens(k) ELSE k
  BY <1>2, <1>3 DEF ElementPieces
<1>5. ListRest(v, e, after) = From(p, e) \o after /\ r = a \o after
  BY DEF ListRest
<1> HIDE DEF p
<1>6. e \in 0..(Len(p) - 1) /\ e + 1 \in 1..Len(p)
  BY <1>1, <1>3
<1>7. From(p, e) = p[e + 1] \o a
  BY <1>1, <1>6, FromPeel
<1>8. p[e + 1] \in Seq(Token)
  BY <1>1, <1>6
<1>9. a \in Seq(Token)
  BY <1>1, <1>3, FromType
<1> HIDE DEF a, r
<1>10. r \in Seq(Token)
  BY <1>5, <1>9, Associative
<1>11. (p[e + 1] \o a) \o after = p[e + 1] \o (a \o after)
  BY <1>8, <1>9, Associative
<1>12. ListRest(v, e, after) = p[e + 1] \o r
  BY <1>5, <1>7, <1>11
<1>13. ASSUME v.of = "struct"
       PROVE  k \in Seq(PartField) /\ ListRest(v, e, after) = PartRest(k, 0, r)
  <2>1. v.elements \in Seq(Seq(PartField))
    BY <1>13 DEF TypedElements
  <2>2. k \in Seq(PartField)
    <3>1. \A i \in DOMAIN v.elements : v.elements[i] \in Seq(PartField)
      BY <2>1
    <3> QED
      BY <1>2, <1>3, <3>1
  <2> HIDE DEF k
  <2>3. 0 \in 0..Len(k)
    BY <2>2
  <2>4. PartTokens(k) \o r = PartRest(k, 0, r)
    BY <1>10, <2>2, <2>3, PartRestIs
  <2> QED
    BY <1>4, <1>12, <1>13, <2>2, <2>4
<1>14. ASSUME v.of # "struct"
       PROVE  k \in Seq(Token) /\ ListRest(v, e, after) = k \o r
  BY <1>4, <1>8, <1>12, <1>14
<1>15. e + 1 \in DOMAIN v.elements
  BY <1>2, <1>3
<1> QED
  BY <1>10, <1>13, <1>14, <1>15 DEF k, r

\* Nothing more comes only when the connection has ended.
LEMMA NothingCame ==
  ASSUME NEW how, NEW tokens \in Seq(Token), tokens # << >>, Arrives(<< >>, how, tokens)
  PROVE  how = "lost"
<1>1. Len(tokens) # 0 /\ Len(<< >>) = 0
  OBVIOUS
<1> QED
  BY <1>1 DEF Arrives

LEMMA NotNothing ==
  ASSUME NEW k \in Token, NEW rest \in Seq(Token)
  PROVE  <<k>> \o rest \in Seq(Token) /\ <<k>> \o rest # << >>
<1>1. <<k>> \o rest \in Seq(Token) /\ Len(<<k>> \o rest) = 1 + Len(rest) /\ Len(rest) \in Nat
  OBVIOUS
<1>2. Len(<< >>) = 0
  OBVIOUS
<1> QED
  BY <1>1, <1>2

\* A scalar is read as it was sent, or the connection got lost before it.
LEMMA ScalarArrives ==
  ASSUME NEW how, NEW t \in Scalars, NEW v, IsScalar(t, v), NEW w \in Seq(Token),
         NEW rest \in Seq(Token), Arrives(w, how, v \o rest)
  PROVE  LET r == ReadScalar(t, w) IN
         \/ /\ r.status = "ok" /\ r.value = v[1].number
            /\ r.rest \in Seq(Token) /\ Arrives(r.rest, how, rest)
         \/ r.status = "broken" /\ how = "lost"
<1>1. PICK k \in Int : v = <<ValueToken(t, k)>>
  BY DEF IsScalar
<1> DEFINE x == ValueToken(t, k)
<1>2. x \in Token /\ x.kind = "value" /\ x.ttype = t /\ x.number = k
  BY <1>1, ValueTokenType DEF ValueToken
<1>3. v[1].number = k
  BY <1>1, ValueTokenType
<1>4. v = <<x>>
  BY <1>1
<1> HIDE DEF x
<1>5. CASE w = << >>
  <2>1. <<x>> \o rest \in Seq(Token) /\ <<x>> \o rest # << >>
    BY <1>2, NotNothing
  <2>2. how = "lost"
    BY <1>4, <1>5, <2>1, NothingCame
  <2> QED
    BY <1>5, <2>2 DEF ReadScalar, Throws
<1>6. CASE w # << >>
  <2>1. Head(w) = x /\ Tail(w) \in Seq(Token) /\ Arrives(Tail(w), how, rest)
    BY <1>2, <1>4, <1>6, ArrivesHead
  <2>2. ReadScalar(t, w) = Got(k, Tail(w))
    BY <1>2, <1>6, <2>1 DEF ReadScalar
  <2> QED
    BY <1>3, <2>1, <2>2 DEF Got
<1> QED
  BY <1>5, <1>6

\* The token at which the loop of a struct is.
LEMMA StructHead ==
  ASSUME NEW how, NEW w \in Seq(Token), NEW s \in Args \cup Results,
         NEW fields \in Seq(Sendable(s)), NEW n \in 0..Len(fields),
         Arrives(w, how, StructRest(fields, n))
  PROVE  /\ w = << >> => how = "lost"
         /\ w # << >> /\ n = Len(fields) => Head(w) = Stop /\ Tail(w) = << >> /\ how # "lost"
         /\ w # << >> /\ n # Len(fields) =>
              LET f == fields[n + 1] IN
              /\ n < Len(fields) /\ Head(w) = Heading(f) /\ Tail(w) \in Seq(Token)
              /\ Arrives(Tail(w), how, Tokens(f.ttype, f.value) \o StructRest(fields, n + 1))
<1>1. n \in Nat /\ Len(fields) \in Nat /\ n <= Len(fields)
  OBVIOUS
<1>2. CASE n = Len(fields)
  <2>1. StructRest(fields, n) = <<Stop>> /\ <<Stop>> = <<Stop>> \o << >>
        /\ << >> \in Seq(Token) /\ <<Stop>> \in Seq(Token) /\ <<Stop>> # << >>
    BY <1>2, StructRestIs, StopType
  <2>2. w = << >> => how = "lost"
    BY <2>1, NothingCame
  <2>3. ASSUME w # << >>
        PROVE  Head(w) = Stop /\ Tail(w) = << >> /\ how # "lost"
    <3> DEFINE none == << >>
    <3>4. none \in Seq(Token) /\ Arrives(w, how, <<Stop>> \o none)
      BY <2>1
    <3>5. Stop \in Token
      BY StopType
    <3> HIDE DEF none
    <3>6. Head(w) = Stop /\ Tail(w) \in Seq(Token) /\ Arrives(Tail(w), how, none)
      BY <2>3, <3>4, <3>5, ArrivesHead
    <3>1. Head(w) = Stop /\ Tail(w) \in Seq(Token) /\ Arrives(Tail(w), how, << >>)
      BY <3>6 DEF none
    <3>2. Len(Tail(w)) \in Nat /\ Len(<< >>) = 0
      BY <3>1
    <3>3. how # "lost" /\ Len(Tail(w)) = 0
      BY <3>1, <3>2 DEF Arrives
    <3>7. \A u \in Seq(Token) : Len(u) = 0 => u = << >>
      OBVIOUS
    <3>8. Tail(w) = << >>
      BY <3>1, <3>3, <3>7
    <3> QED
      BY <3>1, <3>3, <3>8
  <2> QED
    BY <1>2, <2>2, <2>3
<1>3. CASE n # Len(fields)
  <2> DEFINE f == fields[n + 1]
             h == Heading(f)
             rest == Tokens(f.ttype, f.value) \o StructRest(fields, n + 1)
  <2>1. n < Len(fields)
    BY <1>1, <1>3
  <2>2. h \in Token /\ rest \in Seq(Token) /\ StructRest(fields, n) = <<h>> \o rest
    BY <1>1, <2>1, StructRestPeel
  <2> HIDE DEF f, h, rest
  <2>3. Arrives(w, how, <<h>> \o rest) /\ <<h>> \o rest \in Seq(Token) /\ <<h>> \o rest # << >>
    BY <2>2, NotNothing
  <2>4. w = << >> => how = "lost"
    BY <2>3, NothingCame
  <2>5. ASSUME w # << >>
        PROVE  Head(w) = h /\ Tail(w) \in Seq(Token) /\ Arrives(Tail(w), how, rest)
    BY <2>2, <2>3, <2>5, ArrivesHead
  <2> QED
    BY <1>3, <2>1, <2>4, <2>5 DEF f, h, rest
<1> QED
  BY <1>2, <1>3

\* The token at which the loop of an element or of a member is.
LEMMA PartHead ==
  ASSUME NEW how, NEW w \in Seq(Token), NEW e \in Seq(PartField), NEW j \in 0..Len(e),
         NEW after \in Seq(Token), Arrives(w, how, PartRest(e, j, after))
  PROVE  /\ w = << >> => how = "lost"
         /\ w # << >> /\ j = Len(e) =>
              Head(w) = Stop /\ Tail(w) \in Seq(Token) /\ Arrives(Tail(w), how, after)
         /\ w # << >> /\ j # Len(e) =>
              LET f == e[j + 1] IN
              /\ j < Len(e) /\ Head(w) = Heading(f) /\ Tail(w) \in Seq(Token)
              /\ Arrives(Tail(w), how, f.value \o PartRest(e, j + 1, after))
<1>1. j \in Nat /\ Len(e) \in Nat /\ j <= Len(e)
  OBVIOUS
<1>2. CASE j = Len(e)
  <2>1. PartRest(e, j, after) = <<Stop>> \o after
    BY <1>2, PartRestIs
  <2>2. <<Stop>> \o after \in Seq(Token) /\ <<Stop>> \o after # << >>
    BY StopType, NotNothing
  <2>3. w = << >> => how = "lost"
    BY <2>1, <2>2, NothingCame
  <2>4. w # << >> => Head(w) = Stop /\ Tail(w) \in Seq(Token) /\ Arrives(Tail(w), how, after)
    BY <2>1, StopType, ArrivesHead
  <2> QED
    BY <1>2, <2>3, <2>4
<1>3. CASE j # Len(e)
  <2> DEFINE f == e[j + 1]
             h == Heading(f)
             rest == f.value \o PartRest(e, j + 1, after)
  <2>1. j < Len(e)
    BY <1>1, <1>3
  <2>2. h \in Token /\ rest \in Seq(Token) /\ PartRest(e, j, after) = <<h>> \o rest
    BY <1>1, <2>1, PartRestPeel
  <2> HIDE DEF f, h, rest
  <2>3. Arrives(w, how, <<h>> \o rest) /\ <<h>> \o rest \in Seq(Token) /\ <<h>> \o rest # << >>
    BY <2>2, NotNothing
  <2>4. w = << >> => how = "lost"
    BY <2>3, NothingCame
  <2>5. ASSUME w # << >>
        PROVE  Head(w) = h /\ Tail(w) \in Seq(Token) /\ Arrives(Tail(w), how, rest)
    BY <2>2, <2>3, <2>5, ArrivesHead
  <2> QED
    BY <1>3, <2>1, <2>4, <2>5 DEF f, h, rest
<1> QED
  BY <1>2, <1>3

-----------------------------------------------------------------------------
(***************************************************************************)
(* The inductive invariant: which field the reader is at, that what is left *)
(* on the wire is the rest of the message from there, and that it has      *)
(* understood all before it.                                               *)
(***************************************************************************)

Understood(s, fields, n) ==
  \A i \in 1..n : i \in Lists(s, fields) => AsKnown(s, fields[i]) /\ ElementsComplete(s, fields[i])

\* The first n fields have been read.
AfterFields(n) ==
  /\ n \in 0..Len(sent)
  /\ Understood(struct, sent, n)
  /\ object = Meaning(struct, sent, n)

AtStruct(n) ==
  /\ AfterFields(n)
  /\ writing = "open" => n = 0 /\ wire = From(FieldPieces(sent), 0)
  /\ writing # "open" => Arrives(wire, writing, StructRest(sent, n))

\* The reader is in field n + 1, which it knows, and which has type t.
InField(n, t) ==
  /\ AfterFields(n) /\ n < Len(sent)
  /\ writing # "open"
  /\ WellTyped(struct, sent[n + 1]) /\ sent[n + 1].ttype = t
  /\ field = sent[n + 1].fid

\* Of list v it has read the first e elements.
AfterElements(v, e) ==
  LET of == Fields[struct][field].of IN
  /\ e \in 0..Len(v.elements)
  /\ e > 0 => v.of = OnWire(of)
  /\ list = [i \in 1..e |-> ElementMeaning(of, v.elements[i])]
  /\ of = "data_info" =>
       \A i \in 1..e : Required(of) \subseteq Said(of, v.elements[i], Len(v.elements[i]))

AtList(n, e) ==
  LET v == sent[n + 1].value IN
  /\ InField(n, "list") /\ AfterElements(v, e)
  /\ left = Len(v.elements) - e
  /\ Arrives(wire, writing, ListRest(v, e, StructRest(sent, n + 1)))

\* It is in element e + 1 of the list, of which it has read the first j fields; or the
\* element is something else than a struct.
AtElement(n, e, j) ==
  LET v == sent[n + 1].value IN
  /\ InField(n, "list") /\ AfterElements(v, e)
  /\ Fields[struct][field].of = "data_info"
  /\ e < Len(v.elements) /\ left = Len(v.elements) - (e + 1)
  /\ v.of = "struct" =>
       /\ j \in 0..Len(v.elements[e + 1])
       /\ part = PartMeaning("data_info", v.elements[e + 1], j)
       /\ Arrives(wire, writing,
                  PartRest(v.elements[e + 1], j, ListRest(v, e + 1, StructRest(sent, n + 1))))
  /\ v.of # "struct" => Arrives(wire, writing, ListRest(v, e, StructRest(sent, n + 1)))

AtMember(n, j) ==
  LET v == sent[n + 1].value IN
  /\ InField(n, "struct")
  /\ j \in 0..Len(v)
  /\ part = Over(AddedUp(struct, sent, n, field), PartMeaning("CalcException", v, j))
  /\ Arrives(wire, writing, PartRest(v, j, StructRest(sent, n + 1)))

SyncInv ==
  /\ reader = "reading" /\ stage = "struct" => \E n \in Nat : AtStruct(n)
  /\ reader = "reading" /\ stage = "list" => \E n, e \in Nat : AtList(n, e)
  /\ reader = "reading" /\ stage = "element" => \E n, e, j \in Nat : AtElement(n, e, j)
  /\ reader = "reading" /\ stage = "member" => \E n, j \in Nat : AtMember(n, j)
  /\ reader # "reading" => writing # "open"
  /\ reader = "returned" => /\ writing = "stopped" /\ wire = << >>
                            /\ object = Meaning(struct, sent, Len(sent))
  /\ reader = "broken" => writing = "lost"
  /\ Verdict

LEMMA SyncReading ==
  ASSUME reader' = "reading",
         \/ stage' = "struct" /\ \E n \in Nat : AtStruct(n)'
         \/ stage' = "list" /\ \E n, e \in Nat : AtList(n, e)'
         \/ stage' = "element" /\ \E n, e, j \in Nat : AtElement(n, e, j)'
         \/ stage' = "member" /\ \E n, j \in Nat : AtMember(n, j)'
  PROVE  SyncInv'
<1>1. Verdict'
  BY DEF Verdict
<1>2. reader' = "reading" /\ reader' # "returned" /\ reader' # "broken"
  OBVIOUS
<1>3. CASE stage' = "struct" /\ \E n \in Nat : AtStruct(n)'
  BY <1>1, <1>2, <1>3 DEF SyncInv
<1>4. CASE stage' = "list" /\ \E n, e \in Nat : AtList(n, e)'
  BY <1>1, <1>2, <1>4 DEF SyncInv
<1>5. CASE stage' = "element" /\ \E n, e, j \in Nat : AtElement(n, e, j)'
  BY <1>1, <1>2, <1>5 DEF SyncInv
<1>6. CASE stage' = "member" /\ \E n, j \in Nat : AtMember(n, j)'
  BY <1>1, <1>2, <1>6 DEF SyncInv
<1> QED
  BY <1>3, <1>4, <1>5, <1>6

\* The connection is said to have ended when it has.
LEMMA SyncBroken ==
  ASSUME reader' = "broken", writing' = "lost"
  PROVE  SyncInv'
<1>1. Verdict'
  BY DEF Verdict
<1> QED
  BY <1>1 DEF SyncInv

LEMMA SyncGarbled ==
  ASSUME reader' = "garbled", writing # "open", ~ ElementsAsKnown,
         UNCHANGED <<struct, sent, writing>>
  PROVE  SyncInv'
<1>1. ~ ElementsAsKnown'
  BY DEF ElementsAsKnown
<1>2. Verdict'
  BY <1>1 DEF Verdict
<1>3. writing' # "open"
  OBVIOUS
<1> QED
  BY <1>2, <1>3 DEF SyncInv

LEMMA SyncInvalid ==
  ASSUME reader' = "invalid", writing # "open", ~ NothingMissing,
         UNCHANGED <<struct, sent, writing>>
  PROVE  SyncInv'
<1>1. ~ NothingMissing'
  BY DEF NothingMissing
<1>2. Verdict'
  BY <1>1 DEF Verdict
<1>3. writing' # "open"
  OBVIOUS
<1> QED
  BY <1>2, <1>3 DEF SyncInv

LEMMA UnderstoodNext ==
  ASSUME NEW s, NEW fields, NEW n \in Nat, Understood(s, fields, n),
         WellTyped(s, fields[n + 1]) /\ fields[n + 1].ttype = "list" =>
           AsKnown(s, fields[n + 1]) /\ ElementsComplete(s, fields[n + 1])
  PROVE  Understood(s, fields, n + 1)
<1> SUFFICES ASSUME NEW i \in 1..(n + 1), i \in Lists(s, fields)
             PROVE  AsKnown(s, fields[i]) /\ ElementsComplete(s, fields[i])
  BY DEF Understood
<1>1. CASE i = n + 1
  BY <1>1 DEF Lists
<1>2. CASE i # n + 1
  <2>1. i \in 1..n
    BY <1>2
  <2> QED
    BY <2>1 DEF Understood
<1> QED
  BY <1>1, <1>2

LEMMA SentTyped ==
  ASSUME TypeInv
  PROVE  /\ struct \in Args \cup Results /\ sent \in Seq(Sendable(struct)) /\ Len(sent) \in Nat
         /\ wire \in Seq(Token)
         /\ (wire # << >> => Head(wire) \in Token /\ Tail(wire) \in Seq(Token))
<1>1. struct \in Args \cup Results /\ sent \in Seq(Sendable(struct)) /\ wire \in Seq(Token)
  BY DEF TypeInv, StructsTypeOK, SentInv
<1> QED
  BY <1>1

LEMMA AtNextField ==
  ASSUME TypeInv, NEW n \in Nat, AfterFields(n), n < Len(sent), writing # "open",
         UNCHANGED <<struct, sent, writing>>, reader' = "reading", stage' = "struct",
         object' = Meaning(struct, sent, n + 1),
         Arrives(wire', writing, StructRest(sent, n + 1)),
         WellTyped(struct, sent[n + 1]) /\ sent[n + 1].ttype = "list" =>
           AsKnown(struct, sent[n + 1]) /\ ElementsComplete(struct, sent[n + 1])
  PROVE  SyncInv'
<1>1. Understood(struct, sent, n + 1)
  BY UnderstoodNext DEF AfterFields
<1>2. n + 1 \in 0..Len(sent) /\ n + 1 \in Nat
  BY SentTyped
<1> DEFINE m == n + 1
<1> HIDE DEF m
<1>3. AfterFields(m)'
  BY <1>1, <1>2 DEF AfterFields, m
<1>4. writing' # "open" /\ Arrives(wire', writing', StructRest(sent', m))
  BY DEF m
<1>5. AtStruct(m)'
  BY <1>3, <1>4 DEF AtStruct
<1>6. m \in Nat
  BY <1>2 DEF m
<1> QED
  BY <1>5, <1>6, SyncReading

-----------------------------------------------------------------------------
(***************************************************************************)
(* The steps of the two writers and of the connection.                     *)
(***************************************************************************)

\* While the message is written the reader is at its beginning.
LEMMA BeginsAfterwards ==
  ASSUME TypeInv, SyncInv, writing = "open"
  PROVE  /\ reader = "reading" /\ stage = "struct" /\ object = Empty
         /\ wire = From(FieldPieces(sent), 0)
<1>1. reader = "reading"
  BY DEF SyncInv
<1>2. stage # "list" /\ stage # "element" /\ stage # "member"
  BY <1>1 DEF SyncInv, AtList, AtElement, AtMember, InField
<1>3. stage = "struct"
  BY <1>2 DEF TypeInv, StructsTypeOK
<1>4. PICK n \in Nat : AtStruct(n)
  BY <1>1, <1>3 DEF SyncInv
<1>5. n = 0 /\ wire = From(FieldPieces(sent), 0) /\ object = Meaning(struct, sent, 0)
  BY <1>4 DEF AtStruct, AfterFields
<1> QED
  BY <1>1, <1>3, <1>5, NothingSaid

LEMMA AtTheBeginning ==
  ASSUME TypeInv', reader' = "reading", stage' = "struct", object' = Empty,
         writing' = "open" => wire' = From(FieldPieces(sent'), 0),
         writing' = "stopped" => wire' = StructRest(sent', 0),
         writing' # "lost"
  PROVE  SyncInv'
<1>1. struct' \in Args \cup Results /\ sent' \in Seq(Sendable(struct'))
      /\ writing' \in {"open", "stopped"} /\ Len(sent') \in Nat
  BY DEF TypeInv, StructsTypeOK, SentInv
<1>2. object' = Meaning(struct', sent', 0) /\ 0 \in 0..Len(sent')
  BY <1>1, NothingSaid
<1>3. Understood(struct', sent', 0)
  BY DEF Understood
<1>4. AfterFields(0)'
  BY <1>2, <1>3 DEF AfterFields
<1>5. \A w, how : how # "lost" => Arrives(w, how, w)
  BY DEF Arrives
<1>6. AtStruct(0)'
  BY <1>1, <1>4, <1>5 DEF AtStruct
<1> QED
  BY <1>6, SyncReading

LEMMA WriteStructSync ==
  ASSUME TypeInv, SyncInv, TypeInv', WriteStruct
  PROVE  SyncInv'
<1>1. PICK o \in Originals(struct) :
        sent' = WireFields(struct, o) /\ wire' = FieldTokens(sent') \o <<Stop>>
  BY DEF WriteStruct
<1>2. writing = "open" /\ writing' = "stopped" /\ UNCHANGED <<struct, object, reader, stage>>
  BY DEF WriteStruct, inside
<1>3. reader = "reading" /\ stage = "struct" /\ object = Empty
  BY <1>2, BeginsAfterwards
<1>4. wire' = StructRest(sent', 0)
  <2>1. struct' \in Args \cup Results /\ sent' \in Seq(Sendable(struct'))
    BY DEF TypeInv, StructsTypeOK, SentInv
  <2>2. /\ FieldTokens(sent') = FlattenSeq(FieldPieces(sent'))
        /\ FieldPieces(sent') \in Seq(Seq(Token))
    BY <2>1, FieldPiecesType
  <2>3. From(FieldPieces(sent'), 0) = FieldTokens(sent')
    BY <2>2, FromStart
  <2> QED
    BY <1>1, <2>3 DEF StructRest
<1> QED
  BY <1>2, <1>3, <1>4, AtTheBeginning

LEMMA FieldPiecesAppend ==
  ASSUME NEW T, NEW fields \in Seq(T), NEW f \in T
  PROVE  FieldPieces(Append(fields, f))
           = Append(FieldPieces(fields), <<Heading(f)>> \o Tokens(f.ttype, f.value))
<1> DEFINE more == Append(fields, f)
           n == Len(fields)
           piece(g) == <<Heading(g)>> \o Tokens(g.ttype, g.value)
           p == FieldPieces(fields)
<1>1. /\ n \in Nat /\ DOMAIN fields = 1..n /\ DOMAIN more = 1..(n + 1)
      /\ more[n + 1] = f /\ \A i \in 1..n : more[i] = fields[i]
  OBVIOUS
<1>2. p = [i \in 1..n |-> piece(fields[i])]
  BY <1>1 DEF FieldPieces
<1>3. FieldPieces(more) = [i \in 1..(n + 1) |-> piece(more[i])]
  BY <1>1 DEF FieldPieces
<1> HIDE DEF more, n, piece
<1>4. Append(p, piece(f)) = [i \in 1..(n + 1) |-> piece(more[i])]
  <2>1. p = [i \in 1..n |-> p[i]] /\ \A i \in 1..n : p[i] = piece(fields[i])
    BY <1>2
  <2> HIDE DEF p
  <2> DEFINE S == {piece(fields[i]) : i \in 1..n} \cup {piece(f)}
  <2>2. \A i \in 1..n : p[i] \in S
    BY <2>1
  <2>3. piece(f) \in S
    OBVIOUS
  <2> HIDE DEF S
  <2>4. p \in Seq(S) /\ Len(p) = n
    BY <1>1, <2>1, <2>2, FunctionIsSeq
  <2> DEFINE q == Append(p, piece(f))
  <2>5. q \in Seq(S) /\ Len(q) = n + 1 /\ q[n + 1] = piece(f) /\ \A i \in 1..n : q[i] = p[i]
    BY <1>1, <2>3, <2>4
  <2> HIDE DEF q
  <2>6. q = [i \in 1..(n + 1) |-> q[i]]
    BY <1>1, <2>5
  <2>7. \A i \in 1..(n + 1) : q[i] = piece(more[i])
    <3>1. TAKE i \in 1..(n + 1)
    <3>2. CASE i = n + 1
      BY <1>1, <2>5, <3>2
    <3>3. CASE i # n + 1
      <4>1. i \in 1..n
        BY <1>1, <3>3
      <4> QED
        BY <1>1, <2>1, <2>5, <4>1
    <3> QED
      BY <3>2, <3>3
  <2>8. q = [i \in 1..(n + 1) |-> piece(more[i])]
    BY <2>6, <2>7
  <2> QED
    BY <2>8 DEF q
<1>5. FieldPieces(more) = Append(p, piece(f))
  BY <1>3, <1>4
<1> QED
  BY <1>5 DEF more, p, piece

LEMMA PeerWritesSync ==
  ASSUME TypeInv, SyncInv, TypeInv', PeerWrites
  PROVE  SyncInv'
<1>1. PICK f \in PeerFields(struct) : sent' = Append(sent, f) /\ wire' = wire \o FieldTokens(<<f>>)
  BY DEF PeerWrites
<1>2. writing = "open" /\ UNCHANGED <<struct, writing, object, reader, stage>>
  BY DEF PeerWrites, inside
<1>3. reader = "reading" /\ stage = "struct" /\ object = Empty /\ wire = From(FieldPieces(sent), 0)
  BY <1>2, BeginsAfterwards
<1> DEFINE T == Sendable(struct)
           piece == <<Heading(f)>> \o Tokens(f.ttype, f.value)
<1>4. struct \in Args \cup Results /\ sent \in Seq(T) /\ f \in T
  BY DEF TypeInv, StructsTypeOK, SentInv, Sendable
<1>5. FieldPieces(sent) \in Seq(Seq(Token)) /\ FieldPieces(sent') \in Seq(Seq(Token))
  <2>1. sent' \in Seq(T)
    BY <1>1, <1>4
  <2> QED
    BY <1>4, <2>1, FieldPiecesType
<1>6. FieldPieces(sent') = Append(FieldPieces(sent), piece)
  BY <1>1, <1>4, FieldPiecesAppend
<1>7. FieldTokens(<<f>>) = piece /\ piece \in Seq(Token)
  <2>1. <<f>> \in Seq(T) /\ Len(<<f>>) = 1
    BY <1>4
  <2>2. /\ FieldPieces(<<f>>) \in Seq(Seq(Token)) /\ Len(FieldPieces(<<f>>)) = 1
        /\ FieldTokens(<<f>>) = FlattenSeq(FieldPieces(<<f>>))
    BY <1>4, <2>1, FieldPiecesType
  <2>3. FieldPieces(<<f>>)[1] = piece
    BY DEF FieldPieces
  <2> HIDE DEF piece
  <2> DEFINE p == FieldPieces(<<f>>)
  <2> HIDE DEF p
  <2>4. p \in Seq(Seq(Token)) /\ Len(p) = 1 /\ p[1] = piece /\ FieldTokens(<<f>>) = FlattenSeq(p)
    BY <2>2, <2>3 DEF p
  <2>5. p # << >> /\ Head(p) = piece /\ Tail(p) = << >> /\ piece \in Seq(Token)
    <3>1. 1 \in 1..Len(p)
      BY <2>4
    <3>2. piece \in Seq(Token)
      BY <2>4, <3>1, ElementOfSeq
    <3>3. p # << >>
      <4>1. Len(p) # 0 /\ Len(<< >>) = 0
        BY <2>4
      <4> QED
        BY <4>1
    <3>4. Head(p) = piece
      BY <2>4, <3>3
    <3>5. Tail(p) \in Seq(Seq(Token)) /\ Len(Tail(p)) = 0
      BY <2>4, <3>3, HeadTailProperties
    <3>6. Tail(p) = << >>
      BY <3>5, EmptySeq
    <3> QED
      BY <3>2, <3>3, <3>4, <3>6
  <2>6. FlattenSeq(p) = piece \o FlattenSeq(Tail(p))
    BY <2>4, <2>5, FlattenPeel
  <2>7. piece \o << >> = piece
    BY <2>5
  <2> QED
    BY <2>4, <2>5, <2>6, <2>7, FlattenEmpty
<1> HIDE DEF piece
<1>8. wire' = From(FieldPieces(sent'), 0)
  <2>1. FlattenSeq(Append(FieldPieces(sent), piece)) = FlattenSeq(FieldPieces(sent)) \o piece
    BY <1>5, <1>7, FlattenAppend
  <2>2. From(FieldPieces(sent), 0) = FlattenSeq(FieldPieces(sent))
    BY <1>5, FromStart
  <2>3. From(FieldPieces(sent'), 0) = FlattenSeq(FieldPieces(sent'))
    BY <1>5, FromStart
  <2> QED
    BY <1>1, <1>3, <1>6, <1>7, <2>1, <2>2, <2>3
<1> QED
  BY <1>2, <1>3, <1>8, AtTheBeginning

LEMMA PeerStopsSync ==
  ASSUME TypeInv, SyncInv, TypeInv', PeerStops
  PROVE  SyncInv'
<1>1. /\ writing = "open" /\ writing' = "stopped" /\ wire' = Append(wire, Stop)
      /\ UNCHANGED <<struct, sent, object, reader, stage>>
  BY DEF PeerStops, inside
<1>2. reader = "reading" /\ stage = "struct" /\ object = Empty /\ wire = From(FieldPieces(sent), 0)
  BY <1>1, BeginsAfterwards
<1>3. wire \in Seq(Token)
  BY SentTyped
<1>4. Append(wire, Stop) = wire \o <<Stop>>
  BY <1>3, StopType, AppendIsConcat
<1>5. wire' = StructRest(sent', 0)
  BY <1>1, <1>2, <1>4 DEF StructRest
<1> QED
  BY <1>1, <1>2, <1>5, AtTheBeginning

LEMMA LoseSync ==
  ASSUME TypeInv, SyncInv, TypeInv', Lose
  PROVE  SyncInv'
<1>1. /\ reader = "reading" /\ writing = "stopped" /\ stage = "struct" /\ writing' = "lost"
      /\ UNCHANGED <<struct, sent, object, reader, stage>>
  BY DEF Lose, Reading, inside
<1>2. PICK m \in 0..(Len(wire) - 1) : wire' = SubSeq(wire, 1, m)
  BY DEF Lose
<1>3. PICK n \in Nat : AtStruct(n)
  BY <1>1 DEF SyncInv
<1>4. AfterFields(n) /\ Arrives(wire, writing, StructRest(sent, n))
  BY <1>1, <1>3 DEF AtStruct
<1>5. AfterFields(n)'
  BY <1>1, <1>4 DEF AfterFields
<1>6. Arrives(wire', "lost", StructRest(sent, n))
  <2> DEFINE all == StructRest(sent, n)
  <2>1. wire \in Seq(Token) /\ Len(wire) \in Nat
    BY SentTyped
  <2>2. Len(wire) = Len(all) /\ \A i \in 1..Len(wire) : wire[i] = all[i]
    BY <1>1, <1>4 DEF Arrives
  <2>3. m \in Nat /\ m < Len(wire)
    BY <2>1
  <2>4. Len(wire') = m /\ \A i \in 1..m : wire'[i] = wire[i]
    <3>1. 1 \in Nat /\ 1 <= 1 /\ 1 <= m + 1 /\ m <= Len(wire)
      BY <2>1, <2>3
    <3>2. /\ Len(SubSeq(wire, 1, m)) = m - 1 + 1
          /\ \A i \in 1..(m - 1 + 1) : SubSeq(wire, 1, m)[i] = wire[1 + i - 1]
      BY <2>1, <2>3, <3>1, PieceOf
    <3>3. m - 1 + 1 = m /\ \A i \in 1..m : 1 + i - 1 = i
      BY <2>3
    <3> QED
      BY <1>2, <3>2, <3>3
  <2> HIDE DEF all
  <2>5. \A i \in 1..m : i \in 1..Len(wire)
    BY <2>1, <2>3
  <2> QED
    BY <2>2, <2>3, <2>4, <2>5 DEF Arrives, all
<1>7. AtStruct(n)'
  BY <1>1, <1>5, <1>6 DEF AtStruct
<1> QED
  BY <1>1, <1>7, SyncReading

LEMMA NoPieces == From(FieldPieces(<< >>), 0) = << >>
<1> DEFINE p == FieldPieces(<< >>)
<1>1. p = << >>
  BY DEF FieldPieces
<1>2. << >> \in Seq(Seq(Token))
  OBVIOUS
<1>3. p \in Seq(Seq(Token))
  BY <1>1, <1>2
<1>4. From(p, 0) = FlattenSeq(p)
  BY <1>3, FromStart
<1> QED
  BY <1>1, <1>4, FlattenEmpty

LEMMA NextStructSync ==
  ASSUME TypeInv, SyncInv, TypeInv', NEW s \in Args \cup Results, NextStruct(s)
  PROVE  SyncInv'
<1>1. /\ reader # "reading" /\ sent' = << >> /\ writing' = "open"
      /\ wire' = IF reader = "returned" THEN wire ELSE << >>
      /\ object' = Empty /\ reader' = "reading" /\ stage' = "struct"
  BY DEF NextStruct, Outside
<1>2. wire' = << >>
  BY <1>1 DEF SyncInv
<1> QED
  BY <1>1, <1>2, NoPieces, AtTheBeginning

-----------------------------------------------------------------------------
(***************************************************************************)
(* The steps of the reader: one field of a part, of a struct.              *)
(***************************************************************************)

LEMMA HeadingSame ==
  ASSUME NEW s, NEW f
  PROVE  /\ Heading(f).fid = f.fid /\ Heading(f).ttype = f.ttype /\ Heading(f).kind = "field"
         /\ WellTyped(s, Heading(f)) <=> WellTyped(s, f)
         /\ Stop.kind = "stop"
BY DEF Heading, WellTyped, Stop

LEMMA AtPartHeading ==
  ASSUME NEW how, NEW w \in Seq(Token), w # << >>, Head(w).kind = "field",
         NEW s, NEW e, GoodPart(s, e), NEW j \in 0..Len(e), NEW after \in Seq(Token),
         Arrives(w, how, PartRest(e, j, after))
  PROVE  LET f == e[j + 1] IN
         /\ j \in Nat /\ j < Len(e) /\ f \in PartField /\ Tail(w) \in Seq(Token)
         /\ Head(w).fid = f.fid /\ Head(w).ttype = f.ttype
         /\ WellTyped(s, Head(w)) <=> WellTyped(s, f)
         /\ WellTyped(s, f) => IsScalar(f.ttype, f.value)
         /\ ~ WellTyped(s, f) => Encodes(f.ttype, f.value)
         /\ Arrives(Tail(w), how, f.value \o PartRest(e, j + 1, after))
         /\ PartRest(e, j + 1, after) \in Seq(Token) /\ f.value \in Seq(Token)
<1> DEFINE f == e[j + 1]
           rest == PartRest(e, j + 1, after)
<1>1. e \in Seq(PartField)
  BY DEF GoodPart
<1>2. Len(e) \in Nat /\ DOMAIN e = 1..Len(e) /\ j \in Nat
  BY <1>1
<1>3. j # Len(e)
  <2>1. j = Len(e) => Head(w) = Stop
    BY <1>1, PartHead
  <2> QED
    BY <2>1, HeadingSame
<1>4. /\ j < Len(e) /\ Head(w) = Heading(f) /\ Tail(w) \in Seq(Token)
      /\ Arrives(Tail(w), how, f.value \o rest)
  BY <1>1, <1>3, PartHead
<1>5. j + 1 \in DOMAIN e /\ j + 1 \in 0..Len(e)
  BY <1>2, <1>4
<1>6. f \in PartField
  BY <1>1, <1>2, <1>5
<1>7. rest \in Seq(Token)
  BY <1>1, <1>5, PartRestIs
<1>8. /\ WellTyped(s, f) => IsScalar(f.ttype, f.value)
      /\ ~ WellTyped(s, f) => Encodes(f.ttype, f.value)
  BY <1>5 DEF GoodPart
<1>9. f.value \in Seq(Token)
  BY <1>6 DEF PartField
<1> HIDE DEF f, rest
<1>10. /\ Head(w).fid = f.fid /\ Head(w).ttype = f.ttype
       /\ WellTyped(s, Head(w)) <=> WellTyped(s, f)
  BY <1>4, HeadingSame
<1> QED
  BY <1>2, <1>4, <1>6, <1>7, <1>8, <1>9, <1>10 DEF f, rest

LEMMA PartScalar ==
  ASSUME NEW how, NEW w \in Seq(Token), w # << >>, Head(w).kind = "field",
         NEW s, NEW e, GoodPart(s, e), NEW j \in 0..Len(e), NEW after \in Seq(Token),
         Arrives(w, how, PartRest(e, j, after)),
         WellTyped(s, Head(w)), Head(w).ttype \in Scalars
  PROVE  LET r == ReadScalar(Head(w).ttype, Tail(w)) IN
         \/ /\ r.status = "ok" /\ j + 1 \in 0..Len(e)
            /\ PartMeaning(s, e, j + 1) = With(PartMeaning(s, e, j), Head(w).fid, r.value)
            /\ Arrives(r.rest, how, PartRest(e, j + 1, after))
         \/ r.status = "broken" /\ how = "lost"
<1> DEFINE f == e[j + 1]
           rest == PartRest(e, j + 1, after)
           r == ReadScalar(Head(w).ttype, Tail(w))
<1>1. /\ j \in Nat /\ j < Len(e) /\ Tail(w) \in Seq(Token)
      /\ Head(w).fid = f.fid /\ Head(w).ttype = f.ttype
      /\ WellTyped(s, f) /\ IsScalar(f.ttype, f.value)
      /\ Arrives(Tail(w), how, f.value \o rest) /\ rest \in Seq(Token)
  BY AtPartHeading
<1>2. PartMeaning(s, e, j + 1) = With(PartMeaning(s, e, j), f.fid, f.value[1].number)
  BY <1>1, PartMeaningNext
<1>3. Len(e) \in Nat
  BY DEF GoodPart
<1>4. j + 1 \in 0..Len(e)
  BY <1>1, <1>3
<1> HIDE DEF f, rest
<1>5. \/ /\ r.status = "ok" /\ r.value = f.value[1].number
         /\ Arrives(r.rest, how, rest)
      \/ r.status = "broken" /\ how = "lost"
  <2> DEFINE t == Head(w).ttype
             v == f.value
             tail == Tail(w)
  <2>1. t \in Scalars /\ IsScalar(t, v) /\ tail \in Seq(Token) /\ rest \in Seq(Token)
        /\ Arrives(tail, how, v \o rest)
    BY <1>1
  <2> HIDE DEF t, v, tail
  <2>2. \/ /\ ReadScalar(t, tail).status = "ok" /\ ReadScalar(t, tail).value = v[1].number
           /\ Arrives(ReadScalar(t, tail).rest, how, rest)
        \/ ReadScalar(t, tail).status = "broken" /\ how = "lost"
    BY <2>1, ScalarArrives
  <2> QED
    BY <2>2 DEF t, v, tail
<1> HIDE DEF r
<1>6. r.status = "ok" /\ r.value = f.value[1].number =>
        PartMeaning(s, e, j + 1) = With(PartMeaning(s, e, j), Head(w).fid, r.value)
  BY <1>1, <1>2 DEF f
<1> QED
  BY <1>4, <1>5, <1>6 DEF f, rest, r

LEMMA PartSkip ==
  ASSUME NEW how, NEW w \in Seq(Token), w # << >>, Head(w).kind = "field",
         NEW s, NEW e, GoodPart(s, e), NEW j \in 0..Len(e), NEW after \in Seq(Token),
         Arrives(w, how, PartRest(e, j, after)), ~ WellTyped(s, Head(w))
  PROVE  LET r == Skipped(Head(w).ttype, Tail(w)) IN
         \/ /\ r.status = "ok" /\ j + 1 \in 0..Len(e)
            /\ PartMeaning(s, e, j + 1) = PartMeaning(s, e, j)
            /\ Arrives(r.rest, how, PartRest(e, j + 1, after))
         \/ r.status = "broken" /\ how = "lost"
<1> DEFINE f == e[j + 1]
           rest == PartRest(e, j + 1, after)
           r == Skipped(Head(w).ttype, Tail(w))
<1>1. /\ j \in Nat /\ j < Len(e) /\ Tail(w) \in Seq(Token)
      /\ Head(w).ttype = f.ttype
      /\ ~ WellTyped(s, f) /\ Encodes(f.ttype, f.value)
      /\ Arrives(Tail(w), how, f.value \o rest) /\ rest \in Seq(Token) /\ f.value \in Seq(Token)
  BY AtPartHeading
<1>2. PartMeaning(s, e, j + 1) = PartMeaning(s, e, j)
  BY <1>1, PartMeaningSkipped
<1>3. Len(e) \in Nat
  BY DEF GoodPart
<1>4. j + 1 \in 0..Len(e)
  BY <1>1, <1>3
<1> HIDE DEF f, rest
<1>5. \/ r.status = "ok" /\ Arrives(r.rest, how, rest)
      \/ r.status = "broken" /\ how = "lost"
  BY <1>1, SkipArrives
<1> HIDE DEF r
<1> QED
  BY <1>2, <1>4, <1>5 DEF rest, r

\* The reader is at the heading of field n + 1.
AtHeading(n) ==
  LET f == sent[n + 1] IN
  /\ AfterFields(n) /\ n < Len(sent) /\ Good(struct, f)
  /\ Head(wire).fid = f.fid /\ Head(wire).ttype = f.ttype /\ Head(wire).kind = "field"
  /\ WellTyped(struct, Head(wire)) <=> WellTyped(struct, f)
  /\ Tail(wire) \in Seq(Token)
  /\ Tokens(f.ttype, f.value) \in Seq(Token) /\ StructRest(sent, n + 1) \in Seq(Token)
  /\ Arrives(Tail(wire), writing, Tokens(f.ttype, f.value) \o StructRest(sent, n + 1))

LEMMA InStruct ==
  ASSUME TypeInv, SyncInv, Reading, stage = "struct"
  PROVE  \/ wire = << >> /\ writing = "lost"
         \/ /\ wire # << >> /\ Head(wire) = Stop /\ Tail(wire) = << >> /\ writing = "stopped"
            /\ AfterFields(Len(sent))
         \/ wire # << >> /\ \E n \in Nat : AtHeading(n)
<1>1. reader = "reading" /\ writing # "open"
  BY DEF Reading
<1>2. PICK n \in Nat : AtStruct(n)
  BY <1>1 DEF SyncInv
<1>3. AfterFields(n) /\ Arrives(wire, writing, StructRest(sent, n)) /\ n \in 0..Len(sent)
  BY <1>1, <1>2 DEF AtStruct, AfterFields
<1>4. struct \in Args \cup Results /\ sent \in Seq(Sendable(struct)) /\ Len(sent) \in Nat
      /\ wire \in Seq(Token)
  BY SentTyped
<1>5. writing = "lost" \/ writing = "stopped"
  BY <1>1 DEF TypeInv, StructsTypeOK
<1>6. CASE wire = << >>
  BY <1>3, <1>4, <1>6, StructHead
<1>7. CASE wire # << >> /\ n = Len(sent)
  <2>1. Head(wire) = Stop /\ Tail(wire) = << >> /\ writing # "lost"
    BY <1>3, <1>4, <1>7, StructHead
  <2> QED
    BY <1>3, <1>5, <1>7, <2>1
<1>8. CASE wire # << >> /\ n # Len(sent)
  <2> DEFINE f == sent[n + 1]
             t == Tokens(f.ttype, f.value)
             rest == StructRest(sent, n + 1)
  <2>1. /\ n < Len(sent) /\ Head(wire) = Heading(f) /\ Tail(wire) \in Seq(Token)
        /\ Arrives(Tail(wire), writing, t \o rest)
    BY <1>3, <1>4, <1>8, StructHead
  <2>2. Good(struct, f) /\ t \in Seq(Token)
    BY <1>4, <2>1, StructRestPeel
  <2>3. rest \in Seq(Token)
    <3>1. n + 1 \in 0..Len(sent)
      BY <1>4, <2>1
    <3> QED
      BY <1>4, <3>1, StructRestIs
  <2>4. /\ Head(wire).fid = f.fid /\ Head(wire).ttype = f.ttype /\ Head(wire).kind = "field"
        /\ WellTyped(struct, Head(wire)) <=> WellTyped(struct, f)
    BY <2>1, HeadingSame
  <2> HIDE DEF f, t, rest
  <2>5. AtHeading(n)
    BY <1>3, <2>1, <2>2, <2>3, <2>4 DEF AtHeading, f, t, rest
  <2> QED
    BY <1>8, <2>5
<1> QED
  BY <1>6, <1>7, <1>8

LEMMA FieldIsGood ==
  ASSUME TypeInv, NEW n \in Nat, n < Len(sent)
  PROVE  LET f == sent[n + 1] IN
         /\ Good(struct, f) /\ StructRest(sent, n + 1) \in Seq(Token)
         /\ n + 1 \in 0..Len(sent) /\ n + 1 \in DOMAIN sent
         /\ WellTyped(struct, f) /\ f.ttype = "struct" =>
              GoodPart("CalcException", f.value) /\ Fields[struct][f.fid].of = "CalcException"
         /\ WellTyped(struct, f) /\ f.ttype = "list" =>
              /\ GoodList(f.value) /\ TypedElements(f.value) /\ Len(f.value.elements) \in Nat
              /\ DOMAIN f.value.elements = 1..Len(f.value.elements)
              /\ Fields[struct][f.fid].of \in {"double", "data_info"}
<1> DEFINE f == sent[n + 1]
<1>1. struct \in Args \cup Results /\ sent \in Seq(Sendable(struct)) /\ Len(sent) \in Nat
  BY SentTyped
<1>2. n + 1 \in 0..Len(sent) /\ n + 1 \in DOMAIN sent
  BY <1>1
<1>3. Good(struct, f)
  BY <1>1, StructRestPeel
<1>4. StructRest(sent, n + 1) \in Seq(Token)
  BY <1>1, <1>2, StructRestIs
<1>5. struct \in Structs
  BY <1>1 DEF Structs
<1> HIDE DEF f
<1>6. ASSUME WellTyped(struct, f)
      PROVE  /\ f.ttype = "struct" => Fields[struct][f.fid].of = "CalcException"
             /\ f.ttype = "list" => Fields[struct][f.fid].of \in {"double", "data_info"}
  <2>1. f.fid \in DOMAIN Fields[struct] /\ f.ttype = Fields[struct][f.fid].ttype
    BY <1>6 DEF WellTyped
  <2> QED
    BY <1>5, <2>1, TablesOK DEF TableOK
<1>7. WellTyped(struct, f) /\ f.ttype = "struct" => GoodPart("CalcException", f.value)
  BY <1>3 DEF Good
<1>8. ASSUME WellTyped(struct, f), f.ttype = "list"
      PROVE  /\ GoodList(f.value) /\ TypedElements(f.value) /\ Len(f.value.elements) \in Nat
             /\ DOMAIN f.value.elements = 1..Len(f.value.elements)
  <2>1. GoodList(f.value)
    BY <1>3, <1>8 DEF Good
  <2>2. TypedElements(f.value)
    BY <2>1 DEF GoodList
  <2>3. Len(f.value.elements) \in Nat
    BY <2>2, ElementPiecesType
  <2>4. f.value.elements \in Seq(Seq(PartField)) \/ f.value.elements \in Seq(Seq(Token))
    BY <2>2 DEF TypedElements
  <2> QED
    BY <2>1, <2>2, <2>3, <2>4
<1> QED
  BY <1>2, <1>3, <1>4, <1>6, <1>7, <1>8 DEF f

\* A member: its fields, and the rest of the message after it.
LEMMA InMember ==
  ASSUME TypeInv, NEW n \in Nat, NEW j \in Nat, AtMember(n, j)
  PROVE  LET v == sent[n + 1].value IN
         /\ GoodPart("CalcException", v) /\ v \in Seq(PartField) /\ j \in 0..Len(v)
         /\ StructRest(sent, n + 1) \in Seq(Token)
         /\ Fields[struct][field].of = "CalcException"
         /\ Arrives(wire, writing, PartRest(v, j, StructRest(sent, n + 1)))
<1>1. InField(n, "struct") /\ j \in 0..Len(sent[n + 1].value)
      /\ Arrives(wire, writing, PartRest(sent[n + 1].value, j, StructRest(sent, n + 1)))
  BY DEF AtMember
<1>2. n < Len(sent) /\ WellTyped(struct, sent[n + 1]) /\ sent[n + 1].ttype = "struct"
      /\ field = sent[n + 1].fid
  BY <1>1 DEF InField
<1>3. /\ GoodPart("CalcException", sent[n + 1].value) /\ StructRest(sent, n + 1) \in Seq(Token)
      /\ Fields[struct][field].of = "CalcException"
  BY <1>2, FieldIsGood
<1>4. sent[n + 1].value \in Seq(PartField)
  BY <1>3 DEF GoodPart
<1> QED
  BY <1>1, <1>3, <1>4

\* An element: its fields, and the rest of the list and of the message after it.
LEMMA InElement ==
  ASSUME TypeInv, NEW n \in Nat, NEW e \in Nat, NEW j \in Nat, AtElement(n, e, j)
  PROVE  LET v == sent[n + 1].value
             after == ListRest(v, e + 1, StructRest(sent, n + 1))
         IN
         /\ n < Len(sent) /\ e < Len(v.elements) /\ Len(v.elements) \in Nat /\ GoodList(v)
         /\ n + 1 \in Lists(struct, sent) /\ e + 1 \in DOMAIN v.elements
         /\ Fields[struct][field].of = "data_info" /\ field = sent[n + 1].fid
         /\ after \in Seq(Token)
         /\ v.of = "struct" =>
              /\ GoodPart("data_info", v.elements[e + 1])
              /\ v.elements[e + 1] \in Seq(PartField) /\ j \in 0..Len(v.elements[e + 1])
              /\ Arrives(wire, writing, PartRest(v.elements[e + 1], j, after))
         /\ v.of # "struct" =>
              /\ v.elements[e + 1] \in Seq(Token) /\ GoodElement(v.of, v.elements[e + 1])
              /\ Arrives(wire, writing, v.elements[e + 1] \o after)
<1> DEFINE v == sent[n + 1].value
           k == v.elements[e + 1]
           after == ListRest(v, e + 1, StructRest(sent, n + 1))
<1>1. /\ InField(n, "list") /\ e < Len(v.elements) /\ Fields[struct][field].of = "data_info"
      /\ v.of = "struct" => j \in 0..Len(k) /\ Arrives(wire, writing, PartRest(k, j, after))
      /\ v.of # "struct" => Arrives(wire, writing, ListRest(v, e, StructRest(sent, n + 1)))
  BY DEF AtElement
<1>2. n < Len(sent) /\ WellTyped(struct, sent[n + 1]) /\ sent[n + 1].ttype = "list"
      /\ field = sent[n + 1].fid
  BY <1>1 DEF InField
<1>3. /\ GoodList(v) /\ TypedElements(v) /\ Len(v.elements) \in Nat
      /\ StructRest(sent, n + 1) \in Seq(Token) /\ n + 1 \in DOMAIN sent
  BY <1>2, FieldIsGood
<1>4. n + 1 \in Lists(struct, sent)
  BY <1>2, <1>3 DEF Lists
<1> HIDE DEF v
<1>5. /\ e + 1 \in DOMAIN v.elements /\ after \in Seq(Token)
      /\ v.of = "struct" => k \in Seq(PartField)
      /\ v.of # "struct" =>
           k \in Seq(Token) /\ ListRest(v, e, StructRest(sent, n + 1)) = k \o after
  BY <1>1, <1>3, ListRestPeel
<1>6. /\ v.of = "struct" => GoodPart("data_info", k)
      /\ v.of # "struct" => GoodElement(v.of, k)
  BY <1>3, <1>5 DEF GoodList
<1> HIDE DEF k, after
<1>7. v.of # "struct" => Arrives(wire, writing, k \o after)
  BY <1>1, <1>5 DEF after
<1> QED
  BY <1>1, <1>2, <1>3, <1>4, <1>5, <1>6, <1>7 DEF v, k, after

\* The token at which a value that is not a struct begins.
LEMMA FirstToken ==
  ASSUME NEW how, NEW w \in Seq(Token), NEW k \in Seq(Token), NEW after \in Seq(Token),
         Len(k) # 0, Arrives(w, how, k \o after)
  PROVE  (w = << >> => how = "lost") /\ (w # << >> => Head(w) = k[1])
<1>1. /\ k \o after \in Seq(Token) /\ Len(k \o after) = Len(k) + Len(after)
      /\ Len(k) \in Nat /\ Len(after) \in Nat /\ \A i \in 1..Len(k) : (k \o after)[i] = k[i]
  BY ConcatProperties
<1>2. (k \o after)[1] = k[1] /\ Len(k \o after) # 0
  BY <1>1
<1>3. k \o after # << >>
  BY <1>2
<1>4. w = << >> => how = "lost"
  BY <1>1, <1>3, NothingCame
<1>5. ASSUME w # << >> PROVE Head(w) = k[1]
  <2>1. Len(w) \in Nat /\ Len(w) # 0 /\ Head(w) = w[1]
    BY <1>5
  <2>2. 1 \in 1..Len(w)
    BY <2>1
  <2>3. w[1] = (k \o after)[1]
    BY <2>2 DEF Arrives
  <2> QED
    BY <1>2, <2>1, <2>3
<1> QED
  BY <1>4, <1>5

\* Elements that are no structs where structs are expected.
LEMMA OtherElements ==
  ASSUME TypeInv, NEW n \in Nat, NEW e \in Nat, NEW j \in Nat, AtElement(n, e, j),
         sent[n + 1].value.of # "struct"
  PROVE  /\ ~ ElementsAsKnown
         /\ wire = << >> => writing = "lost"
         /\ wire # << >> => Head(wire).kind \in {"value", "list"}
<1> DEFINE v == sent[n + 1].value
           k == v.elements[e + 1]
           after == ListRest(v, e + 1, StructRest(sent, n + 1))
<1>1. /\ GoodList(v) /\ n + 1 \in Lists(struct, sent) /\ e + 1 \in DOMAIN v.elements
      /\ Fields[struct][sent[n + 1].fid].of = "data_info"
      /\ after \in Seq(Token) /\ k \in Seq(Token) /\ GoodElement(v.of, k)
      /\ Arrives(wire, writing, k \o after)
  BY InElement
<1>2. ~ ElementsAsKnown
  <2>1. v.elements # << >>
    BY <1>1
  <2>2. ~ AsKnown(struct, sent[n + 1])
    BY <1>1, <2>1, PartTables DEF AsKnown
  <2> QED
    BY <1>1, <2>2 DEF ElementsAsKnown
<1>3. v.of \in TTypes /\ v.of # "struct"
  BY <1>1 DEF GoodList, TypedElements
<1>4. Len(k) # 0 /\ Fits(v.of, k[1])
  BY <1>1 DEF GoodElement
<1>5. k[1].kind \in {"value", "list"}
  BY <1>3, <1>4 DEF Fits, TTypes
<1>6. wire \in Seq(Token)
  BY SentTyped
<1> HIDE DEF k, after
<1>7. (wire = << >> => writing = "lost") /\ (wire # << >> => Head(wire) = k[1])
  BY <1>1, <1>4, <1>6, FirstToken
<1> QED
  BY <1>2, <1>5, <1>7

LEMMA InFieldStays ==
  ASSUME NEW n \in Nat, NEW t, InField(n, t), UNCHANGED <<struct, sent, writing, object, field>>
  PROVE  InField(n, t)'
<1>1. AfterFields(n)'
  BY DEF InField, AfterFields
<1> QED
  BY <1>1 DEF InField

LEMMA ElementStays ==
  ASSUME NEW n \in Nat, NEW e \in Nat, NEW j, AtElement(n, e, j), NEW m \in Nat,
         UNCHANGED <<struct, sent, writing, object, field, left, list>>,
         sent[n + 1].value.of = "struct",
         m \in 0..Len(sent[n + 1].value.elements[e + 1]),
         part' = PartMeaning("data_info", sent[n + 1].value.elements[e + 1], m),
         Arrives(wire', writing,
                 PartRest(sent[n + 1].value.elements[e + 1], m,
                          ListRest(sent[n + 1].value, e + 1, StructRest(sent, n + 1))))
  PROVE  AtElement(n, e, m)'
<1>1. InField(n, "list")'
  BY InFieldStays DEF AtElement
<1>2. AfterElements(sent[n + 1].value, e)'
  BY DEF AtElement, AfterElements
<1> QED
  BY <1>1, <1>2 DEF AtElement

LEMMA MemberStays ==
  ASSUME NEW n \in Nat, NEW j, AtMember(n, j), NEW m \in Nat,
         UNCHANGED <<struct, sent, writing, object, field>>,
         m \in 0..Len(sent[n + 1].value),
         part' = Over(AddedUp(struct, sent, n, field),
                      PartMeaning("CalcException", sent[n + 1].value, m)),
         Arrives(wire', writing, PartRest(sent[n + 1].value, m, StructRest(sent, n + 1)))
  PROVE  AtMember(n, m)'
<1>1. InField(n, "struct")'
  BY InFieldStays DEF AtMember
<1> QED
  BY <1>1 DEF AtMember

LEMMA ReadScalarFieldSync ==
  ASSUME TypeInv, SyncInv, ReadScalarField
  PROVE  SyncInv'
<1> DEFINE t == Head(wire).ttype
           r == ReadScalar(t, Tail(wire))
           held == With(Held, Head(wire).fid, r.value)
<1>1. /\ Reading /\ stage # "list" /\ wire # << >> /\ Head(wire).kind = "field"
      /\ WellTyped(Here, Head(wire)) /\ t \in Scalars
      /\ UNCHANGED <<struct, original, sent, writing>>
  BY DEF ReadScalarField, AtField
<1>2. \/ /\ r.status = "ok" /\ wire' = r.rest
         /\ object' = IF stage = "struct" THEN held ELSE object
         /\ part' = IF stage = "struct" THEN part ELSE held
         /\ UNCHANGED <<reader, stage, field, left, list>>
      \/ r.status # "ok" /\ reader' = r.status
  BY DEF ReadScalarField, Throw
<1>3. reader = "reading" /\ writing # "open" /\ wire \in Seq(Token)
  BY <1>1, SentTyped DEF Reading
<1>4. stage \in {"struct", "element", "member"}
  BY <1>1 DEF TypeInv, StructsTypeOK
<1>5. ASSUME r.status = "broken", writing = "lost" PROVE SyncInv'
  BY <1>1, <1>2, <1>5, SyncBroken
<1>6. CASE stage = "struct"
  <2>1. Here = struct /\ Held = object
    BY <1>6 DEF Here, Held
  <2>2. Head(wire) # Stop
    BY <1>1, HeadingSame
  <2>3. PICK n \in Nat : AtHeading(n)
    BY <1>1, <1>6, <2>2, InStruct
  <2> DEFINE f == sent[n + 1]
             rest == StructRest(sent, n + 1)
  <2>4. /\ AfterFields(n) /\ n < Len(sent) /\ Good(struct, f) /\ Head(wire).fid = f.fid /\ t = f.ttype
        /\ WellTyped(struct, f) /\ Tail(wire) \in Seq(Token)
        /\ rest \in Seq(Token)
        /\ Arrives(Tail(wire), writing, Tokens(f.ttype, f.value) \o rest)
    BY <1>1, <2>1, <2>3 DEF AtHeading
  <2>5. f.ttype \in Scalars /\ f.ttype # "list" /\ f.ttype # "struct"
    BY <1>1, <2>4 DEF Scalars
  <2>6. Tokens(f.ttype, f.value) = f.value /\ IsScalar(t, f.value)
    BY <2>4, <2>5 DEF Tokens, Good
  <2>7. Meaning(struct, sent, n + 1) = With(object, f.fid, f.value[1].number)
    <3>1. /\ Meaning(struct, sent, n + 1)
               = With(Meaning(struct, sent, n), f.fid, ValueMeaning(struct, sent, n + 1, f.fid))
          /\ ValueMeaning(struct, sent, n + 1, f.fid) = f.value[1].number
      BY <2>4, <2>5, MeaningNext, ScalarNext
    <3> QED
      BY <2>4, <3>1 DEF AfterFields
  <2> DEFINE v == f.value
  <2>8. Arrives(Tail(wire), writing, v \o rest) /\ IsScalar(t, v)
    BY <2>4, <2>6
  <2> HIDE DEF t, v, rest
  <2>9. \/ /\ r.status = "ok" /\ r.value = v[1].number /\ Arrives(r.rest, writing, rest)
        \/ r.status = "broken" /\ writing = "lost"
    <3> DEFINE tail == Tail(wire)
    <3>1. t \in Scalars /\ IsScalar(t, v) /\ tail \in Seq(Token) /\ rest \in Seq(Token)
          /\ Arrives(tail, writing, v \o rest)
      BY <1>1, <2>4, <2>8
    <3> HIDE DEF tail
    <3>2. \/ /\ ReadScalar(t, tail).status = "ok" /\ ReadScalar(t, tail).value = v[1].number
             /\ Arrives(ReadScalar(t, tail).rest, writing, rest)
          \/ ReadScalar(t, tail).status = "broken" /\ writing = "lost"
      BY <3>1, ScalarArrives
    <3> QED
      BY <3>2 DEF tail
  <2> HIDE DEF r
  <2>10. CASE r.status = "broken" /\ writing = "lost"
    BY <1>5, <2>10
  <2>11. CASE r.status = "ok" /\ r.value = v[1].number /\ Arrives(r.rest, writing, rest)
    <3>1. /\ wire' = r.rest /\ object' = With(object, f.fid, v[1].number)
          /\ reader' = "reading" /\ stage' = "struct"
      BY <1>2, <1>3, <1>6, <2>1, <2>4, <2>11
    <3>2. object' = Meaning(struct, sent, n + 1)
      BY <2>7, <3>1 DEF v
    <3>3. Arrives(wire', writing, StructRest(sent, n + 1))
      BY <2>11, <3>1 DEF rest
    <3>4. ~ (WellTyped(struct, sent[n + 1]) /\ sent[n + 1].ttype = "list")
      BY <2>5
    <3> HIDE DEF f
    <3> QED
      BY <1>1, <1>3, <2>4, <3>1, <3>2, <3>3, <3>4, AtNextField
  <2> QED
    BY <2>9, <2>10, <2>11
<1>7. CASE stage = "element"
  <2>1. Here = "data_info" /\ Held = part
    BY <1>1, <1>7, HereIs
  <2>2. PICK n \in Nat, e \in Nat, j \in Nat : AtElement(n, e, j)
    BY <1>3, <1>7 DEF SyncInv
  <2> DEFINE v == sent[n + 1].value
             k == v.elements[e + 1]
             after == ListRest(v, e + 1, StructRest(sent, n + 1))
  <2>3. v.of = "struct"
    BY <1>1, <2>2, OtherElements
  <2>4. /\ after \in Seq(Token) /\ GoodPart("data_info", k) /\ j \in 0..Len(k)
        /\ Arrives(wire, writing, PartRest(k, j, after))
    BY <2>2, <2>3, InElement
  <2>5. part = PartMeaning("data_info", k, j)
    BY <2>2, <2>3 DEF AtElement
  <2> HIDE DEF v, k, after
  <2>6. \/ /\ r.status = "ok" /\ j + 1 \in 0..Len(k)
           /\ PartMeaning("data_info", k, j + 1)
                = With(PartMeaning("data_info", k, j), Head(wire).fid, r.value)
           /\ Arrives(r.rest, writing, PartRest(k, j + 1, after))
        \/ r.status = "broken" /\ writing = "lost"
    BY <1>1, <1>3, <2>1, <2>4, PartScalar
  <2> HIDE DEF r
  <2>7. CASE r.status = "broken" /\ writing = "lost"
    BY <1>5, <2>7
  <2>8. CASE /\ r.status = "ok" /\ j + 1 \in 0..Len(k)
             /\ PartMeaning("data_info", k, j + 1)
                  = With(PartMeaning("data_info", k, j), Head(wire).fid, r.value)
             /\ Arrives(r.rest, writing, PartRest(k, j + 1, after))
    <3>1. /\ wire' = r.rest /\ UNCHANGED <<object, reader, stage, field, left, list>>
          /\ part' = With(part, Head(wire).fid, r.value)
      BY <1>2, <1>7, <2>1, <2>8
    <3>2. part' = PartMeaning("data_info", k, j + 1) /\ Arrives(wire', writing, PartRest(k, j + 1, after))
      BY <2>5, <2>8, <3>1
    <3> DEFINE m == j + 1
    <3>3. m \in Nat /\ m \in 0..Len(k) /\ part' = PartMeaning("data_info", k, m)
          /\ Arrives(wire', writing, PartRest(k, m, after))
      BY <2>8, <3>2
    <3> HIDE DEF m
    <3>4. AtElement(n, e, m)'
      BY <1>1, <2>2, <2>3, <3>1, <3>3, ElementStays DEF v, k, after
    <3>5. reader' = "reading" /\ stage' = "element"
      BY <1>3, <1>7, <3>1
    <3> QED
      BY <3>3, <3>4, <3>5, SyncReading
  <2> QED
    BY <2>6, <2>7, <2>8
<1>8. CASE stage = "member"
  <2>1. Here = "CalcException" /\ Held = part
    BY <1>1, <1>8, HereIs
  <2>2. PICK n \in Nat, j \in Nat : AtMember(n, j)
    BY <1>3, <1>8 DEF SyncInv
  <2> DEFINE v == sent[n + 1].value
             after == StructRest(sent, n + 1)
             old == AddedUp(struct, sent, n, field)
  <2>3. /\ after \in Seq(Token) /\ GoodPart("CalcException", v) /\ j \in 0..Len(v)
        /\ Arrives(wire, writing, PartRest(v, j, after))
    BY <2>2, InMember
  <2>4. part = Over(old, PartMeaning("CalcException", v, j))
    BY <2>2 DEF AtMember
  <2> HIDE DEF v, after, old
  <2>5. \/ /\ r.status = "ok" /\ j + 1 \in 0..Len(v)
           /\ PartMeaning("CalcException", v, j + 1)
                = With(PartMeaning("CalcException", v, j), Head(wire).fid, r.value)
           /\ Arrives(r.rest, writing, PartRest(v, j + 1, after))
        \/ r.status = "broken" /\ writing = "lost"
    BY <1>1, <1>3, <2>1, <2>3, PartScalar
  <2> HIDE DEF r
  <2>6. CASE r.status = "broken" /\ writing = "lost"
    BY <1>5, <2>6
  <2>7. CASE /\ r.status = "ok" /\ j + 1 \in 0..Len(v)
             /\ PartMeaning("CalcException", v, j + 1)
                  = With(PartMeaning("CalcException", v, j), Head(wire).fid, r.value)
             /\ Arrives(r.rest, writing, PartRest(v, j + 1, after))
    <3>1. /\ wire' = r.rest /\ UNCHANGED <<object, reader, stage, field, left, list>>
          /\ part' = With(part, Head(wire).fid, r.value)
      BY <1>2, <1>8, <2>1, <2>7
    <3>2. part' = Over(old, PartMeaning("CalcException", v, j + 1))
      BY <2>4, <2>7, <3>1, OverWith
    <3> DEFINE m == j + 1
    <3>3. m \in Nat /\ m \in 0..Len(v) /\ part' = Over(old, PartMeaning("CalcException", v, m))
          /\ Arrives(wire', writing, PartRest(v, m, after))
      BY <2>7, <3>1, <3>2
    <3> HIDE DEF m
    <3>4. AtMember(n, m)'
      BY <1>1, <2>2, <3>1, <3>3, MemberStays DEF v, after, old
    <3>5. reader' = "reading" /\ stage' = "member"
      BY <1>3, <1>8, <3>1
    <3> QED
      BY <3>3, <3>4, <3>5, SyncReading
  <2> QED
    BY <2>5, <2>6, <2>7
<1> QED
  BY <1>4, <1>6, <1>7, <1>8

LEMMA SkipFieldSync ==
  ASSUME TypeInv, SyncInv, SkipField
  PROVE  SyncInv'
<1> DEFINE t == Head(wire).ttype
           tail == Tail(wire)
           r == Skipped(t, tail)
<1>1. /\ Reading /\ stage # "list" /\ wire # << >> /\ Head(wire).kind = "field"
      /\ ~ WellTyped(Here, Head(wire))
      /\ UNCHANGED <<struct, original, sent, writing>>
  BY DEF SkipField, AtField
<1>2. \/ /\ r.status = "ok" /\ wire' = r.rest
         /\ UNCHANGED <<object, reader, stage, field, left, list, part>>
      \/ r.status # "ok" /\ reader' = r.status
  BY DEF SkipField, Throw, inside
<1>3. reader = "reading" /\ writing # "open" /\ wire \in Seq(Token)
  BY <1>1, SentTyped DEF Reading
<1>4. stage \in {"struct", "element", "member"}
  BY <1>1 DEF TypeInv, StructsTypeOK
<1>5. ASSUME r.status = "broken", writing = "lost" PROVE SyncInv'
  BY <1>1, <1>2, <1>5, SyncBroken
<1>6. CASE stage = "struct"
  <2>1. Here = struct
    BY <1>6 DEF Here
  <2>2. Head(wire) # Stop
    BY <1>1, HeadingSame
  <2>3. PICK n \in Nat : AtHeading(n)
    BY <1>1, <1>6, <2>2, InStruct
  <2> DEFINE f == sent[n + 1]
             ks == Tokens(f.ttype, f.value)
             rest == StructRest(sent, n + 1)
  <2>4. /\ AfterFields(n) /\ n < Len(sent) /\ Good(struct, f) /\ t = f.ttype
        /\ ~ WellTyped(struct, f) /\ tail \in Seq(Token)
        /\ ks \in Seq(Token) /\ rest \in Seq(Token)
        /\ Arrives(tail, writing, ks \o rest)
    BY <1>1, <2>1, <2>3 DEF AtHeading
  <2>5. Encodes(t, ks)
    BY <2>4 DEF Good
  <2>6. Meaning(struct, sent, n + 1) = object
    BY <2>4, MeaningSkipped DEF AfterFields
  <2> HIDE DEF t, tail, ks, rest
  <2>7. \/ r.status = "ok" /\ Arrives(r.rest, writing, rest)
        \/ r.status = "broken" /\ writing = "lost"
    BY <2>4, <2>5, SkipArrives
  <2> HIDE DEF r
  <2>8. CASE r.status = "broken" /\ writing = "lost"
    BY <1>5, <2>8
  <2>9. CASE r.status = "ok" /\ Arrives(r.rest, writing, rest)
    <3>1. /\ object' = Meaning(struct, sent, n + 1)
          /\ reader' = "reading" /\ stage' = "struct"
      BY <1>2, <1>3, <1>6, <2>6, <2>9
    <3>2. Arrives(wire', writing, StructRest(sent, n + 1))
      BY <1>2, <2>9 DEF rest
    <3>3. ~ (WellTyped(struct, sent[n + 1]) /\ sent[n + 1].ttype = "list")
      BY <2>4
    <3> HIDE DEF f
    <3> QED
      BY <1>1, <1>3, <2>4, <3>1, <3>2, <3>3, AtNextField
  <2> QED
    BY <2>7, <2>8, <2>9
<1>7. CASE stage = "element"
  <2>1. Here = "data_info"
    BY <1>1, <1>7, HereIs
  <2>2. PICK n \in Nat, e \in Nat, j \in Nat : AtElement(n, e, j)
    BY <1>3, <1>7 DEF SyncInv
  <2> DEFINE v == sent[n + 1].value
             k == v.elements[e + 1]
             after == ListRest(v, e + 1, StructRest(sent, n + 1))
  <2>3. v.of = "struct"
    BY <1>1, <2>2, OtherElements
  <2>4. /\ after \in Seq(Token) /\ GoodPart("data_info", k) /\ j \in 0..Len(k)
        /\ Arrives(wire, writing, PartRest(k, j, after))
    BY <2>2, <2>3, InElement
  <2>5. part = PartMeaning("data_info", k, j)
    BY <2>2, <2>3 DEF AtElement
  <2> HIDE DEF v, k, after
  <2>6. \/ /\ r.status = "ok" /\ j + 1 \in 0..Len(k)
           /\ PartMeaning("data_info", k, j + 1) = PartMeaning("data_info", k, j)
           /\ Arrives(r.rest, writing, PartRest(k, j + 1, after))
        \/ r.status = "broken" /\ writing = "lost"
    BY <1>1, <1>3, <2>1, <2>4, PartSkip
  <2> HIDE DEF r
  <2>7. CASE r.status = "broken" /\ writing = "lost"
    BY <1>5, <2>7
  <2>8. CASE /\ r.status = "ok" /\ j + 1 \in 0..Len(k)
             /\ PartMeaning("data_info", k, j + 1) = PartMeaning("data_info", k, j)
             /\ Arrives(r.rest, writing, PartRest(k, j + 1, after))
    <3>1. wire' = r.rest /\ UNCHANGED <<object, reader, stage, field, left, list, part>>
      BY <1>2, <2>8
    <3> DEFINE m == j + 1
    <3>2. m \in Nat /\ m \in 0..Len(k) /\ part' = PartMeaning("data_info", k, m)
          /\ Arrives(wire', writing, PartRest(k, m, after))
      BY <2>5, <2>8, <3>1
    <3> HIDE DEF m
    <3>3. AtElement(n, e, m)'
      BY <1>1, <2>2, <2>3, <3>1, <3>2, ElementStays DEF v, k, after
    <3>4. reader' = "reading" /\ stage' = "element"
      BY <1>3, <1>7, <3>1
    <3> QED
      BY <3>2, <3>3, <3>4, SyncReading
  <2> QED
    BY <2>6, <2>7, <2>8
<1>8. CASE stage = "member"
  <2>1. Here = "CalcException"
    BY <1>1, <1>8, HereIs
  <2>2. PICK n \in Nat, j \in Nat : AtMember(n, j)
    BY <1>3, <1>8 DEF SyncInv
  <2> DEFINE v == sent[n + 1].value
             after == StructRest(sent, n + 1)
             old == AddedUp(struct, sent, n, field)
  <2>3. /\ after \in Seq(Token) /\ GoodPart("CalcException", v) /\ j \in 0..Len(v)
        /\ Arrives(wire, writing, PartRest(v, j, after))
    BY <2>2, InMember
  <2>4. part = Over(old, PartMeaning("CalcException", v, j))
    BY <2>2 DEF AtMember
  <2> HIDE DEF v, after, old
  <2>5. \/ /\ r.status = "ok" /\ j + 1 \in 0..Len(v)
           /\ PartMeaning("CalcException", v, j + 1) = PartMeaning("CalcException", v, j)
           /\ Arrives(r.rest, writing, PartRest(v, j + 1, after))
        \/ r.status = "broken" /\ writing = "lost"
    BY <1>1, <1>3, <2>1, <2>3, PartSkip
  <2> HIDE DEF r
  <2>6. CASE r.status = "broken" /\ writing = "lost"
    BY <1>5, <2>6
  <2>7. CASE /\ r.status = "ok" /\ j + 1 \in 0..Len(v)
             /\ PartMeaning("CalcException", v, j + 1) = PartMeaning("CalcException", v, j)
             /\ Arrives(r.rest, writing, PartRest(v, j + 1, after))
    <3>1. wire' = r.rest /\ UNCHANGED <<object, reader, stage, field, left, list, part>>
      BY <1>2, <2>7
    <3> DEFINE m == j + 1
    <3>2. m \in Nat /\ m \in 0..Len(v) /\ part' = Over(old, PartMeaning("CalcException", v, m))
          /\ Arrives(wire', writing, PartRest(v, m, after))
      BY <2>4, <2>7, <3>1
    <3> HIDE DEF m
    <3>3. AtMember(n, m)'
      BY <1>1, <2>2, <3>1, <3>2, MemberStays DEF v, after, old
    <3>4. reader' = "reading" /\ stage' = "member"
      BY <1>3, <1>8, <3>1
    <3> QED
      BY <3>2, <3>3, <3>4, SyncReading
  <2> QED
    BY <2>5, <2>6, <2>7
<1> QED
  BY <1>4, <1>6, <1>7, <1>8

LEMMA ReadNothingSync ==
  ASSUME TypeInv, SyncInv, ReadNothing
  PROVE  SyncInv'
<1>1. /\ Reading /\ stage # "list" /\ wire = << >> /\ reader' = "broken"
      /\ UNCHANGED <<struct, sent, writing>>
  BY DEF ReadNothing, Throw
<1>2. reader = "reading" /\ stage \in {"struct", "element", "member"} /\ wire \in Seq(Token)
  BY <1>1, SentTyped DEF Reading, TypeInv, StructsTypeOK
<1>3. CASE stage = "struct"
  <2>1. writing = "lost"
    BY <1>1, <1>3, InStruct
  <2> QED
    BY <1>1, <2>1, SyncBroken
<1>4. CASE stage = "element"
  <2>1. PICK n \in Nat, e \in Nat, j \in Nat : AtElement(n, e, j)
    BY <1>2, <1>4 DEF SyncInv
  <2> DEFINE v == sent[n + 1].value
             k == v.elements[e + 1]
             after == ListRest(v, e + 1, StructRest(sent, n + 1))
  <2>2. CASE v.of = "struct"
    <3>1. /\ after \in Seq(Token) /\ k \in Seq(PartField) /\ j \in 0..Len(k)
          /\ Arrives(wire, writing, PartRest(k, j, after))
      BY <2>1, <2>2, InElement
    <3> HIDE DEF v, k, after
    <3>2. writing = "lost"
      BY <1>1, <1>2, <3>1, PartHead
    <3> QED
      BY <1>1, <3>2, SyncBroken
  <2>3. CASE v.of # "struct"
    <3>1. writing = "lost"
      BY <1>1, <2>1, <2>3, OtherElements
    <3> QED
      BY <1>1, <3>1, SyncBroken
  <2> QED
    BY <2>2, <2>3
<1>5. CASE stage = "member"
  <2>1. PICK n \in Nat, j \in Nat : AtMember(n, j)
    BY <1>2, <1>5 DEF SyncInv
  <2> DEFINE v == sent[n + 1].value
             after == StructRest(sent, n + 1)
  <2>2. /\ after \in Seq(Token) /\ v \in Seq(PartField) /\ j \in 0..Len(v)
        /\ Arrives(wire, writing, PartRest(v, j, after))
    BY <2>1, InMember
  <2> HIDE DEF v, after
  <2>3. writing = "lost"
    BY <1>1, <1>2, <2>2, PartHead
  <2> QED
    BY <1>1, <2>3, SyncBroken
<1> QED
  BY <1>2, <1>3, <1>4, <1>5

\* A value where a field is expected: the elements of a list were no structs.
LEMMA ReadNonsenseSync ==
  ASSUME TypeInv, SyncInv, ReadNonsense
  PROVE  SyncInv'
<1>1. /\ Reading /\ stage # "list" /\ wire # << >> /\ Head(wire).kind \in {"value", "list"}
      /\ reader' = "garbled" /\ UNCHANGED <<struct, sent, writing>>
  BY DEF ReadNonsense, Throw
<1>2. reader = "reading" /\ stage \in {"struct", "element", "member"} /\ wire \in Seq(Token)
      /\ writing # "open"
  BY <1>1, SentTyped DEF Reading, TypeInv, StructsTypeOK
<1>3. Stop.kind = "stop" /\ \A f : Heading(f).kind = "field"
  BY HeadingSame
<1>4. ASSUME stage = "struct" PROVE FALSE
  <2>1. Head(wire) = Stop \/ \E n \in Nat : AtHeading(n)
    BY <1>1, <1>4, InStruct
  <2> QED
    BY <1>1, <1>3, <2>1 DEF AtHeading
<1>5. CASE stage = "element"
  <2>1. PICK n \in Nat, e \in Nat, j \in Nat : AtElement(n, e, j)
    BY <1>2, <1>5 DEF SyncInv
  <2> DEFINE v == sent[n + 1].value
             k == v.elements[e + 1]
             after == ListRest(v, e + 1, StructRest(sent, n + 1))
  <2>2. ASSUME v.of = "struct" PROVE FALSE
    <3>1. /\ after \in Seq(Token) /\ k \in Seq(PartField) /\ j \in 0..Len(k)
          /\ Arrives(wire, writing, PartRest(k, j, after))
      BY <2>1, <2>2, InElement
    <3> HIDE DEF v, k, after
    <3>2. Head(wire) = Stop \/ Head(wire) = Heading(k[j + 1])
      BY <1>1, <1>2, <3>1, PartHead
    <3> QED
      BY <1>1, <1>3, <3>2
  <2>3. ~ ElementsAsKnown
    BY <2>1, <2>2, OtherElements
  <2> QED
    BY <1>1, <1>2, <2>3, SyncGarbled
<1>6. ASSUME stage = "member" PROVE FALSE
  <2>1. PICK n \in Nat, j \in Nat : AtMember(n, j)
    BY <1>2, <1>6 DEF SyncInv
  <2> DEFINE v == sent[n + 1].value
             after == StructRest(sent, n + 1)
  <2>2. /\ after \in Seq(Token) /\ v \in Seq(PartField) /\ j \in 0..Len(v)
        /\ Arrives(wire, writing, PartRest(v, j, after))
    BY <2>1, InMember
  <2> HIDE DEF v, after
  <2>3. Head(wire) = Stop \/ Head(wire) = Heading(v[j + 1])
    BY <1>1, <1>2, <2>2, PartHead
  <2> QED
    BY <1>1, <1>3, <2>3
<1> QED
  BY <1>2, <1>4, <1>5, <1>6

LEMMA ReadListBeginSync ==
  ASSUME TypeInv, SyncInv, ReadListBegin
  PROVE  SyncInv'
<1>1. /\ Reading /\ stage # "list" /\ wire # << >> /\ Head(wire).kind = "field"
      /\ WellTyped(Here, Head(wire)) /\ Head(wire).ttype = "list"
      /\ Head(wire).ttype \notin Scalars
      /\ UNCHANGED <<struct, original, sent, writing>>
  BY DEF ReadListBegin, AtField, Scalars
<1>2. stage = "struct" /\ Here = struct
  BY <1>1, OnlyInTheStruct
<1>3. reader = "reading" /\ writing # "open" /\ wire \in Seq(Token)
  BY <1>1, SentTyped DEF Reading
<1>4. PICK n \in Nat : AtHeading(n)
  <2>1. Head(wire) # Stop
    BY <1>1, HeadingSame
  <2> QED
    BY <1>1, <1>2, <2>1, InStruct
<1> DEFINE f == sent[n + 1]
           v == f.value
           lt == ListToken(v)
           et == ElementTokens(v)
           tail == Tail(wire)
           rest == StructRest(sent, n + 1)
<1>5. /\ AfterFields(n) /\ n < Len(sent) /\ WellTyped(struct, f) /\ f.ttype = "list"
      /\ Head(wire).fid = f.fid /\ tail \in Seq(Token) /\ rest \in Seq(Token)
      /\ Arrives(tail, writing, Tokens(f.ttype, v) \o rest)
  BY <1>1, <1>2, <1>4 DEF AtHeading
<1>6. TypedElements(v) /\ Len(v.elements) \in Nat
  BY <1>5, FieldIsGood
<1>7. lt \in Token /\ et \in Seq(Token) /\ et \o rest = ListRest(v, 0, rest)
  <2>1. 0 \in 0..Len(v.elements)
    BY <1>6
  <2> QED
    BY <1>5, <1>6, <2>1, ElementPiecesType, ListRestIs
<1>8. Tokens(f.ttype, v) = <<lt>> \o et
  BY <1>5 DEF Tokens
<1>9. lt.size = Len(v.elements)
  BY DEF ListToken
<1> HIDE DEF f, v, lt, et, tail, rest
<1> DEFINE k == <<lt>>
<1>10. k \in Seq(Token) /\ et \o rest \in Seq(Token)
  <2>1. k \in Seq(Token)
    BY <1>7
  <2>2. et \in Seq(Token) /\ rest \in Seq(Token)
    BY <1>5, <1>7
  <2> QED
    BY <2>1, <2>2, ConcatProperties
<1>11. Arrives(tail, writing, <<lt>> \o (et \o rest))
  <2>0. et \in Seq(Token) /\ rest \in Seq(Token)
    BY <1>5, <1>7
  <2> HIDE DEF k
  <2>1. (k \o et) \o rest = k \o (et \o rest)
    BY <1>10, <2>0, Associative
  <2> USE DEF k
  <2> QED
    BY <1>5, <1>8, <2>1
<1>12. Len(wire) \in Nat /\ Len(wire) # 0 /\ Len(tail) = Len(wire) - 1
       /\ (Len(wire) > 1 => Head(tail) = wire[2])
  BY <1>1, <1>3 DEF tail
<1>13. CASE Len(wire) = 1 /\ Throw("broken")
  <2>1. tail = << >>
    <3>1. Len(tail) = 0
      BY <1>12, <1>13
    <3> QED
      BY <1>5, <3>1, EmptySeq
  <2>2. <<lt>> \o (et \o rest) \in Seq(Token) /\ <<lt>> \o (et \o rest) # << >>
    BY <1>7, <1>10, NotNothing
  <2>3. writing = "lost"
    BY <1>11, <2>1, <2>2, NothingCame
  <2>4. reader' = "broken"
    BY <1>13 DEF Throw
  <2> QED
    BY <1>1, <2>3, <2>4, SyncBroken
<1>14. CASE /\ Len(wire) > 1 /\ wire' = Tail(Tail(wire))
            /\ stage' = "list" /\ field' = Head(wire).fid
            /\ left' = wire[2].size /\ list' = Cleared(Head(wire).fid)
            /\ UNCHANGED <<object, reader, part>>
  <2>1. tail # << >>
    <3>1. Len(tail) # 0 /\ Len(<< >>) = 0
      BY <1>12, <1>14
    <3> QED
      BY <3>1
  <2>2. Head(tail) = lt /\ Arrives(Tail(tail), writing, et \o rest)
    BY <1>5, <1>7, <1>10, <1>11, <2>1, ArrivesHead
  <2>3. left' = Len(v.elements) - 0 /\ Arrives(wire', writing, ListRest(v, 0, rest))
    BY <1>6, <1>7, <1>9, <1>12, <1>14, <2>2 DEF tail
  <2>4. InField(n, "list")'
    <3>1. AfterFields(n)'
      BY <1>1, <1>5, <1>14 DEF AfterFields
    <3> QED
      BY <1>1, <1>3, <1>5, <1>14, <3>1 DEF InField, f
  <2>5. AfterElements(v, 0)'
    <3>1. list' = << >> /\ 0 \in 0..Len(v.elements) /\ ~(0 > 0)
      BY <1>6, <1>14 DEF Cleared
    <3>2. 1..0 = {}
      OBVIOUS
    <3>3. \A of : << >> = [i \in 1..0 |-> ElementMeaning(of, v.elements[i])]
      BY <3>2
    <3>4. v' = v
      BY <1>1 DEF v, f
    <3> QED
      BY <3>1, <3>2, <3>3, <3>4 DEF AfterElements
  <2>6. AtList(n, 0)'
    <3>1. v = sent[n + 1].value /\ rest = StructRest(sent, n + 1)
      BY DEF v, f, rest
    <3> QED
      BY <1>1, <2>3, <2>4, <2>5, <3>1 DEF AtList, v, f
  <2>7. reader' = "reading" /\ stage' = "list"
    BY <1>3, <1>14
  <2> QED
    BY <2>6, <2>7, SyncReading
<1> QED
  BY <1>13, <1>14 DEF ReadListBegin

LEMMA ReadStructBeginSync ==
  ASSUME TypeInv, SyncInv, ReadStructBegin
  PROVE  SyncInv'
<1>1. /\ Reading /\ stage # "list" /\ wire # << >> /\ Head(wire).kind = "field"
      /\ WellTyped(Here, Head(wire)) /\ Head(wire).ttype = "struct"
      /\ Head(wire).ttype \notin Scalars
      /\ UNCHANGED <<struct, original, sent, writing, object, reader, left, list>>
      /\ wire' = Tail(wire) /\ stage' = "member" /\ field' = Head(wire).fid
      /\ part' = IF Head(wire).fid \in DOMAIN object THEN object[Head(wire).fid] ELSE Empty
  BY DEF ReadStructBegin, AtField, Scalars
<1>2. stage = "struct" /\ Here = struct
  BY <1>1, OnlyInTheStruct
<1>3. reader = "reading" /\ writing # "open" /\ wire \in Seq(Token)
  BY <1>1, SentTyped DEF Reading
<1>4. PICK n \in Nat : AtHeading(n)
  <2>1. Head(wire) # Stop
    BY <1>1, HeadingSame
  <2> QED
    BY <1>1, <1>2, <2>1, InStruct
<1> DEFINE f == sent[n + 1]
           v == f.value
           fid == f.fid
           rest == StructRest(sent, n + 1)
           A == AddedUp(struct, sent, n, fid)
<1>5. /\ AfterFields(n) /\ n < Len(sent) /\ WellTyped(struct, f) /\ f.ttype = "struct"
      /\ Head(wire).fid = fid /\ rest \in Seq(Token)
      /\ Arrives(Tail(wire), writing, Tokens(f.ttype, v) \o rest)
  BY <1>1, <1>2, <1>4 DEF AtHeading
<1>6. v \in Seq(PartField)
  BY <1>5, FieldIsGood DEF GoodPart
<1>7. Tokens(f.ttype, v) = PartTokens(v)
  BY <1>5 DEF Tokens
<1>8. fid \in DOMAIN Fields[struct] /\ Fields[struct][fid].ttype = "struct"
  BY <1>5 DEF WellTyped
<1>9. object = Meaning(struct, sent, n)
  BY <1>5 DEF AfterFields
<1>10. A = (IF fid \in DOMAIN object THEN object[fid] ELSE Empty) /\ A = [m \in DOMAIN A |-> A[m]]
  BY <1>8, <1>9, HeldBefore
<1> HIDE DEF v, fid, rest, A
<1>11. part' = Over(A, PartMeaning("CalcException", v, 0))
  BY <1>1, <1>5, <1>10, OverEmpty, NothingSaid
<1>12. 0 \in 0..Len(v)
  BY <1>6
<1>13. Arrives(wire', writing, PartRest(v, 0, rest))
  BY <1>1, <1>5, <1>6, <1>7, <1>12, PartRestIs
<1>14. InField(n, "struct")'
  <2>1. AfterFields(n)'
    BY <1>1, <1>5 DEF AfterFields
  <2> QED
    BY <1>1, <1>3, <1>5, <2>1 DEF InField, fid
<1>15. AtMember(n, 0)'
  <2>1. field' = fid
    BY <1>1, <1>5
  <2> QED
    BY <1>1, <1>11, <1>12, <1>13, <1>14, <2>1 DEF AtMember, v, rest, A
<1> QED
  BY <1>1, <1>3, <1>15, SyncReading

-----------------------------------------------------------------------------
(***************************************************************************)
(* The elements of a list.                                                 *)
(***************************************************************************)

LEMMA InList ==
  ASSUME TypeInv, NEW n \in Nat, NEW e \in Nat, AtList(n, e)
  PROVE  LET f == sent[n + 1]
             v == f.value
             rest == StructRest(sent, n + 1)
         IN
         /\ n < Len(sent) /\ WellTyped(struct, f) /\ f.ttype = "list" /\ field = f.fid
         /\ n + 1 \in Lists(struct, sent) /\ AfterFields(n)
         /\ GoodList(v) /\ TypedElements(v) /\ Len(v.elements) \in Nat
         /\ DOMAIN v.elements = 1..Len(v.elements)
         /\ e \in 0..Len(v.elements) /\ left = Len(v.elements) - e
         /\ Fields[struct][field].of \in {"double", "data_info"}
         /\ rest \in Seq(Token) /\ Arrives(wire, writing, ListRest(v, e, rest))
         /\ AfterElements(v, e) /\ InField(n, "list")
<1> DEFINE f == sent[n + 1]
           v == f.value
           rest == StructRest(sent, n + 1)
<1>1. /\ InField(n, "list") /\ AfterElements(v, e) /\ left = Len(v.elements) - e
      /\ Arrives(wire, writing, ListRest(v, e, rest))
  BY DEF AtList
<1>2. n < Len(sent) /\ WellTyped(struct, f) /\ f.ttype = "list" /\ field = f.fid /\ AfterFields(n)
  BY <1>1 DEF InField
<1>3. /\ GoodList(v) /\ TypedElements(v) /\ Len(v.elements) \in Nat
      /\ DOMAIN v.elements = 1..Len(v.elements)
      /\ rest \in Seq(Token) /\ n + 1 \in DOMAIN sent
      /\ Fields[struct][f.fid].of \in {"double", "data_info"}
  BY <1>2, FieldIsGood
<1>4. n + 1 \in Lists(struct, sent)
  BY <1>2, <1>3 DEF Lists
<1>5. e \in 0..Len(v.elements)
  BY <1>1 DEF AfterElements
<1> QED
  BY <1>1, <1>2, <1>3, <1>4, <1>5

\* Elements that are no numbers where numbers are expected.
LEMMA OtherNumbers ==
  ASSUME TypeInv, NEW n \in Nat, NEW e \in Nat, AtList(n, e),
         e < Len(sent[n + 1].value.elements),
         Fields[struct][field].of = "double", sent[n + 1].value.of # "double"
  PROVE  /\ ~ ElementsAsKnown
         /\ \/ ReadScalar("double", wire).status = "broken" /\ writing = "lost"
            \/ ReadScalar("double", wire).status = "garbled"
<1> DEFINE v == sent[n + 1].value
           k == v.elements[e + 1]
           rest == StructRest(sent, n + 1)
           after == ListRest(v, e + 1, rest)
<1>1. /\ GoodList(v) /\ TypedElements(v) /\ n + 1 \in Lists(struct, sent)
      /\ Len(v.elements) \in Nat /\ DOMAIN v.elements = 1..Len(v.elements)
      /\ Fields[struct][sent[n + 1].fid].of = "double"
      /\ rest \in Seq(Token) /\ Arrives(wire, writing, ListRest(v, e, rest))
  BY InList
<1>2. ~ ElementsAsKnown
  <2>1. v.elements # << >>
    <3>1. Len(v.elements) # 0 /\ Len(<< >>) = 0
      BY <1>1
    <3> QED
      BY <3>1
  <2>2. ~ AsKnown(struct, sent[n + 1])
    BY <1>1, <2>1, PartTables DEF AsKnown
  <2> QED
    BY <1>1, <2>2 DEF ElementsAsKnown
<1>3. e < Len(v.elements) /\ v.of # "double" /\ wire \in Seq(Token)
  BY SentTyped
<1> HIDE DEF v, rest
<1>4. /\ e + 1 \in DOMAIN v.elements /\ after \in Seq(Token)
      /\ v.of = "struct" => k \in Seq(PartField) /\ ListRest(v, e, rest) = PartRest(k, 0, after)
      /\ v.of # "struct" => k \in Seq(Token) /\ ListRest(v, e, rest) = k \o after
  BY <1>1, <1>3, ListRestPeel
<1>5. v.of \in TTypes /\ (v.of # "struct" => GoodElement(v.of, k))
  BY <1>1, <1>4 DEF GoodList, TypedElements
<1> HIDE DEF k, after
<1>6. /\ wire = << >> => writing = "lost"
      /\ wire # << >> => ~(Head(wire).kind = "value" /\ Head(wire).ttype = "double")
  <2>1. CASE v.of = "struct"
    <3>1. 0 \in 0..Len(k) /\ k \in Seq(PartField) /\ Arrives(wire, writing, PartRest(k, 0, after))
      BY <1>1, <1>4, <2>1
    <3>2. /\ wire = << >> => writing = "lost"
          /\ wire # << >> => Head(wire) = Stop \/ Head(wire) = Heading(k[0 + 1])
      BY <1>3, <1>4, <3>1, PartHead
    <3>3. Stop.kind = "stop" /\ \A f : Heading(f).kind = "field"
      BY HeadingSame
    <3> QED
      BY <3>2, <3>3
  <2>2. CASE v.of # "struct"
    <3>1. k \in Seq(Token) /\ Len(k) # 0 /\ Fits(v.of, k[1]) /\ Arrives(wire, writing, k \o after)
      BY <1>1, <1>4, <1>5, <2>2 DEF GoodElement
    <3>2. (wire = << >> => writing = "lost") /\ (wire # << >> => Head(wire) = k[1])
      BY <1>3, <1>4, <3>1, FirstToken
    <3>3. ~(k[1].kind = "value" /\ k[1].ttype = "double")
      BY <1>3, <1>5, <2>2, <3>1 DEF Fits, TTypes
    <3> QED
      BY <3>2, <3>3
  <2> QED
    BY <2>1, <2>2
<1>7. \/ ReadScalar("double", wire).status = "broken" /\ writing = "lost"
      \/ ReadScalar("double", wire).status = "garbled"
  BY <1>6 DEF ReadScalar, Throws
<1> QED
  BY <1>2, <1>7

LEMMA OneMoreElement ==
  ASSUME NEW of, NEW elements, NEW e \in Nat
  PROVE  Append([i \in 1..e |-> ElementMeaning(of, elements[i])], ElementMeaning(of, elements[e + 1]))
           = [i \in 1..(e + 1) |-> ElementMeaning(of, elements[i])]
<1> DEFINE M(i) == ElementMeaning(of, elements[i])
           l == [i \in 1..e |-> M(i)]
           r == [i \in 1..(e + 1) |-> M(i)]
           last == M(e + 1)
<1>1. l \in Seq({M(i) : i \in 1..(e + 1)}) /\ Len(l) = e /\ last \in {M(i) : i \in 1..(e + 1)}
  <2> HIDE DEF M
  <2>1. \A i \in 1..e : l[i] \in {M(k) : k \in 1..(e + 1)}
    OBVIOUS
  <2>2. e + 1 \in 1..(e + 1)
    OBVIOUS
  <2> QED
    BY <2>1, <2>2, FunctionIsSeq
<1>2. r \in Seq({M(i) : i \in 1..(e + 1)}) /\ Len(r) = e + 1
  <2> HIDE DEF M
  <2>1. \A i \in 1..(e + 1) : r[i] \in {M(k) : k \in 1..(e + 1)}
    OBVIOUS
  <2>2. e + 1 \in Nat
    OBVIOUS
  <2> QED
    BY <2>1, <2>2, FunctionIsSeq
<1>3. /\ Append(l, last) \in Seq({M(i) : i \in 1..(e + 1)}) /\ Len(Append(l, last)) = e + 1
      /\ Append(l, last)[e + 1] = last /\ \A i \in 1..e : Append(l, last)[i] = l[i]
  <2> HIDE DEF M, l, last
  <2> QED
    BY <1>1, AppendProperties
<1>4. ASSUME NEW i \in 1..(e + 1) PROVE Append(l, last)[i] = r[i]
  <2>1. CASE i = e + 1
    BY <1>3, <2>1
  <2>2. CASE i # e + 1
    <3>1. i \in 1..e /\ i \in 1..(e + 1)
      BY <2>2
    <3>2. l[i] = M(i) /\ r[i] = M(i)
      BY <3>1
    <3> QED
      BY <1>3, <3>1, <3>2
  <2> QED
    BY <2>1, <2>2
<1> DEFINE a == Append(l, last)
<1>5. a = r
  <2>1. /\ a \in Seq({M(i) : i \in 1..(e + 1)}) /\ r \in Seq({M(i) : i \in 1..(e + 1)})
        /\ Len(a) = e + 1 /\ Len(r) = e + 1 /\ \A i \in 1..(e + 1) : a[i] = r[i]
    BY <1>2, <1>3, <1>4
  <2> HIDE DEF a, r, M
  <2> QED
    BY <2>1, SeqEqual
<1> QED
  BY <1>5

LEMMA AtNextElement ==
  ASSUME NEW n \in Nat, NEW e \in Nat, InField(n, "list"), AfterElements(sent[n + 1].value, e),
         e < Len(sent[n + 1].value.elements), Len(sent[n + 1].value.elements) \in Nat,
         sent[n + 1].value.of = OnWire(Fields[struct][field].of),
         Fields[struct][field].of = "data_info" =>
           Required("data_info") \subseteq Said("data_info", sent[n + 1].value.elements[e + 1],
                                                Len(sent[n + 1].value.elements[e + 1])),
         UNCHANGED <<struct, sent, writing, object, field>>, reader' = "reading", stage' = "list",
         left' = Len(sent[n + 1].value.elements) - (e + 1),
         list' = Append(list, ElementMeaning(Fields[struct][field].of,
                                             sent[n + 1].value.elements[e + 1])),
         Arrives(wire', writing,
                 ListRest(sent[n + 1].value, e + 1, StructRest(sent, n + 1)))
  PROVE  SyncInv'
<1> DEFINE v == sent[n + 1].value
           of == Fields[struct][field].of
           m == e + 1
<1>1. InField(n, "list")'
  BY InFieldStays
<1>2. m \in Nat /\ m \in 0..Len(v.elements) /\ v.of = OnWire(of)
  OBVIOUS
<1>3. list' = [i \in 1..m |-> ElementMeaning(of, v.elements[i])]
  <2>1. list = [i \in 1..e |-> ElementMeaning(of, v.elements[i])]
    BY DEF AfterElements
  <2> QED
    BY <2>1, OneMoreElement
<1>4. of = "data_info" =>
        \A i \in 1..m : Required(of) \subseteq Said(of, v.elements[i], Len(v.elements[i]))
  <2> SUFFICES ASSUME of = "data_info", NEW i \in 1..m
               PROVE  Required(of) \subseteq Said(of, v.elements[i], Len(v.elements[i]))
    OBVIOUS
  <2>1. CASE i = m
    BY <2>1
  <2>2. CASE i # m
    <3>1. i \in 1..e
      BY <2>2
    <3> QED
      BY <3>1 DEF AfterElements
  <2> QED
    BY <2>1, <2>2
<1>5. left' = Len(v.elements) - m /\ Arrives(wire', writing, ListRest(v, m, StructRest(sent, n + 1)))
  OBVIOUS
<1> HIDE DEF m
<1>6. AtList(n, m)'
  <2>1. v' = v /\ of' = of
    OBVIOUS
  <2>2. AfterElements(v, m)'
    BY <1>2, <1>3, <1>4, <2>1 DEF AfterElements
  <2> QED
    BY <1>1, <1>5, <2>2 DEF AtList
<1> QED
  BY <1>2, <1>6, SyncReading

LEMMA ReadElementSync ==
  ASSUME TypeInv, SyncInv, ReadElement
  PROVE  SyncInv'
<1>1. /\ Reading /\ stage = "list" /\ left > 0
      /\ UNCHANGED <<struct, sent, writing>>
  BY DEF ReadElement
<1>2. reader = "reading" /\ writing # "open" /\ wire \in Seq(Token)
  BY <1>1, SentTyped DEF Reading
<1>3. PICK n \in Nat, e \in Nat : AtList(n, e)
  BY <1>1, <1>2 DEF SyncInv
<1> DEFINE v == sent[n + 1].value
           k == v.elements[e + 1]
           of == Fields[struct][field].of
           rest == StructRest(sent, n + 1)
           after == ListRest(v, e + 1, rest)
           r == ReadScalar(of, wire)
<1>4. \/ /\ of = "data_info" /\ stage' = "element" /\ left' = left - 1 /\ part' = Empty
         /\ UNCHANGED <<wire, object, reader, field, list>>
      \/ /\ of # "data_info" /\ r.status = "ok"
         /\ wire' = r.rest /\ left' = left - 1 /\ list' = Append(list, r.value)
         /\ UNCHANGED <<object, reader, stage, field, part>>
      \/ of # "data_info" /\ r.status # "ok" /\ reader' = r.status
  BY DEF ReadElement, Throw
<1>5. /\ GoodList(v) /\ TypedElements(v) /\ Len(v.elements) \in Nat
      /\ e \in 0..Len(v.elements) /\ left = Len(v.elements) - e
      /\ of \in {"double", "data_info"} /\ rest \in Seq(Token)
      /\ Arrives(wire, writing, ListRest(v, e, rest))
      /\ AfterElements(v, e) /\ InField(n, "list")
  BY <1>3, InList
<1>6. e < Len(v.elements)
  <2> DEFINE l == Len(v.elements)
  <2>1. l \in Nat /\ left = l - e /\ left > 0
    BY <1>1, <1>5
  <2> HIDE DEF l
  <2>2. e < l
    BY <2>1
  <2> QED
    BY <2>2 DEF l
<1>7. left - 1 = Len(v.elements) - (e + 1)
  <2> DEFINE l == Len(v.elements)
  <2>1. l \in Nat /\ left = l - e
    BY <1>5
  <2> HIDE DEF l
  <2>2. left - 1 = l - (e + 1)
    BY <2>1
  <2> QED
    BY <2>2 DEF l
<1>8. /\ e + 1 \in DOMAIN v.elements /\ after \in Seq(Token)
      /\ v.of = "struct" => k \in Seq(PartField) /\ ListRest(v, e, rest) = PartRest(k, 0, after)
      /\ v.of # "struct" => k \in Seq(Token) /\ ListRest(v, e, rest) = k \o after
  <2> HIDE DEF v, rest
  <2> QED
    BY <1>5, <1>6, ListRestPeel
<1>9. CASE of = "data_info"
  <2>1. /\ stage' = "element" /\ left' = left - 1 /\ part' = Empty
        /\ UNCHANGED <<wire, object, reader, field, list>>
    BY <1>4, <1>9
  <2>2. InField(n, "list")'
    BY <1>1, <1>5, <2>1, InFieldStays
  <2>3. AfterElements(v, e)'
    BY <1>1, <1>5, <2>1 DEF AfterElements
  <2>4. v.of = "struct" =>
          /\ 0 \in 0..Len(k)
          /\ part' = PartMeaning("data_info", k, 0)
          /\ Arrives(wire', writing, PartRest(k, 0, after))
    <3>1. part' = PartMeaning("data_info", k, 0)
      BY <2>1, NothingSaid
    <3>2. ASSUME v.of = "struct"
          PROVE  0 \in 0..Len(k) /\ Arrives(wire', writing, PartRest(k, 0, after))
      <4>1. k \in Seq(PartField) /\ ListRest(v, e, rest) = PartRest(k, 0, after)
        BY <1>8, <3>2
      <4>2. Arrives(wire', writing, ListRest(v, e, rest))
        BY <1>5, <2>1
      <4>3. Arrives(wire', writing, PartRest(k, 0, after))
        BY <4>1, <4>2
      <4> HIDE DEF k
      <4>4. 0 \in 0..Len(k)
        BY <4>1
      <4> QED
        BY <4>3, <4>4
    <3> QED
      BY <3>1, <3>2
  <2>5. v.of # "struct" => Arrives(wire', writing, ListRest(v, e, rest))
    BY <1>5, <2>1
  <2>6. left' = Len(v.elements) - (e + 1)
    BY <1>7, <2>1
  <2>7. AtElement(n, e, 0)'
    BY <1>1, <1>6, <1>9, <2>1, <2>2, <2>3, <2>4, <2>5, <2>6 DEF AtElement
  <2>8. reader' = "reading" /\ stage' = "element" /\ 0 \in Nat
    BY <1>2, <2>1
  <2> QED
    BY <2>7, <2>8, SyncReading
<1>10. CASE of = "double" /\ v.of = "double"
  <2>1. "double" \in Scalars /\ of # "data_info" /\ v.of # "struct"
    BY <1>10 DEF Scalars
  <2>2. k \in Seq(Token) /\ IsScalar("double", k) /\ Arrives(wire, writing, k \o after)
    BY <1>5, <1>8, <1>10, <2>1 DEF GoodList, GoodElement
  <2>3. ElementMeaning(of, k) = k[1].number
    BY <2>1 DEF ElementMeaning
  <2>4. v.of = OnWire(of)
    BY <1>10, PartTables
  <2>5. \/ /\ r.status = "ok" /\ r.value = k[1].number /\ Arrives(r.rest, writing, after)
        \/ r.status = "broken" /\ writing = "lost"
    <3> HIDE DEF k, after
    <3>1. \/ /\ ReadScalar("double", wire).status = "ok"
             /\ ReadScalar("double", wire).value = k[1].number
             /\ Arrives(ReadScalar("double", wire).rest, writing, after)
          \/ ReadScalar("double", wire).status = "broken" /\ writing = "lost"
      BY <1>2, <1>8, <2>1, <2>2, ScalarArrives
    <3> QED
      BY <1>10, <3>1
  <2> HIDE DEF r
  <2>6. CASE r.status = "broken" /\ writing = "lost"
    <3>1. reader' = "broken" /\ writing' = "lost"
      BY <1>1, <1>4, <2>1, <2>6
    <3> QED
      BY <3>1, SyncBroken
  <2>7. CASE r.status = "ok" /\ r.value = k[1].number /\ Arrives(r.rest, writing, after)
    <3>1. /\ wire' = r.rest /\ left' = left - 1 /\ list' = Append(list, r.value)
          /\ UNCHANGED <<object, reader, stage, field, part>>
      BY <1>4, <2>1, <2>7
    <3>2. /\ left' = Len(v.elements) - (e + 1) /\ list' = Append(list, ElementMeaning(of, k))
          /\ Arrives(wire', writing, after) /\ reader' = "reading" /\ stage' = "list"
          /\ of # "data_info"
      BY <1>1, <1>2, <1>7, <2>1, <2>3, <2>7, <3>1
    <3> QED
      BY <1>1, <1>5, <1>6, <2>4, <3>1, <3>2, AtNextElement
  <2> QED
    BY <2>5, <2>6, <2>7
<1>11. CASE of = "double" /\ v.of # "double"
  <2>1. ~ ElementsAsKnown
    BY <1>3, <1>6, <1>11, OtherNumbers
  <2>2. \/ r.status = "broken" /\ writing = "lost"
        \/ r.status = "garbled"
    BY <1>3, <1>6, <1>11, OtherNumbers
  <2> HIDE DEF r
  <2>3. CASE r.status = "broken" /\ writing = "lost"
    <3>1. reader' = "broken" /\ writing' = "lost"
      BY <1>1, <1>4, <1>11, <2>3
    <3> QED
      BY <3>1, SyncBroken
  <2>4. CASE r.status = "garbled"
    <3>1. reader' = "garbled"
      BY <1>4, <1>11, <2>4
    <3> QED
      BY <1>1, <1>2, <2>1, <3>1, SyncGarbled
  <2> QED
    BY <2>2, <2>3, <2>4
<1> QED
  BY <1>5, <1>9, <1>10, <1>11

\* What has been read of a list that is complete.
LEMMA WholeList ==
  ASSUME NEW v, TypedElements(v), Len(v.elements) \in Nat,
         AfterElements(v, Len(v.elements)), NEW f, f.value = v, f.fid = field
  PROVE  /\ list = [i \in DOMAIN v.elements |->
                      ElementMeaning(Fields[struct][field].of, v.elements[i])]
         /\ AsKnown(struct, f) /\ ElementsComplete(struct, f)
<1> DEFINE of == Fields[struct][field].of
           l == Len(v.elements)
<1>1. \E S : v.elements \in Seq(S)
  BY DEF TypedElements
<1>2. DOMAIN v.elements = 1..l
  BY <1>1
<1>3. /\ l > 0 => v.of = OnWire(of)
      /\ list = [i \in 1..l |-> ElementMeaning(of, v.elements[i])]
      /\ of = "data_info" =>
           \A i \in 1..l : Required(of) \subseteq Said(of, v.elements[i], Len(v.elements[i]))
  BY DEF AfterElements
<1>4. AsKnown(struct, f)
  <2>1. CASE l = 0
    <3>1. v.elements = << >>
      BY <1>1, <2>1, EmptySeq
    <3> QED
      BY <3>1 DEF AsKnown
  <2>2. CASE l # 0
    <3>1. l > 0
      BY <2>2
    <3>2. v.of = OnWire(of)
      BY <1>3, <3>1
    <3> QED
      BY <3>2 DEF AsKnown
  <2> QED
    BY <2>1, <2>2
<1>5. ElementsComplete(struct, f)
  <2> SUFFICES ASSUME of = "data_info", NEW i \in DOMAIN v.elements
               PROVE  Required("data_info")
                        \subseteq Said("data_info", v.elements[i], Len(v.elements[i]))
    BY DEF ElementsComplete, ToSet
  <2> QED
    BY <1>2, <1>3
<1> QED
  BY <1>2, <1>3, <1>4, <1>5

LEMMA EndListSync ==
  ASSUME TypeInv, SyncInv, EndList
  PROVE  SyncInv'
<1>1. /\ Reading /\ stage = "list" /\ left = 0 /\ object' = With(object, field, list)
      /\ stage' = "struct" /\ UNCHANGED <<struct, sent, writing, wire, reader>>
  BY DEF EndList, Outside
<1>2. reader = "reading" /\ writing # "open"
  BY <1>1 DEF Reading
<1>3. PICK n \in Nat, e \in Nat : AtList(n, e)
  BY <1>1, <1>2 DEF SyncInv
<1> DEFINE f == sent[n + 1]
           v == f.value
           l == Len(v.elements)
           rest == StructRest(sent, n + 1)
<1>4. /\ n < Len(sent) /\ WellTyped(struct, f) /\ f.ttype = "list" /\ field = f.fid
      /\ AfterFields(n) /\ TypedElements(v) /\ l \in Nat
      /\ e \in 0..l /\ left = l - e
      /\ rest \in Seq(Token) /\ Arrives(wire, writing, ListRest(v, e, rest))
      /\ AfterElements(v, e)
  BY <1>3, InList
<1>5. e = l
  <2> HIDE DEF l
  <2> QED
    BY <1>1, <1>4
<1>6. ListRest(v, e, rest) = rest
  <2> HIDE DEF v, rest
  <2> QED
    BY <1>4, <1>5, ListRestIs
<1>7. /\ list = [i \in DOMAIN v.elements |-> ElementMeaning(Fields[struct][field].of, v.elements[i])]
      /\ AsKnown(struct, f) /\ ElementsComplete(struct, f)
  <2>1. AfterElements(v, l)
    BY <1>4, <1>5
  <2>2. f.value = v
    OBVIOUS
  <2> HIDE DEF v, f
  <2> QED
    BY <1>4, <2>1, <2>2, WholeList
<1>8. object' = Meaning(struct, sent, n + 1)
  <2>1. /\ Meaning(struct, sent, n + 1)
             = With(Meaning(struct, sent, n), f.fid, ValueMeaning(struct, sent, n + 1, f.fid))
        /\ ValueMeaning(struct, sent, n + 1, f.fid)
             = [i \in DOMAIN v.elements |-> ElementMeaning(Fields[struct][f.fid].of, v.elements[i])]
    <3>1. /\ n \in Nat /\ WellTyped(struct, sent[n + 1]) /\ sent[n + 1].ttype = "list"
          /\ f = sent[n + 1] /\ v = sent[n + 1].value
      BY <1>4
    <3> HIDE DEF f, v
    <3>2. Meaning(struct, sent, n + 1)
            = With(Meaning(struct, sent, n), f.fid, ValueMeaning(struct, sent, n + 1, f.fid))
      BY <3>1, MeaningNext
    <3>3. ValueMeaning(struct, sent, n + 1, f.fid)
            = [i \in DOMAIN v.elements |-> ElementMeaning(Fields[struct][f.fid].of, v.elements[i])]
      <4>1. n \in Nat /\ WellTyped(struct, sent[n + 1]) /\ sent[n + 1].ttype = "list"
        BY <3>1
      <4> USE DEF f, v
      <4> QED
        BY ONLY <4>1, ListNext
    <3> QED
      BY <3>2, <3>3
  <2>2. object = Meaning(struct, sent, n)
    BY <1>4 DEF AfterFields
  <2> QED
    BY <1>1, <1>4, <1>7, <2>1, <2>2
<1>9. Arrives(wire', writing, StructRest(sent, n + 1))
  BY <1>1, <1>4, <1>6
<1> HIDE DEF v, l, rest
<1> QED
  BY <1>1, <1>2, <1>4, <1>7, <1>8, <1>9, AtNextField

-----------------------------------------------------------------------------
(***************************************************************************)
(* The ends of the loops.                                                  *)
(***************************************************************************)

LEMMA MeaningOf ==
  ASSUME NEW s, NEW fields, NEW n
  PROVE  /\ DOMAIN Meaning(s, fields, n) = Said(s, fields, n)
         /\ DOMAIN PartMeaning(s, fields, n) = Said(s, fields, n)
BY DEF Meaning, PartMeaning

LEMMA StructStopSync ==
  ASSUME TypeInv, SyncInv, ReadStop, stage = "struct"
  PROVE  SyncInv'
<1>1. /\ Reading /\ wire # << >> /\ Head(wire) = Stop
      /\ UNCHANGED <<struct, sent, writing>>
      /\ \/ Complete /\ reader' = "returned" /\ wire' = Tail(wire) /\ UNCHANGED object
         \/ ~ Complete /\ reader' = "invalid"
  BY DEF ReadStop, Throw
<1>2. reader = "reading" /\ writing # "open"
  BY <1>1 DEF Reading
<1>3. Tail(wire) = << >> /\ writing = "stopped" /\ AfterFields(Len(sent))
  <2>1. \A n : AtHeading(n) => FALSE
    BY <1>1, HeadingSame DEF AtHeading
  <2> QED
    BY <1>1, <2>1, InStruct
<1>4. object = Meaning(struct, sent, Len(sent)) /\ Understood(struct, sent, Len(sent))
  BY <1>3 DEF AfterFields
<1>5. Complete <=> Required(struct) \subseteq Said(struct, sent, Len(sent))
  BY <1>4, MeaningOf DEF Complete, Here, Held
<1>6. CASE Complete /\ reader' = "returned" /\ wire' = Tail(wire) /\ UNCHANGED object
  <2>1. DOMAIN sent = 1..Len(sent)
    BY SentTyped
  <2>2. \A i \in Lists(struct, sent) : AsKnown(struct, sent[i]) /\ ElementsComplete(struct, sent[i])
    BY <1>4, <2>1 DEF Understood, Lists
  <2>3. NothingMissing /\ ElementsAsKnown
    BY <1>5, <1>6, <2>2 DEF NothingMissing, ElementsAsKnown
  <2>4. NothingMissing' /\ ElementsAsKnown'
    BY <1>1, <2>3 DEF NothingMissing, ElementsAsKnown
  <2>5. Verdict'
    BY <1>6, <2>4 DEF Verdict
  <2>6. writing' = "stopped" /\ wire' = << >> /\ object' = Meaning(struct', sent', Len(sent'))
        /\ reader' = "returned" /\ writing' # "open"
    BY <1>1, <1>3, <1>4, <1>6
  <2> QED
    BY <2>5, <2>6 DEF SyncInv
<1>7. CASE ~ Complete /\ reader' = "invalid"
  <2>1. ~ NothingMissing
    BY <1>5, <1>7 DEF NothingMissing
  <2> QED
    BY <1>1, <1>2, <1>7, <2>1, SyncInvalid
<1> QED
  BY <1>1, <1>6, <1>7

LEMMA ElementStopSync ==
  ASSUME TypeInv, SyncInv, ReadStop, stage = "element"
  PROVE  SyncInv'
<1>1. /\ Reading /\ stage # "list" /\ wire # << >> /\ Head(wire) = Stop
      /\ UNCHANGED <<struct, sent, writing>>
      /\ \/ /\ Complete /\ list' = Append(list, part) /\ wire' = Tail(wire)
            /\ stage' = "list" /\ UNCHANGED <<object, reader, field, left>>
         \/ ~ Complete /\ reader' = "invalid"
  BY DEF ReadStop, Throw
<1>2. reader = "reading" /\ writing # "open" /\ wire \in Seq(Token)
  BY <1>1, SentTyped DEF Reading
<1>3. Here = "data_info" /\ Held = part
  BY <1>1, HereIs
<1>4. PICK n \in Nat, e \in Nat, j \in Nat : AtElement(n, e, j)
  BY <1>2 DEF SyncInv
<1> DEFINE f == sent[n + 1]
           v == f.value
           k == v.elements[e + 1]
           rest == StructRest(sent, n + 1)
           after == ListRest(v, e + 1, rest)
<1>5. Stop.kind = "stop" /\ \A g : Heading(g).kind = "field"
  BY HeadingSame
<1>6. v.of = "struct"
  BY <1>1, <1>4, <1>5, OtherElements
<1>7. /\ n < Len(sent) /\ e < Len(v.elements) /\ Len(v.elements) \in Nat
      /\ n + 1 \in Lists(struct, sent) /\ e + 1 \in DOMAIN v.elements
      /\ Fields[struct][field].of = "data_info" /\ field = f.fid
      /\ after \in Seq(Token) /\ k \in Seq(PartField) /\ j \in 0..Len(k)
      /\ Arrives(wire, writing, PartRest(k, j, after))
  BY <1>4, <1>6, InElement
<1>8. /\ InField(n, "list") /\ AfterElements(v, e) /\ left = Len(v.elements) - (e + 1)
      /\ part = PartMeaning("data_info", k, j)
  BY <1>4, <1>6 DEF AtElement
<1>9. j = Len(k) /\ Arrives(Tail(wire), writing, after)
  <2> HIDE DEF k, after
  <2>1. j # Len(k) => Head(wire) = Heading(k[j + 1])
    BY <1>1, <1>2, <1>7, PartHead
  <2>2. j = Len(k)
    BY <1>1, <1>5, <2>1
  <2> QED
    BY <1>1, <1>2, <1>7, <2>2, PartHead
<1>10. part = ElementMeaning("data_info", k) /\ DOMAIN part = Said("data_info", k, Len(k))
  BY <1>8, <1>9, MeaningOf DEF ElementMeaning
<1>11. Complete <=> Required("data_info") \subseteq Said("data_info", k, Len(k))
  BY <1>3, <1>10 DEF Complete
<1>12. CASE /\ Complete /\ list' = Append(list, part) /\ wire' = Tail(wire)
            /\ stage' = "list" /\ UNCHANGED <<object, reader, field, left>>
  <2>1. v.of = OnWire(Fields[struct][field].of)
    BY <1>6, <1>7, PartTables
  <2>2. Required("data_info") \subseteq Said("data_info", k, Len(k))
    BY <1>11, <1>12
  <2>3. /\ list' = Append(list, ElementMeaning(Fields[struct][field].of, k))
        /\ left' = Len(v.elements) - (e + 1) /\ Arrives(wire', writing, after)
        /\ reader' = "reading" /\ stage' = "list"
    BY <1>2, <1>7, <1>8, <1>9, <1>10, <1>12
  <2> QED
    BY <1>1, <1>7, <1>8, <1>12, <2>1, <2>2, <2>3, AtNextElement
<1>13. CASE ~ Complete /\ reader' = "invalid"
  <2>1. ~ (Required("data_info") \subseteq Said("data_info", k, Len(k))) /\ k \in ToSet(v.elements)
    BY <1>7, <1>11, <1>13 DEF ToSet
  <2>2. ~ ElementsComplete(struct, f)
    BY <1>6, <1>7, <2>1 DEF ElementsComplete
  <2>3. ~ NothingMissing
    BY <1>7, <2>2 DEF NothingMissing
  <2> QED
    BY <1>1, <1>2, <1>13, <2>3, SyncInvalid
<1> QED
  BY <1>1, <1>12, <1>13

LEMMA MemberStopSync ==
  ASSUME TypeInv, SyncInv, ReadStop, stage = "member"
  PROVE  SyncInv'
<1>1. Here = "CalcException" /\ Held = part
  BY HereIs
<1>2. Complete
  BY <1>1, PartTables DEF Complete
<1>3. /\ Reading /\ wire # << >> /\ Head(wire) = Stop
      /\ UNCHANGED <<struct, sent, writing, reader>>
      /\ object' = With(object, field, part) /\ wire' = Tail(wire) /\ stage' = "struct"
  BY <1>2 DEF ReadStop, Outside
<1>4. reader = "reading" /\ writing # "open" /\ wire \in Seq(Token)
  BY <1>3, SentTyped DEF Reading
<1>5. PICK n \in Nat, j \in Nat : AtMember(n, j)
  BY <1>4 DEF SyncInv
<1> DEFINE f == sent[n + 1]
           v == f.value
           rest == StructRest(sent, n + 1)
<1>6. /\ v \in Seq(PartField) /\ j \in 0..Len(v) /\ rest \in Seq(Token)
      /\ Fields[struct][field].of = "CalcException"
      /\ Arrives(wire, writing, PartRest(v, j, rest))
  BY <1>5, InMember
<1>7. /\ InField(n, "struct")
      /\ part = Over(AddedUp(struct, sent, n, field), PartMeaning("CalcException", v, j))
  BY <1>5 DEF AtMember
<1>8. /\ AfterFields(n) /\ n < Len(sent) /\ WellTyped(struct, f) /\ f.ttype = "struct"
      /\ field = f.fid
  BY <1>7 DEF InField
<1>9. j = Len(v) /\ Arrives(Tail(wire), writing, rest)
  <2> HIDE DEF v, rest
  <2>1. j # Len(v) => Head(wire) = Heading(v[j + 1])
    BY <1>3, <1>4, <1>6, PartHead
  <2>2. Stop.kind = "stop" /\ \A g : Heading(g).kind = "field"
    BY HeadingSame
  <2>3. j = Len(v)
    BY <1>3, <2>1, <2>2
  <2> QED
    BY <1>3, <1>4, <1>6, <2>3, PartHead
<1>10. object' = Meaning(struct, sent, n + 1)
  <2>1. /\ Meaning(struct, sent, n + 1)
             = With(Meaning(struct, sent, n), f.fid, ValueMeaning(struct, sent, n + 1, f.fid))
        /\ ValueMeaning(struct, sent, n + 1, f.fid)
             = Over(AddedUp(struct, sent, n, f.fid),
                    PartMeaning(Fields[struct][f.fid].of, v, Len(v)))
    BY <1>8, MeaningNext, StructNext
  <2>2. object = Meaning(struct, sent, n)
    BY <1>8 DEF AfterFields
  <2> QED
    BY <1>3, <1>6, <1>7, <1>8, <1>9, <2>1, <2>2
<1>11. Arrives(wire', writing, StructRest(sent, n + 1)) /\ reader' = "reading"
  BY <1>3, <1>4, <1>9
<1>12. ~(WellTyped(struct, sent[n + 1]) /\ sent[n + 1].ttype = "list")
  BY <1>8
<1> HIDE DEF f, v, rest
<1> QED
  BY <1>3, <1>4, <1>8, <1>10, <1>11, <1>12, AtNextField

LEMMA ReadStopSync ==
  ASSUME TypeInv, SyncInv, ReadStop
  PROVE  SyncInv'
<1>1. stage \in {"struct", "element", "member"}
  BY DEF ReadStop, TypeInv, StructsTypeOK
<1> QED
  BY <1>1, StructStopSync, ElementStopSync, MemberStopSync

-----------------------------------------------------------------------------
(***************************************************************************)
(* The invariant holds.                                                    *)
(***************************************************************************)

LEMMA SyncInit == StructsInit => SyncInv
<1> SUFFICES ASSUME StructsInit PROVE SyncInv
  OBVIOUS
<1>1. /\ sent = << >> /\ writing = "open" /\ wire = << >> /\ object = Empty
      /\ reader = "reading" /\ stage = "struct"
  BY DEF StructsInit
<1>2. Understood(struct, sent, 0)
  BY DEF Understood
<1>3. object = Meaning(struct, sent, 0) /\ 0 \in 0..Len(sent)
  BY <1>1, NothingSaid
<1>4. AfterFields(0)
  BY <1>2, <1>3 DEF AfterFields
<1>5. AtStruct(0)
  BY <1>1, <1>4, NoPieces DEF AtStruct
<1>6. Verdict
  BY <1>1 DEF Verdict
<1> QED
  BY <1>1, <1>5, <1>6 DEF SyncInv

LEMMA SyncSame ==
  ASSUME SyncInv, UNCHANGED structVars
  PROVE  SyncInv'
<1>1. UNCHANGED <<struct, original, sent, writing, wire, object, reader, stage, field, left, list, part>>
  BY DEF structVars, inside
<1>2. ASSUME NEW n, AfterFields(n) PROVE AfterFields(n)'
  BY <1>1, <1>2 DEF AfterFields
<1>3. ASSUME NEW n, AtStruct(n) PROVE AtStruct(n)'
  BY <1>1, <1>2, <1>3 DEF AtStruct
<1>4. ASSUME NEW n, NEW t, InField(n, t) PROVE InField(n, t)'
  BY <1>1, <1>2, <1>4 DEF InField
<1>5. ASSUME NEW n, NEW e, AfterElements(sent[n + 1].value, e)
      PROVE  AfterElements(sent[n + 1].value, e)'
  BY <1>1, <1>5 DEF AfterElements
<1>6. ASSUME NEW n, NEW e, AtList(n, e) PROVE AtList(n, e)'
  BY <1>1, <1>4, <1>5, <1>6 DEF AtList
<1>7. ASSUME NEW n, NEW e, NEW j, AtElement(n, e, j) PROVE AtElement(n, e, j)'
  BY <1>1, <1>4, <1>5, <1>7 DEF AtElement
<1>8. ASSUME NEW n, NEW j, AtMember(n, j) PROVE AtMember(n, j)'
  BY <1>1, <1>4, <1>8 DEF AtMember
<1>9. Verdict'
  <2>1. NothingMissing' = NothingMissing /\ ElementsAsKnown' = ElementsAsKnown
    BY <1>1 DEF NothingMissing, ElementsAsKnown
  <2> QED
    BY <1>1, <2>1 DEF SyncInv, Verdict
<1> QED
  BY <1>1, <1>3, <1>6, <1>7, <1>8, <1>9 DEF SyncInv

LEMMA SyncNext == TypeInv /\ SyncInv /\ TypeInv' /\ [StructsNext]_structVars => SyncInv'
<1> SUFFICES ASSUME TypeInv, SyncInv, TypeInv', [StructsNext]_structVars PROVE SyncInv'
  OBVIOUS
<1>1. CASE WriteStruct
  BY <1>1, WriteStructSync
<1>2. CASE PeerWrites
  BY <1>2, PeerWritesSync
<1>3. CASE PeerStops
  BY <1>3, PeerStopsSync
<1>4. CASE Lose
  BY <1>4, LoseSync
<1>5. CASE ReadScalarField
  BY <1>5, ReadScalarFieldSync
<1>6. CASE ReadListBegin
  BY <1>6, ReadListBeginSync
<1>7. CASE ReadStructBegin
  BY <1>7, ReadStructBeginSync
<1>8. CASE SkipField
  BY <1>8, SkipFieldSync
<1>9. CASE ReadElement
  BY <1>9, ReadElementSync
<1>10. CASE EndList
  BY <1>10, EndListSync
<1>11. CASE ReadStop
  BY <1>11, ReadStopSync
<1>12. CASE ReadNothing
  BY <1>12, ReadNothingSync
<1>13. CASE ReadNonsense
  BY <1>13, ReadNonsenseSync
<1>14. ASSUME NEW s \in Args \cup Results, NextStruct(s) PROVE SyncInv'
  BY <1>14, NextStructSync
<1>15. CASE UNCHANGED structVars
  BY <1>15, SyncSame
<1> QED
  BY <1>1, <1>2, <1>3, <1>4, <1>5, <1>6, <1>7, <1>8, <1>9, <1>10, <1>11, <1>12, <1>13,
     <1>14, <1>15 DEF StructsNext

LEMMA Synchronised == StructsSpec => [](TypeInv /\ SyncInv)
<1>1. StructsInit => TypeInv /\ SyncInv
  BY TypeInit, SyncInit
<1>2. (TypeInv /\ SyncInv) /\ [StructsNext]_structVars => (TypeInv /\ SyncInv)'
  BY TypeNext, SyncNext
<1> QED
  BY <1>1, <1>2, PTL DEF StructsSpec

\* A read that returns has understood the message, whatever fields the other end sent
\* in whatever order: of a known field the last one, of a repeated exception all that
\* was said of it, nothing of fields that are not known or have another type.
THEOREM ReadsCorrectly == StructsSpec => []ReadsWhatWasSent
<1>1. SyncInv => ReadsWhatWasSent
  BY DEF SyncInv, ReadsWhatWasSent
<1> QED
  BY <1>1, Synchronised, PTL

\* A read returns only with all the required fields, in the struct and in the elements
\* of its lists, and with lists of the elements it expects; it throws
\* TProtocolException only when a required field is missing.
THEOREM VerdictCorrect == StructsSpec => []Verdict
<1>1. SyncInv => Verdict
  BY DEF SyncInv
<1> QED
  BY <1>1, Synchronised, PTL

-----------------------------------------------------------------------------
(***************************************************************************)
(* What is left on the wire between two fields.                            *)
(***************************************************************************)

LEMMA TokensOfTheRest ==
  ASSUME NEW s \in Args \cup Results, NEW fields \in Seq(Sendable(s)), NEW n \in 0..Len(fields)
  PROVE  FieldTokens(SubSeq(fields, n + 1, Len(fields))) \o <<Stop>> = StructRest(fields, n)
<1> DEFINE L == Len(fields)
           last == SubSeq(fields, n + 1, L)
           p == FieldPieces(fields)
           a == FieldPieces(last)
           b == SubSeq(p, n + 1, L)
<1>1. L \in Nat /\ n \in Nat /\ n <= L /\ n + 1 \in Nat /\ 1 <= n + 1 /\ n + 1 <= L + 1
  OBVIOUS
<1>2. p \in Seq(Seq(Token)) /\ Len(p) = L
  BY FieldPiecesType
<1>3. /\ last \in Seq(Sendable(s)) /\ Len(last) = L - (n + 1) + 1
      /\ \A i \in 1..(L - (n + 1) + 1) : last[i] = fields[(n + 1) + i - 1]
  <2> HIDE DEF L
  <2>1. L <= Len(fields)
    BY <1>1 DEF L
  <2> QED
    BY <1>1, <2>1, PieceOf
<1>4. /\ b \in Seq(Seq(Token)) /\ Len(b) = L - (n + 1) + 1
      /\ \A i \in 1..(L - (n + 1) + 1) : b[i] = p[(n + 1) + i - 1]
  <2> HIDE DEF L, p
  <2>1. L <= Len(p)
    BY <1>1, <1>2
  <2> QED
    BY <1>1, <1>2, <2>1, PieceOf
<1>5. a \in Seq(Seq(Token)) /\ Len(a) = Len(last) /\ FieldTokens(last) = FlattenSeq(a)
  <2> HIDE DEF last
  <2> QED
    BY <1>3, FieldPiecesType
<1>6. ASSUME NEW i \in 1..(L - (n + 1) + 1) PROVE a[i] = b[i]
  <2>1. i \in DOMAIN last /\ (n + 1) + i - 1 \in DOMAIN fields
    <3> HIDE DEF L, last
    <3>1. i \in DOMAIN last
      BY <1>1, <1>3
    <3>2. (n + 1) + i - 1 \in 1..L
      BY <1>1
    <3>3. DOMAIN fields = 1..L
      BY DEF L
    <3> QED
      BY <3>1, <3>2, <3>3
  <2>2. a[i] = <<Heading(last[i])>> \o Tokens(last[i].ttype, last[i].value)
    <3> HIDE DEF last
    <3> QED
      BY <2>1 DEF FieldPieces
  <2> DEFINE g == fields[(n + 1) + i - 1]
  <2>3. p[(n + 1) + i - 1] = <<Heading(g)>> \o Tokens(g.ttype, g.value)
    BY <2>1 DEF FieldPieces
  <2>4. last[i] = g
    BY <1>3
  <2> HIDE DEF g, last, p, a, b, L
  <2> QED
    BY <1>4, <2>2, <2>3, <2>4 DEF g
<1>7. a = b
  <2>1. Len(a) = L - (n + 1) + 1 /\ Len(b) = L - (n + 1) + 1
    BY <1>3, <1>4, <1>5
  <2> HIDE DEF a, b, L
  <2> QED
    BY <1>4, <1>5, <1>6, <2>1, SeqEqual
<1>8. FieldTokens(last) = From(p, n)
  BY <1>2, <1>5, <1>7 DEF From
<1> QED
  BY <1>8 DEF StructRest

LEMMA ArrivedIs ==
  ASSUME NEW w \in Seq(Token), NEW how, NEW tokens \in Seq(Token), Arrives(w, how, tokens)
  PROVE  /\ how # "lost" => w = tokens
         /\ how = "lost" => Len(w) < Len(tokens) /\ IsPrefix(w, tokens)
<1>1. Len(w) \in Nat /\ Len(tokens) \in Nat
  OBVIOUS
<1>2. ASSUME how # "lost" PROVE w = tokens
  BY <1>2, SeqEqual DEF Arrives
<1>3. ASSUME how = "lost" PROVE Len(w) < Len(tokens) /\ IsPrefix(w, tokens)
  <2> DEFINE l == Len(w)
             a == SubSeq(w, 1, l)
             b == SubSeq(tokens, 1, l)
  <2>1. l < Len(tokens) /\ l \in Nat /\ \A i \in 1..l : w[i] = tokens[i]
    BY <1>3 DEF Arrives
  <2>2. 1 \in Nat /\ 1 <= 1 /\ 1 <= l + 1 /\ l - 1 + 1 = l /\ \A i \in 1..l : 1 + i - 1 = i
    BY <2>1
  <2>3. a \in Seq(Token) /\ Len(a) = l - 1 + 1 /\ \A i \in 1..(l - 1 + 1) : a[i] = w[1 + i - 1]
    <3>1. l <= Len(w)
      BY <1>1
    <3> HIDE DEF l
    <3> QED
      BY <2>1, <2>2, <3>1, PieceOf
  <2>4. b \in Seq(Token) /\ Len(b) = l - 1 + 1 /\ \A i \in 1..(l - 1 + 1) : b[i] = tokens[1 + i - 1]
    <3>1. l <= Len(tokens)
      BY <1>1, <2>1
    <3> HIDE DEF l
    <3> QED
      BY <2>1, <2>2, <3>1, PieceOf
  <2>5. a = b
    <3> HIDE DEF a, b, l
    <3>1. Len(a) = l /\ Len(b) = l /\ \A i \in 1..l : a[i] = b[i]
      BY <2>1, <2>2, <2>3, <2>4
    <3> QED
      BY <2>3, <2>4, <3>1, SeqEqual
  <2>6. l <= Len(tokens)
    BY <1>1, <2>1
  <2> QED
    BY <2>1, <2>5, <2>6 DEF IsPrefix
<1> QED
  BY <1>2, <1>3

LEMMA SyncIsInSync ==
  ASSUME TypeInv, SyncInv
  PROVE  InSync
<1>1. /\ struct \in Args \cup Results /\ sent \in Seq(Sendable(struct)) /\ wire \in Seq(Token)
      /\ writing \in {"open", "stopped", "lost"}
  BY DEF TypeInv, StructsTypeOK, SentInv
<1>2. ASSUME reader = "reading", stage = "struct"
      PROVE  \E n \in 0..Len(sent) : Comes(FieldTokens(SubSeq(sent, n + 1, Len(sent))) \o <<Stop>>)
  <2>1. PICK n \in Nat : AtStruct(n)
    BY <1>2 DEF SyncInv
  <2>2. /\ n \in 0..Len(sent)
        /\ writing = "open" => n = 0 /\ wire = From(FieldPieces(sent), 0)
        /\ writing # "open" => Arrives(wire, writing, StructRest(sent, n))
    BY <2>1 DEF AtStruct, AfterFields
  <2> DEFINE tokens == StructRest(sent, n)
  <2>3. FieldTokens(SubSeq(sent, n + 1, Len(sent))) \o <<Stop>> = tokens /\ tokens \in Seq(Token)
    BY <1>1, <2>2, TokensOfTheRest, StructRestIs
  <2>4. ASSUME writing = "open" PROVE Append(wire, Stop) = tokens
    <3>1. tokens = wire \o <<Stop>>
      BY <2>2, <2>4 DEF StructRest
    <3> HIDE DEF tokens
    <3> QED
      BY <1>1, <3>1, StopType, AppendIsConcat
  <2> HIDE DEF tokens
  <2>5. /\ writing = "stopped" => wire = tokens
        /\ writing = "lost" => Len(wire) < Len(tokens) /\ IsPrefix(wire, tokens)
    BY <1>1, <2>2, <2>3, ArrivedIs DEF tokens
  <2>6. Comes(tokens)
    <3>1. CASE writing = "open"
      BY <2>4, <3>1 DEF Comes
    <3>2. CASE writing = "stopped"
      BY <2>5, <3>2 DEF Comes
    <3>3. CASE writing = "lost"
      BY <2>5, <3>3 DEF Comes
    <3> QED
      BY <1>1, <3>1, <3>2, <3>3
  <2> QED
    BY <2>2, <2>3, <2>6
<1>3. reader = "returned" => writing # "lost" /\ wire = << >>
  BY DEF SyncInv
<1> QED
  BY <1>2, <1>3 DEF InSync

\* Between two fields the reader is always at the beginning of a field, whatever it has
\* read or skipped, and after the struct nothing of the message is left.
THEOREM StaysInSync == StructsSpec => []InSync
BY SyncIsInSync, Synchronised, PTL

-----------------------------------------------------------------------------
(***************************************************************************)
(* What this program writes means what it wrote.                           *)
(***************************************************************************)

\* Known fields, with each of these numbers one.
Numbered(s, fields, ids, fids) ==
  /\ Orders(ids, fids) /\ Len(ids) \in Nat
  /\ \A i \in 1..Len(ids) : fields[i].fid = ids[i] /\ WellTyped(s, fields[i])

\* Each is the last one of its number.
LEMMA OnlyPlace ==
  ASSUME NEW s, NEW fids, NEW ids, NEW fields, Numbered(s, fields, ids, fids),
         NEW i \in 1..Len(ids)
  PROVE  /\ ids[i] \in fids /\ Places(s, fields, Len(ids), ids[i]) = {i}
         /\ LastOne(s, fields, Len(ids), ids[i]) = fields[i].value
<1> DEFINE n == Len(ids)
<1>1. /\ n \in Nat /\ i \in 1..n /\ ids[i] \in fids
      /\ \A j \in 1..n : ids[i] = ids[j] => i = j
      /\ \A j \in 1..n : fields[j].fid = ids[j] /\ WellTyped(s, fields[j])
  BY DEF Orders, Numbered
<1> HIDE DEF n
<1>2. Places(s, fields, n, ids[i]) = {i}
  BY <1>1 DEF Places
<1>3. i \in Int /\ {i} \in SUBSET Int /\ i \in {i} /\ \A m \in {i} : m <= i
  BY <1>1
<1>4. Max({i}) = i
  BY <1>3, GreatestIs
<1> QED
  BY <1>1, <1>2, <1>4 DEF LastOne, n

LEMMA AllSaid ==
  ASSUME NEW s, NEW fids \in SUBSET DOMAIN Fields[s], NEW ids, NEW fields,
         Numbered(s, fields, ids, fids)
  PROVE  Said(s, fields, Len(ids)) = fids
<1> DEFINE n == Len(ids)
<1>1. /\ n \in Nat
      /\ \A i \in 1..n : ids[i] \in fids
      /\ \A fid \in fids : \E i \in 1..n : ids[i] = fid
      /\ \A i \in 1..n : fields[i].fid = ids[i] /\ WellTyped(s, fields[i])
  <2>1. /\ Orders(ids, fids) /\ n \in Nat
        /\ \A i \in 1..n : fields[i].fid = ids[i] /\ WellTyped(s, fields[i])
    BY DEF Numbered
  <2>2. ids \in Seq(fids) /\ \A fid \in fids : \E i \in 1..n : ids[i] = fid
    BY <2>1 DEF Orders
  <2>3. \A i \in 1..n : ids[i] \in fids
    BY <2>2
  <2> QED
    BY <2>1, <2>2, <2>3
<1> HIDE DEF n
<1>2. ASSUME NEW fid \in fids PROVE fid \in Said(s, fields, n)
  <2>1. PICK i \in 1..n : ids[i] = fid
    BY <1>1
  <2>2. i \in Places(s, fields, n, fid)
    BY <1>1, <2>1 DEF Places
  <2> QED
    BY <2>2 DEF Said
<1>3. ASSUME NEW fid \in Said(s, fields, n) PROVE fid \in fids
  <2>1. Places(s, fields, n, fid) # {}
    BY DEF Said
  <2>2. PICK i \in 1..n : fields[i].fid = fid
    BY <2>1 DEF Places
  <2> QED
    BY <1>1, <2>2
<1> QED
  BY <1>2, <1>3 DEF n

LEMMA PartReadBack ==
  ASSUME NEW s \in Parts, NEW fids \in SUBSET DOMAIN Fields[s], NEW v \in [fids -> Int]
  PROVE  LET e == PartFields(s, v) IN
         Said(s, e, Len(e)) = fids /\ PartMeaning(s, e, Len(e)) = v
<1> DEFINE e == PartFields(s, v)
           ids == InOrder(fids)
<1>1. /\ Orders(ids, fids) /\ Len(e) = Len(ids) /\ Len(ids) \in Nat
      /\ \A i \in 1..Len(ids) :
           /\ e[i].fid = ids[i] /\ WellTyped(s, e[i]) /\ e[i].ttype \in Scalars
           /\ e[i].value = <<ValueToken(e[i].ttype, v[ids[i]])>> /\ v[ids[i]] \in Int
  BY PartFieldsIs
<1> HIDE DEF e, ids
<1>2. Numbered(s, e, ids, fids)
  BY <1>1 DEF Numbered
<1>3. Said(s, e, Len(ids)) = fids
  BY <1>2, AllSaid
<1>4. ASSUME NEW fid \in fids PROVE LastOne(s, e, Len(ids), fid)[1].number = v[fid]
  <2>1. PICK i \in 1..Len(ids) : ids[i] = fid
    BY <1>1 DEF Orders
  <2>2. LastOne(s, e, Len(ids), ids[i]) = e[i].value
    BY <1>2, OnlyPlace
  <2> DEFINE t == e[i].ttype
  <2>3. t \in Scalars /\ v[fid] \in Int /\ e[i].value = <<ValueToken(t, v[fid])>>
    BY <1>1, <2>1
  <2> HIDE DEF t
  <2>4. <<ValueToken(t, v[fid])>>[1].number = v[fid]
    BY <2>3, ValueTokenType
  <2> QED
    BY <2>1, <2>2, <2>3, <2>4
<1>5. PartMeaning(s, e, Len(ids)) = [fid \in fids |-> v[fid]]
  BY <1>3, <1>4 DEF PartMeaning
<1>6. v = [fid \in fids |-> v[fid]]
  OBVIOUS
<1> QED
  BY <1>1, <1>3, <1>5, <1>6 DEF e

\* A value that is written once is read as what it was.
LEMMA ValueReadBack ==
  ASSUME NEW s \in Args \cup Results, NEW fields, NEW n \in Nat, NEW fid \in DOMAIN Fields[s],
         NEW i \in 1..n, Places(s, fields, n, fid) = {i}, NEW x, HasType(x, Fields[s][fid]),
         fields[i].value = WireValue(Fields[s][fid], x)
  PROVE  ValueMeaning(s, fields, n, fid) = x
<1> DEFINE type == Fields[s][fid]
           w == WireValue(type, x)
<1>1. TableOK(s, Fields[s])
  BY TablesOK DEF Structs
<1>2. /\ type.ttype \in TTypes
      /\ type.ttype = "list" => type.of \in {"double", "data_info"}
      /\ type.ttype = "struct" => type.of = "CalcException"
  BY <1>1 DEF TableOK
<1>3. \A m : {m} \in SUBSET Int => Max({m}) = m
  <2> SUFFICES ASSUME NEW m, {m} \in SUBSET Int PROVE Max({m}) = m
    OBVIOUS
  <2>1. m \in Int /\ m \in {m} /\ \A o \in {m} : o <= m
    OBVIOUS
  <2> QED
    BY <2>1, GreatestIs
<1>4. Max({i}) = i
  BY <1>3
<1>5. LastOne(s, fields, n, fid) = w
  BY <1>4 DEF LastOne
<1>6. CASE type.ttype = "struct"
  <2>1. PICK fids \in SUBSET DOMAIN Fields["CalcException"] : x \in [fids -> Int]
    BY <1>2, <1>6 DEF HasType
  <2>2. w = PartFields("CalcException", x)
    BY <1>2, <1>6 DEF WireValue
  <2>3. Said("CalcException", w, Len(w)) = fids /\ PartMeaning("CalcException", w, Len(w)) = x
    BY <2>1, <2>2, PartReadBack DEF Parts
  <2>4. \A m : Naming(s, fields, n, fid, m) = IF m \in fids THEN {i} ELSE {}
    BY <1>2, <1>6, <2>3 DEF Naming
  <2>5. AddedUp(s, fields, n, fid) = [m \in fids |-> x[m]]
    <3>1. {m \in DOMAIN Fields["CalcException"] : Naming(s, fields, n, fid, m) # {}} = fids
      BY <2>4
    <3>2. \A m \in fids : fields[Max(Naming(s, fields, n, fid, m))].value = w
      BY <1>4, <2>4
    <3> QED
      BY <1>2, <1>6, <2>3, <3>1, <3>2 DEF AddedUp
  <2>6. x = [m \in fids |-> x[m]]
    BY <2>1
  <2> QED
    BY <1>6, <2>5, <2>6 DEF ValueMeaning
<1>7. CASE type.ttype = "list"
  <2>1. /\ GoodList(w) /\ Len(w.elements) = Len(x) /\ Len(x) \in Nat
        /\ x = [j \in 1..Len(x) |-> x[j]]
        /\ type.of = "double" =>
             \A j \in 1..Len(x) : x[j] \in Int /\ w.elements[j] = <<ValueToken("double", x[j])>>
        /\ type.of = "data_info" =>
             \A j \in 1..Len(x) : /\ x[j] \in [1..4 -> Int]
                                  /\ w.elements[j] = PartFields("data_info", x[j])
    BY <1>2, <1>7, ListIsWritten
  <2>2. ASSUME NEW j \in 1..Len(x) PROVE ElementMeaning(type.of, w.elements[j]) = x[j]
    <3>1. CASE type.of = "double"
      <4>1. w.elements[j] = <<ValueToken("double", x[j])>> /\ x[j] \in Int
        BY <2>1, <3>1
      <4>2. w.elements[j][1].number = x[j]
        BY <4>1, ValueTokenType DEF Scalars
      <4> QED
        BY <3>1, <4>2 DEF ElementMeaning
    <3>2. CASE type.of = "data_info"
      <4>1. w.elements[j] = PartFields("data_info", x[j]) /\ x[j] \in [1..4 -> Int]
        BY <2>1, <3>2
      <4>2. 1..4 \in SUBSET DOMAIN Fields["data_info"] /\ "data_info" \in Parts
        BY PartTables DEF Parts
      <4> DEFINE y == x[j]
      <4> HIDE DEF y
      <4>3. LET e == PartFields("data_info", y) IN PartMeaning("data_info", e, Len(e)) = y
        BY <4>1, <4>2, PartReadBack DEF y
      <4> QED
        BY <3>2, <4>1, <4>3 DEF ElementMeaning, y
    <3> QED
      BY <1>2, <1>7, <3>1, <3>2
  <2>3. DOMAIN w.elements = 1..Len(x)
    <3>1. \E S : w.elements \in Seq(S)
      BY <2>1 DEF GoodList, TypedElements
    <3> QED
      BY <2>1, <3>1
  <2>4. ValueMeaning(s, fields, n, fid)
          = [j \in DOMAIN w.elements |-> ElementMeaning(type.of, w.elements[j])]
    BY <1>5, <1>7 DEF ValueMeaning
  <2> QED
    BY <2>1, <2>2, <2>3, <2>4
<1>8. CASE type.ttype \in Scalars
  <2>1. type.ttype # "struct" /\ type.ttype # "list"
    BY <1>8 DEF Scalars
  <2>2. w = <<ValueToken(type.ttype, x)>> /\ x \in Int
    BY <2>1 DEF WireValue, HasType
  <2>3. w[1].number = x
    BY <1>8, <2>2, ValueTokenType
  <2> QED
    BY <1>5, <2>1, <2>3 DEF ValueMeaning
<1> QED
  BY <1>2, <1>6, <1>7, <1>8 DEF TTypes

LEMMA ArgsTables ==
  /\ \A s \in Args : 0 \notin DOMAIN Fields[s] /\ Required(s) = DOMAIN Fields[s]
  /\ \A s \in Results : Required(s) = {} /\ s \notin Args
<1>1. \A s \in Results : Required(s) = {} /\ s \notin Args
  BY DEF Results, Args, Required
<1>2. \A s \in Args : Required(s) = DOMAIN Fields[s]
  BY DEF Required
<1>3. \A a, b, c : 0 \notin DOMAIN <<a>> /\ 0 \notin DOMAIN <<a, b, c>>
  OBVIOUS
<1>4. ASSUME NEW s \in Args PROVE 0 \notin DOMAIN Fields[s]
  <2>1. \/ Fields[s] = getLogistic_args \/ Fields[s] = getWeibull_args
        \/ Fields[s] = trainModel_args \/ Fields[s] = predict_args
    BY <1>4 DEF Args, Fields
  <2> QED
    BY <1>3, <2>1 DEF getLogistic_args, getWeibull_args, trainModel_args, predict_args
<1> QED
  BY <1>1, <1>2, <1>4

\* A list this program writes is of the elements that are expected, and they are
\* complete.
LEMMA OwnListComplete ==
  ASSUME NEW s \in Args \cup Results, NEW fid \in DOMAIN Fields[s],
         Fields[s][fid].ttype = "list", NEW x, HasType(x, Fields[s][fid]),
         NEW f, f.fid = fid, f.value = WireValue(Fields[s][fid], x)
  PROVE  AsKnown(s, f) /\ ElementsComplete(s, f)
<1> DEFINE type == Fields[s][fid]
           w == WireValue(type, x)
<1>1. type.of \in {"double", "data_info"}
  BY TablesOK DEF TableOK, Structs
<1>2. /\ w.of = OnWire(type.of) /\ GoodList(w) /\ Len(w.elements) = Len(x) /\ Len(x) \in Nat
      /\ type.of = "data_info" =>
           \A i \in 1..Len(x) : /\ x[i] \in [1..4 -> Int]
                                /\ w.elements[i] = PartFields("data_info", x[i])
  BY <1>1, ListIsWritten
<1>3. AsKnown(s, f)
  BY <1>2 DEF AsKnown
<1>4. DOMAIN w.elements = 1..Len(x)
  <2>1. \E S : w.elements \in Seq(S)
    BY <1>2 DEF GoodList, TypedElements
  <2> QED
    BY <1>2, <2>1
<1>5. ASSUME type.of = "data_info", NEW i \in DOMAIN w.elements
      PROVE  Required("data_info") \subseteq Said("data_info", w.elements[i], Len(w.elements[i]))
  <2> DEFINE y == x[i]
  <2>1. y \in [1..4 -> Int] /\ w.elements[i] = PartFields("data_info", y)
    BY <1>2, <1>4, <1>5
  <2>2. 1..4 \in SUBSET DOMAIN Fields["data_info"] /\ "data_info" \in Parts
        /\ Required("data_info") = 1..4
    BY PartTables DEF Parts
  <2> HIDE DEF y
  <2>3. LET e == PartFields("data_info", y) IN Said("data_info", e, Len(e)) = 1..4
    BY <2>1, <2>2, PartReadBack
  <2> QED
    BY <2>1, <2>2, <2>3
<1>6. ElementsComplete(s, f)
  BY <1>5 DEF ElementsComplete, ToSet
<1> QED
  BY <1>3, <1>6

\* What it writes means what it wrote, and can be read.
LEMMA OwnMessage ==
  ASSUME NEW s \in Args \cup Results, NEW o \in Originals(s)
  PROVE  LET fields == WireFields(s, o)
             n == Len(fields)
         IN /\ Meaning(s, fields, n) = IF 0 \in DOMAIN o THEN With(Empty, 0, o[0]) ELSE o
            /\ Required(s) \subseteq Said(s, fields, n)
            /\ \A i \in Lists(s, fields) : AsKnown(s, fields[i]) /\ ElementsComplete(s, fields[i])
<1> DEFINE fields == WireFields(s, o)
           fids == WrittenFields(s, o)
           ids == InOrder(fids)
           n == Len(ids)
<1>1. /\ Orders(ids, fids) /\ n \in Nat
      /\ fields \in Seq(Sendable(s)) /\ Len(fields) = n
      /\ \A i \in 1..n : ids[i] \in fids /\ fields[i] = WireField(s, o, ids[i])
  BY WireFieldsIs
<1>2. /\ fids \subseteq DOMAIN o /\ DOMAIN o \subseteq DOMAIN Fields[s]
      /\ \A fid \in DOMAIN o : HasType(o[fid], Fields[s][fid])
  BY WrittenFieldsKnown
<1>3. /\ o = [fid \in DOMAIN o |-> o[fid]]
      /\ s \in Args => DOMAIN o = DOMAIN Fields[s]
  BY OriginalsAssumption DEF IsObject
<1>4. 0 \in DOMAIN o => s \in Results /\ fids = {0}
  <2>1. 0 \in DOMAIN o => s \notin Args
    BY <1>2, ArgsTables
  <2> QED
    BY <2>1 DEF WrittenFields
<1>5. 0 \notin DOMAIN o => fids = DOMAIN o
  BY DEF WrittenFields
<1> HIDE DEF fields, fids, ids
<1>6. ASSUME NEW i \in 1..n
      PROVE  LET fid == ids[i] IN
             /\ fid \in fids /\ fid \in DOMAIN Fields[s] /\ fields[i].fid = fid
             /\ WellTyped(s, fields[i]) /\ fields[i].ttype = Fields[s][fid].ttype
             /\ fields[i].value = WireValue(Fields[s][fid], o[fid])
             /\ HasType(o[fid], Fields[s][fid])
  <2> DEFINE fid == ids[i]
  <2>1. fid \in fids /\ fid \in DOMAIN Fields[s] /\ fields[i] = WireField(s, o, fid)
        /\ HasType(o[fid], Fields[s][fid])
    BY <1>1, <1>2
  <2> HIDE DEF fid
  <2>2. LET f == WireField(s, o, fid) IN
        /\ f.fid = fid /\ f.ttype = Fields[s][fid].ttype
        /\ f.value = WireValue(Fields[s][fid], o[fid]) /\ WellTyped(s, f)
    BY <2>1, WireFieldIs
  <2> QED
    BY <2>1, <2>2 DEF fid
<1>7. Numbered(s, fields, ids, fids)
  BY <1>1, <1>6 DEF Numbered
<1>8. Said(s, fields, n) = fids
  BY <1>2, <1>7, AllSaid
<1>9. ASSUME NEW fid \in fids PROVE ValueMeaning(s, fields, n, fid) = o[fid]
  <2>1. PICK i \in 1..n : ids[i] = fid
    BY <1>1 DEF Orders
  <2>2. /\ fid \in DOMAIN Fields[s] /\ HasType(o[fid], Fields[s][fid])
        /\ fields[i].value = WireValue(Fields[s][fid], o[fid])
    BY <1>6, <2>1
  <2>3. Places(s, fields, n, fid) = {i}
    BY <1>7, <2>1, OnlyPlace, SMTT(30)
  <2> DEFINE x == o[fid]
  <2> HIDE DEF n, x
  <2>4. n \in Nat /\ i \in 1..n
    BY <1>1, <2>1 DEF n
  <2>5. ValueMeaning(s, fields, n, fid) = x
    BY <2>2, <2>3, <2>4, ValueReadBack DEF x
  <2> QED
    BY <2>5 DEF x
<1>10. Meaning(s, fields, n) = [fid \in fids |-> o[fid]]
  BY <1>8, <1>9 DEF Meaning
<1>11. Meaning(s, fields, n) = IF 0 \in DOMAIN o THEN With(Empty, 0, o[0]) ELSE o
  <2>1. CASE 0 \in DOMAIN o
    <3>1. fids = {0}
      BY <1>4, <2>1
    <3>2. Meaning(s, fields, n) = [fid \in {0} |-> o[0]]
      BY <1>10, <3>1
    <3>3. With(Empty, 0, o[0]) = [fid \in {0} |-> o[0]]
      BY EmptyTyped DEF With
    <3> QED
      BY <2>1, <3>2, <3>3
  <2>2. CASE 0 \notin DOMAIN o
    BY <1>3, <1>5, <1>10, <2>2
  <2> QED
    BY <2>1, <2>2
<1>12. Required(s) \subseteq Said(s, fields, n)
  <2>1. CASE s \in Args
    BY <1>2, <1>3, <1>5, <1>8, <2>1, ArgsTables
  <2>2. CASE s \in Results
    BY <2>2, ArgsTables
  <2> QED
    BY <2>1, <2>2
<1>13. ASSUME NEW i \in Lists(s, fields)
       PROVE  AsKnown(s, fields[i]) /\ ElementsComplete(s, fields[i])
  <2>1. i \in 1..n /\ fields[i].ttype = "list"
    BY <1>1 DEF Lists
  <2> DEFINE fid == ids[i]
             f == fields[i]
             x == o[fid]
  <2>2. /\ fid \in DOMAIN Fields[s] /\ Fields[s][fid].ttype = "list" /\ HasType(x, Fields[s][fid])
        /\ f.fid = fid /\ f.value = WireValue(Fields[s][fid], x)
    BY <1>6, <2>1
  <2> HIDE DEF fid, f, x
  <2>3. AsKnown(s, f) /\ ElementsComplete(s, f)
    BY <2>2, OwnListComplete
  <2> QED
    BY <2>3 DEF f
<1> QED
  BY <1>1, <1>11, <1>12, <1>13 DEF fields

LEMMA SyncIsRoundTrip ==
  ASSUME TypeInv, SyncInv
  PROVE  RoundTrip
<1> SUFFICES ASSUME original # Empty, reader # "reading", writing # "lost"
             PROVE  /\ reader = "returned"
                    /\ object = IF 0 \in DOMAIN original THEN With(Empty, 0, original[0]) ELSE original
  BY DEF RoundTrip
<1>1. /\ struct \in Args \cup Results /\ original \in Originals(struct)
      /\ sent = WireFields(struct, original)
      /\ reader \in {"returned", "broken", "invalid", "garbled"}
  BY DEF TypeInv, StructsTypeOK, SentInv
<1>2. /\ Meaning(struct, sent, Len(sent))
           = IF 0 \in DOMAIN original THEN With(Empty, 0, original[0]) ELSE original
      /\ Required(struct) \subseteq Said(struct, sent, Len(sent))
      /\ \A i \in Lists(struct, sent) : AsKnown(struct, sent[i]) /\ ElementsComplete(struct, sent[i])
  BY <1>1, OwnMessage
<1>3. NothingMissing /\ ElementsAsKnown
  BY <1>2 DEF NothingMissing, ElementsAsKnown
<1>4. reader # "invalid" /\ reader # "garbled" /\ reader # "broken"
  BY <1>3 DEF SyncInv, Verdict
<1>5. reader = "returned"
  BY <1>1, <1>4
<1>6. object = Meaning(struct, sent, Len(sent))
  BY <1>5 DEF SyncInv
<1> QED
  BY <1>2, <1>5, <1>6

\* What one program writes another one generated from the same interface reads: the
\* arguments, an exception and an answer as they were set, and of a result that has an
\* answer only the answer; the read of it never throws unless the connection ends.
THEOREM RoundTripCorrect == StructsSpec => []RoundTrip
BY SyncIsRoundTrip, Synchronised, PTL
=================================================================================
