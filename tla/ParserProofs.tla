---------------------------- MODULE ParserProofs ----------------------------
(* Proofs about the parser, for every vocabulary and programs of any length: *)
(* a value has the type of its symbol, and the tree is the program.          *)
EXTENDS Parser, LeastNumbers, SequenceTheorems

-----------------------------------------------------------------------------
(* Rows: sequences, whatever they are of.                                    *)

IsRow(s) == s \in Seq(Range(s))

LEMMA RowIf ==
  ASSUME NEW S, NEW s \in Seq(S)
  PROVE  IsRow(s)
BY SeqOfRange DEF IsRow

LEMMA RowLength ==
  ASSUME NEW s, IsRow(s)
  PROVE  Len(s) \in Nat /\ DOMAIN s = 1 .. Len(s)
BY LenProperties DEF IsRow

LEMMA EmptyIsRow == IsRow(<<>>) /\ Len(<<>>) = 0
BY EmptySeq DEF IsRow

LEMMA OneIsRow ==
  ASSUME NEW x
  PROVE  IsRow(<<x>>) /\ Len(<<x>>) = 1 /\ <<x>>[1] = x
<1>1. <<x>> \in Seq({x})
  OBVIOUS
<1> QED
  BY <1>1, RowIf

LEMMA LongerIn ==
  ASSUME NEW a, IsRow(a), NEW S, Range(a) \subseteq S
  PROVE  a \in Seq(S)
BY SeqMonotonic DEF IsRow

LEMMA ConcatOfRows ==
  ASSUME NEW a, NEW b, IsRow(a), IsRow(b)
  PROVE  /\ IsRow(a \o b)
         /\ Len(a \o b) = Len(a) + Len(b)
         /\ \A i \in 1 .. Len(a) : (a \o b)[i] = a[i]
         /\ \A i \in 1 .. Len(b) : (a \o b)[Len(a) + i] = b[i]
<1> DEFINE S == Range(a) \cup Range(b)
<1>1. a \in Seq(S) /\ b \in Seq(S)
  BY LongerIn
<1>2. Len(a) \in Nat /\ Len(b) \in Nat
  BY RowLength
<1> HIDE DEF S
<1>3. /\ a \o b \in Seq(S) /\ Len(a \o b) = Len(a) + Len(b)
      /\ \A i \in 1 .. Len(a) + Len(b) : (a \o b)[i] = IF i <= Len(a) THEN a[i] ELSE b[i - Len(a)]
  BY <1>1, ConcatProperties
<1>4. ASSUME NEW i \in 1 .. Len(a) PROVE (a \o b)[i] = a[i]
  <2>1. i \in 1 .. Len(a) + Len(b) /\ i <= Len(a)
    BY <1>2
  <2> QED
    BY <1>3, <2>1
<1>5. ASSUME NEW i \in 1 .. Len(b) PROVE (a \o b)[Len(a) + i] = b[i]
  <2>1. Len(a) + i \in 1 .. Len(a) + Len(b) /\ ~(Len(a) + i <= Len(a)) /\ (Len(a) + i) - Len(a) = i
    BY <1>2
  <2> QED
    BY <1>3, <2>1
<1> QED
  BY <1>3, <1>4, <1>5, RowIf

Joined(a, b) ==
  /\ IsRow(a \o b) /\ Len(a \o b) = Len(a) + Len(b)
  /\ \A i \in 1 .. Len(a) : (a \o b)[i] = a[i]
  /\ \A i \in 1 .. Len(b) : (a \o b)[Len(a) + i] = b[i]

LEMMA RowsJoin ==
  ASSUME NEW a, NEW b, IsRow(a), IsRow(b)
  PROVE  Joined(a, b)
BY ConcatOfRows DEF Joined

LEMMA RowsEqual ==
  ASSUME NEW a, NEW b, IsRow(a), IsRow(b), Len(a) = Len(b), \A i \in 1 .. Len(a) : a[i] = b[i]
  PROVE  a = b
<1> DEFINE S == Range(a) \cup Range(b)
<1>1. a \in Seq(S) /\ b \in Seq(S)
  BY LongerIn
<1> HIDE DEF S
<1> QED
  BY <1>1, SeqEqual

LEMMA Associative ==
  ASSUME NEW a, NEW b, NEW c, IsRow(a), IsRow(b), IsRow(c)
  PROVE  (a \o b) \o c = a \o (b \o c)
<1> DEFINE S == Range(a) \cup Range(b) \cup Range(c)
<1>1. a \in Seq(S) /\ b \in Seq(S) /\ c \in Seq(S)
  BY LongerIn
<1> HIDE DEF S
<1> QED
  BY <1>1, ConcatAssociative

LEMMA NothingAround ==
  ASSUME NEW a, IsRow(a)
  PROVE  a \o <<>> = a /\ <<>> \o a = a
BY ConcatEmptySeq DEF IsRow

LEMMA AppendToRow ==
  ASSUME NEW a, IsRow(a), NEW x
  PROVE  /\ Append(a, x) = a \o <<x>>
         /\ IsRow(Append(a, x)) /\ Len(Append(a, x)) = Len(a) + 1
         /\ \A i \in 1 .. Len(a) : Append(a, x)[i] = a[i]
         /\ Append(a, x)[Len(a) + 1] = x
<1> DEFINE S == Range(a) \cup {x}
<1>1. a \in Seq(S) /\ x \in S
  BY LongerIn
<1> HIDE DEF S
<1> QED
  BY <1>1, AppendIsConcat, AppendProperties, RowIf

LEMMA OneLonger ==
  ASSUME NEW p, NEW t, NEW z, IsRow(p), IsRow(t), Len(t) = Len(p) + 1, t[Len(p) + 1] = z,
         \A i \in 1 .. Len(p) : t[i] = p[i]
  PROVE  t = p \o <<z>>
<1>1. /\ Append(p, z) = p \o <<z>> /\ IsRow(Append(p, z)) /\ Len(Append(p, z)) = Len(p) + 1
      /\ \A i \in 1 .. Len(p) : Append(p, z)[i] = p[i]
      /\ Append(p, z)[Len(p) + 1] = z
  BY AppendToRow
<1>2. Len(p) \in Nat
  BY RowLength
<1>3. ASSUME NEW i \in 1 .. Len(t) PROVE t[i] = Append(p, z)[i]
  <2>1. i \in 1 .. Len(p) \/ i = Len(p) + 1
    BY <1>2
  <2> QED
    BY <1>1, <2>1
<1> QED
  BY <1>1, <1>3, RowsEqual

LEMMA Pair ==
  ASSUME NEW x, NEW y
  PROVE  <<x, y>> = <<x>> \o <<y>> /\ IsRow(<<x, y>>) /\ Len(<<x, y>>) = 2
<1> DEFINE p == <<x>>
           t == <<x, y>>
<1>1. p = <<x>>
  BY OneIsRow
<1>2. IsRow(p) /\ Len(p) = 1
  BY OneIsRow
<1>3. t \in Seq({x, y}) /\ Len(t) = 2
  OBVIOUS
<1>4. IsRow(t)
  <2> HIDE DEF t
  <2> QED
    BY <1>3, RowIf
<1>5. t[1] = x /\ t[2] = y /\ p[1] = x
  OBVIOUS
<1>6. t = p \o <<y>>
  <2> HIDE DEF p, t
  <2>1. Len(t) = Len(p) + 1 /\ t[Len(p) + 1] = y /\ \A i \in 1 .. Len(p) : t[i] = p[i]
    BY <1>2, <1>3, <1>5
  <2> QED
    BY <1>2, <1>4, <2>1, OneLonger
<1> QED
  BY <1>1, <1>3, <1>4, <1>6

\* The members of a tuple, one by one.
TwoApart(x, y)        == <<x, y>> = <<x>> \o <<y>>
ThreeApart(x, y, z)   == <<x, y, z>> = (<<x>> \o <<y>>) \o <<z>>
FourApart(w, x, y, z) == <<w, x, y, z>> = ((<<w>> \o <<x>>) \o <<y>>) \o <<z>>

LEMMA PairApart == \A x, y : TwoApart(x, y)
BY Pair DEF TwoApart

LEMMA Triple ==
  ASSUME NEW x, NEW y, NEW z
  PROVE  ThreeApart(x, y, z) /\ IsRow(<<x, y, z>>) /\ Len(<<x, y, z>>) = 3
<1> DEFINE p == <<x, y>>
           t == <<x, y, z>>
<1>1. p = <<x>> \o <<y>>
  BY Pair
<1>2. IsRow(p) /\ Len(p) = 2
  BY Pair
<1>3. t \in Seq({x, y, z}) /\ Len(t) = 3
  OBVIOUS
<1>4. IsRow(t)
  <2> HIDE DEF t
  <2> QED
    BY <1>3, RowIf
<1>5. t[1] = x /\ t[2] = y /\ t[3] = z /\ p[1] = x /\ p[2] = y
  OBVIOUS
<1>6. t = p \o <<z>>
  <2> HIDE DEF p, t
  <2>1. Len(t) = Len(p) + 1 /\ t[Len(p) + 1] = z /\ \A i \in 1 .. Len(p) : t[i] = p[i]
    BY <1>2, <1>3, <1>5
  <2> QED
    BY <1>2, <1>4, <2>1, OneLonger
<1>7. ThreeApart(x, y, z)
  BY <1>1, <1>6 DEF ThreeApart
<1> QED
  BY <1>3, <1>4, <1>7

LEMMA Quadruple ==
  ASSUME NEW w, NEW x, NEW y, NEW z
  PROVE  FourApart(w, x, y, z) /\ IsRow(<<w, x, y, z>>) /\ Len(<<w, x, y, z>>) = 4
<1> DEFINE p == <<w, x, y>>
           t == <<w, x, y, z>>
<1>0. ThreeApart(w, x, y)
  BY Triple
<1>1. p = (<<w>> \o <<x>>) \o <<y>>
  BY <1>0 DEF ThreeApart
<1>2. IsRow(p) /\ Len(p) = 3
  BY Triple
<1>3. t \in Seq({w, x, y, z}) /\ Len(t) = 4
  OBVIOUS
<1>4. IsRow(t)
  <2> HIDE DEF t
  <2> QED
    BY <1>3, RowIf
<1>5. t[1] = w /\ t[2] = x /\ t[3] = y /\ t[4] = z /\ p[1] = w /\ p[2] = x /\ p[3] = y
  OBVIOUS
<1>6. t = p \o <<z>>
  <2> HIDE DEF p, t
  <2>1. Len(t) = Len(p) + 1 /\ t[Len(p) + 1] = z /\ \A i \in 1 .. Len(p) : t[i] = p[i]
    BY <1>2, <1>3, <1>5
  <2> QED
    BY <1>2, <1>4, <2>1, OneLonger
<1>7. FourApart(w, x, y, z)
  BY <1>1, <1>6 DEF FourApart
<1> QED
  BY <1>3, <1>4, <1>7

LEMMA FirstIs ==
  ASSUME NEW o, NEW l, IsRow(o), Len(o) = 1, IsRow(l)
  PROVE  /\ IsRow(o \o l) /\ Len(o \o l) = Len(l) + 1 /\ (o \o l)[1] = o[1]
         /\ \A i \in 1 .. Len(l) : (o \o l)[i + 1] = l[i]
<1>1. /\ IsRow(o \o l) /\ Len(o \o l) = Len(o) + Len(l)
      /\ \A i \in 1 .. Len(o) : (o \o l)[i] = o[i]
      /\ \A i \in 1 .. Len(l) : (o \o l)[Len(o) + i] = l[i]
  <2>1. Joined(o, l)
    BY RowsJoin
  <2> QED
    BY <2>1 DEF Joined
<1>2. Len(l) \in Nat
  BY RowLength
<1> DEFINE c == o \o l
<1> HIDE DEF c
<1>3. \A i \in 1 .. Len(l) : c[i + 1] = l[i]
  <2>1. \A i \in 1 .. Len(l) : c[1 + i] = l[i]
    BY <1>1 DEF c
  <2>2. \A i \in 1 .. Len(l) : 1 + i = i + 1
    BY <1>2
  <2> QED
    BY <2>1, <2>2
<1> QED
  BY <1>1, <1>2, <1>3 DEF c

LEMMA OneBefore ==
  ASSUME NEW e, NEW l, IsRow(l)
  PROVE  /\ IsRow(<<e>> \o l) /\ Len(<<e>> \o l) = Len(l) + 1 /\ (<<e>> \o l)[1] = e
         /\ \A i \in 1 .. Len(l) : (<<e>> \o l)[i + 1] = l[i]
<1> DEFINE o == <<e>>
<1>1. IsRow(o) /\ Len(o) = 1 /\ o[1] = e
  BY OneIsRow
<1> HIDE DEF o
<1>2. /\ IsRow(o \o l) /\ Len(o \o l) = Len(l) + 1 /\ (o \o l)[1] = e
      /\ \A i \in 1 .. Len(l) : (o \o l)[i + 1] = l[i]
  BY <1>1, FirstIs
<1> QED
  BY <1>2 DEF o

\* A row that is not empty ends in an item.
LEMMA RowEnds ==
  ASSUME NEW s, IsRow(s), s # <<>>
  PROVE  \E r, x : IsRow(r) /\ s = Append(r, x) /\ Len(s) = Len(r) + 1
<1>1. PICK r \in Seq(Range(s)), x \in Range(s) : s = Append(r, x)
  BY SequenceEmptyOrAppend DEF IsRow
<1>2. IsRow(r)
  BY RowIf
<1> QED
  BY <1>1, <1>2, AppendToRow

LEMMA OnlyEmpty ==
  ASSUME NEW s, IsRow(s), Len(s) = 0
  PROVE  s = <<>>
BY EmptySeq DEF IsRow

-----------------------------------------------------------------------------
(* Rows of rows, and the row they make.                                      *)

AllRows(ss) == IsRow(ss) /\ \A i \in 1 .. Len(ss) : IsRow(ss[i])

Flattens(f, ss, n) == f = [i \in 1 .. n |-> IF i = 1 THEN ss[i] ELSE f[i - 1] \o ss[i]]

LEMMA FlattensIs ==
  ASSUME NEW f, NEW ss, NEW n \in Nat, Flattens(f, ss, n)
  PROVE  \A i \in 1 .. n : f[i] = IF i = 1 THEN ss[1] ELSE f[i - 1] \o ss[i]
BY DEF Flattens

LEMMA FlattensExists ==
  ASSUME NEW ss, NEW n \in Nat
  PROVE  \E f : Flattens(f, ss, n)
<1> DEFINE T == {m \in Nat : ~\E f : Flattens(f, ss, m)}
<1>1. SUFFICES ASSUME T # {} PROVE FALSE
  OBVIOUS
<1>2. PICK m \in T : \A k \in T : m <= k
  <2>1. T \subseteq Nat
    OBVIOUS
  <2> HIDE DEF T
  <2> QED
    BY <1>1, <2>1, LeastNumber
<1>3. m \in Nat /\ ~\E f : Flattens(f, ss, m)
  OBVIOUS
<1>4. CASE m = 0
  <2> DEFINE f == [i \in 1 .. 0 |-> ss[i]]
  <2>1. Flattens(f, ss, 0)
    BY DEF Flattens
  <2> QED
    BY <1>3, <1>4, <2>1
<1>5. CASE m # 0
  <2>1. m - 1 \in Nat /\ ~(m <= m - 1)
    BY <1>3, <1>5
  <2>2. m - 1 \notin T
    <3> HIDE DEF T
    <3> QED
      BY <1>2, <2>1
  <2>3. PICK f : Flattens(f, ss, m - 1)
    BY <2>1, <2>2
  <2> DEFINE g == [i \in 1 .. m |-> IF i = 1 THEN ss[i] ELSE f[i - 1] \o ss[i]]
  <2>4. ASSUME NEW i \in 1 .. m PROVE g[i] = IF i = 1 THEN ss[i] ELSE g[i - 1] \o ss[i]
    <3>1. CASE i = 1
      BY <3>1
    <3>2. CASE i # 1
      <4>1. i - 1 \in 1 .. m - 1 /\ i - 1 \in 1 .. m
        BY <1>3, <3>2
      <4>2. f[i - 1] = IF i - 1 = 1 THEN ss[i - 1] ELSE f[(i - 1) - 1] \o ss[i - 1]
        BY <2>1, <2>3, <4>1, FlattensIs
      <4>3. g[i - 1] = f[i - 1]
        BY <4>1, <4>2
      <4> QED
        BY <3>2, <4>3
    <3> QED
      BY <3>1, <3>2
  <2>5. g = [i \in 1 .. m |-> g[i]]
    OBVIOUS
  <2> HIDE DEF g
  <2>6. g = [i \in 1 .. m |-> IF i = 1 THEN ss[i] ELSE g[i - 1] \o ss[i]]
    BY <2>4, <2>5
  <2> QED
    BY <1>3, <2>6 DEF Flattens
<1> QED
  BY <1>4, <1>5

LEMMA FlattensAgree ==
  ASSUME NEW f, NEW g, NEW ss, NEW tt, NEW n \in Nat, NEW m \in Nat, n <= m,
         \A i \in 1 .. n : ss[i] = tt[i], Flattens(f, ss, n), Flattens(g, tt, m)
  PROVE  \A i \in 1 .. n : f[i] = g[i]
<1> DEFINE T == {i \in 1 .. n : f[i] # g[i]}
<1>1. SUFFICES ASSUME T # {} PROVE FALSE
  OBVIOUS
<1>2. PICK i \in T : \A k \in T : i <= k
  <2>1. T \subseteq Nat
    OBVIOUS
  <2> HIDE DEF T
  <2> QED
    BY <1>1, <2>1, LeastNumber
<1>3. i \in 1 .. n /\ i \in 1 .. m /\ f[i] # g[i]
  OBVIOUS
<1>4. /\ f[i] = IF i = 1 THEN ss[1] ELSE f[i - 1] \o ss[i]
      /\ g[i] = IF i = 1 THEN tt[1] ELSE g[i - 1] \o tt[i]
  BY <1>3, FlattensIs
<1>5. i # 1
  BY <1>3, <1>4
<1>6. i - 1 \in 1 .. n /\ ~(i <= i - 1)
  BY <1>3, <1>5
<1>7. i - 1 \notin T
  <2> HIDE DEF T
  <2> QED
    BY <1>2, <1>6
<1>8. f[i - 1] = g[i - 1]
  BY <1>6, <1>7
<1> QED
  BY <1>3, <1>4, <1>5, <1>8

LEMMA FlattenIs ==
  ASSUME NEW ss, IsRow(ss), Len(ss) # 0
  PROVE  \E f : Flattens(f, ss, Len(ss)) /\ FlattenSeq(ss) = f[Len(ss)]
<1>1. \E f : Flattens(f, ss, Len(ss))
  BY FlattensExists, RowLength
<1> DEFINE c == CHOOSE f : Flattens(f, ss, Len(ss))
<1>2. Flattens(c, ss, Len(ss))
  BY <1>1
<1>3. FlattenSeq(ss) = c[Len(ss)]
  BY Zenon DEF FlattenSeq, Flattens
<1> QED
  BY <1>2, <1>3

LEMMA FlattenOfNone == FlattenSeq(<<>>) = <<>>
BY EmptyIsRow DEF FlattenSeq

LEMMA FlattenOfMore ==
  ASSUME NEW ss, AllRows(ss), NEW x, IsRow(x)
  PROVE  FlattenSeq(Append(ss, x)) = FlattenSeq(ss) \o x
<1> DEFINE tt == Append(ss, x)
<1>1. /\ IsRow(ss) /\ IsRow(tt) /\ Len(tt) = Len(ss) + 1 /\ Len(ss) \in Nat
      /\ \A i \in 1 .. Len(ss) : tt[i] = ss[i]
      /\ tt[Len(ss) + 1] = x
  BY AppendToRow, RowLength DEF AllRows
<1> HIDE DEF tt
<1>2. PICK g : Flattens(g, tt, Len(tt)) /\ FlattenSeq(tt) = g[Len(tt)]
  BY <1>1, FlattenIs
<1>3. g[Len(tt)] = IF Len(tt) = 1 THEN tt[1] ELSE g[Len(tt) - 1] \o tt[Len(tt)]
  <2>1. Len(tt) \in 1 .. Len(tt) /\ Len(tt) \in Nat
    BY <1>1
  <2> QED
    BY <1>2, <2>1, FlattensIs
<1>4. CASE Len(ss) = 0
  <2>1. ss = <<>>
    BY <1>1, <1>4, OnlyEmpty
  <2>2. FlattenSeq(tt) = x
    BY <1>1, <1>2, <1>3, <1>4
  <2> QED
    BY <2>1, <2>2, FlattenOfNone, NothingAround DEF tt
<1>5. CASE Len(ss) # 0
  <2>1. PICK f : Flattens(f, ss, Len(ss)) /\ FlattenSeq(ss) = f[Len(ss)]
    BY <1>1, <1>5, FlattenIs
  <2>2. Len(ss) <= Len(tt) /\ Len(ss) \in 1 .. Len(ss) /\ Len(tt) # 1 /\ Len(tt) - 1 = Len(ss)
          /\ Len(tt) \in Nat
    BY <1>1, <1>5
  <2>3. f[Len(ss)] = g[Len(ss)]
    BY <1>1, <1>2, <2>1, <2>2, FlattensAgree
  <2> QED
    BY <1>1, <1>2, <1>3, <2>1, <2>2, <2>3 DEF tt
<1> QED
  BY <1>4, <1>5

LEMMA AllRowsEnds ==
  ASSUME NEW ss, AllRows(ss), ss # <<>>
  PROVE  \E r, x : AllRows(r) /\ IsRow(x) /\ ss = Append(r, x) /\ Len(ss) = Len(r) + 1
<1>1. PICK r, x : IsRow(r) /\ ss = Append(r, x) /\ Len(ss) = Len(r) + 1
  BY RowEnds DEF AllRows
<1>2. Len(r) \in Nat /\ ss[Len(r) + 1] = x /\ \A i \in 1 .. Len(r) : ss[i] = r[i]
  BY <1>1, AppendToRow, RowLength
<1>3. Len(r) + 1 \in 1 .. Len(ss) /\ \A i \in 1 .. Len(r) : i \in 1 .. Len(ss)
  BY <1>1, <1>2
<1> QED
  BY <1>1, <1>2, <1>3 DEF AllRows

LEMMA FlattenIsRow ==
  ASSUME NEW ss, AllRows(ss)
  PROVE  IsRow(FlattenSeq(ss))
<1> DEFINE T == {n \in Nat : \E tt : AllRows(tt) /\ Len(tt) = n /\ ~IsRow(FlattenSeq(tt))}
<1>1. SUFFICES ASSUME T # {} PROVE FALSE
  <2>1. Len(ss) \in Nat
    BY RowLength DEF AllRows
  <2> QED
    BY <1>1, <2>1
<1>2. PICK n \in T : \A k \in T : n <= k
  <2>1. T \subseteq Nat
    OBVIOUS
  <2> HIDE DEF T
  <2> QED
    BY <1>1, <2>1, LeastNumber
<1>3. PICK tt : AllRows(tt) /\ Len(tt) = n /\ ~IsRow(FlattenSeq(tt))
  OBVIOUS
<1>4. tt # <<>>
  BY <1>3, FlattenOfNone, EmptyIsRow
<1>5. PICK r, x : AllRows(r) /\ IsRow(x) /\ tt = Append(r, x) /\ Len(tt) = Len(r) + 1
  BY <1>3, <1>4, AllRowsEnds
<1>6. Len(r) \in Nat /\ ~(n <= Len(r))
  BY <1>3, <1>5, RowLength DEF AllRows
<1>7. Len(r) \notin T
  <2> HIDE DEF T
  <2> QED
    BY <1>2, <1>6
<1>8. IsRow(FlattenSeq(r))
  BY <1>5, <1>6, <1>7
<1> QED
  BY <1>3, <1>5, <1>8, FlattenOfMore, ConcatOfRows

LEMMA AllRowsTogether ==
  ASSUME NEW aa, NEW bb, IsRow(aa), IsRow(bb)
  PROVE  AllRows(aa \o bb) <=> AllRows(aa) /\ AllRows(bb)
<1>1. /\ IsRow(aa \o bb) /\ Len(aa \o bb) = Len(aa) + Len(bb)
      /\ \A i \in 1 .. Len(aa) : (aa \o bb)[i] = aa[i]
      /\ \A i \in 1 .. Len(bb) : (aa \o bb)[Len(aa) + i] = bb[i]
      /\ Len(aa) \in Nat /\ Len(bb) \in Nat
  BY ConcatOfRows, RowLength
<1> DEFINE cc == aa \o bb
<1>2. ASSUME AllRows(cc) PROVE AllRows(aa) /\ AllRows(bb)
  <2>1. ASSUME NEW i \in 1 .. Len(aa) PROVE IsRow(aa[i])
    <3>1. i \in 1 .. Len(cc)
      BY <1>1
    <3> QED
      BY <1>1, <1>2, <3>1 DEF AllRows
  <2>2. ASSUME NEW i \in 1 .. Len(bb) PROVE IsRow(bb[i])
    <3>1. Len(aa) + i \in 1 .. Len(cc)
      BY <1>1
    <3>2. IsRow(cc[Len(aa) + i])
      BY <1>2, <3>1 DEF AllRows
    <3> QED
      BY <1>1, <3>2
  <2> QED
    BY <2>1, <2>2 DEF AllRows
<1>3. ASSUME AllRows(aa), AllRows(bb) PROVE AllRows(cc)
  <2>1. ASSUME NEW i \in 1 .. Len(cc) PROVE IsRow(cc[i])
    <3>1. CASE i <= Len(aa)
      <4>1. i \in 1 .. Len(aa)
        BY <1>1, <3>1
      <4> QED
        BY <1>1, <1>3, <4>1 DEF AllRows
    <3>2. CASE ~(i <= Len(aa))
      <4>1. i - Len(aa) \in 1 .. Len(bb) /\ Len(aa) + (i - Len(aa)) = i
        BY <1>1, <3>2
      <4>2. cc[Len(aa) + (i - Len(aa))] = bb[i - Len(aa)]
        BY <1>1, <4>1
      <4> QED
        BY <1>3, <4>1, <4>2 DEF AllRows
    <3> QED
      BY <3>1, <3>2
  <2> QED
    BY <1>1, <2>1 DEF AllRows
<1> QED
  BY <1>2, <1>3

LEMMA FlattenTogether ==
  ASSUME NEW aa, NEW bb, AllRows(aa), AllRows(bb)
  PROVE  FlattenSeq(aa \o bb) = FlattenSeq(aa) \o FlattenSeq(bb)
<1> DEFINE T == {n \in Nat : \E tt : AllRows(tt) /\ Len(tt) = n
                                       /\ FlattenSeq(aa \o tt) # FlattenSeq(aa) \o FlattenSeq(tt)}
<1>1. SUFFICES ASSUME T # {} PROVE FALSE
  <2>1. Len(bb) \in Nat
    BY RowLength DEF AllRows
  <2> QED
    BY <1>1, <2>1
<1>2. PICK n \in T : \A k \in T : n <= k
  <2>1. T \subseteq Nat
    OBVIOUS
  <2> HIDE DEF T
  <2> QED
    BY <1>1, <2>1, LeastNumber
<1>3. PICK tt : AllRows(tt) /\ Len(tt) = n /\ FlattenSeq(aa \o tt) # FlattenSeq(aa) \o FlattenSeq(tt)
  OBVIOUS
<1>4. IsRow(aa) /\ IsRow(FlattenSeq(aa))
  BY FlattenIsRow DEF AllRows
<1>5. tt # <<>>
  BY <1>3, <1>4, FlattenOfNone, NothingAround
<1>6. PICK r, x : AllRows(r) /\ IsRow(x) /\ tt = Append(r, x) /\ Len(tt) = Len(r) + 1
  BY <1>3, <1>5, AllRowsEnds
<1>7. Len(r) \in Nat /\ ~(n <= Len(r)) /\ IsRow(r)
  BY <1>3, <1>6, RowLength DEF AllRows
<1>8. Len(r) \notin T
  <2> HIDE DEF T
  <2> QED
    BY <1>2, <1>7
<1>9. FlattenSeq(aa \o r) = FlattenSeq(aa) \o FlattenSeq(r)
  BY <1>6, <1>7, <1>8
<1>10. AllRows(aa \o r) /\ IsRow(aa \o r) /\ IsRow(FlattenSeq(r))
  BY <1>4, <1>6, <1>7, AllRowsTogether, ConcatOfRows, FlattenIsRow
<1>11. aa \o tt = Append(aa \o r, x)
  <2>1. tt = r \o <<x>> /\ Append(aa \o r, x) = (aa \o r) \o <<x>> /\ IsRow(<<x>>)
    BY <1>6, <1>7, <1>10, AppendToRow, OneIsRow
  <2>2. (aa \o r) \o <<x>> = aa \o (r \o <<x>>)
    <3> HIDE DEF T
    <3> QED
      BY <1>4, <1>7, <2>1, Associative
  <2> QED
    BY <2>1, <2>2
<1>12. FlattenSeq(aa \o tt) = (FlattenSeq(aa) \o FlattenSeq(r)) \o x
  BY <1>6, <1>9, <1>10, <1>11, FlattenOfMore
<1>13. FlattenSeq(tt) = FlattenSeq(r) \o x
  BY <1>6, FlattenOfMore
<1>14. (FlattenSeq(aa) \o FlattenSeq(r)) \o x = FlattenSeq(aa) \o (FlattenSeq(r) \o x)
  <2> HIDE DEF T
  <2> QED
    BY <1>4, <1>6, <1>10, Associative
<1> QED
  BY <1>3, <1>12, <1>13, <1>14

LEMMA FlattenOfOne ==
  ASSUME NEW x, IsRow(x)
  PROVE  FlattenSeq(<<x>>) = x /\ AllRows(<<x>>)
<1>1. AllRows(<<>>) /\ Append(<<>>, x) = <<x>>
  BY EmptyIsRow DEF AllRows
<1>2. FlattenSeq(<<x>>) = <<>> \o x
  BY <1>1, FlattenOfMore, FlattenOfNone
<1>3. AllRows(<<x>>)
  BY OneIsRow DEF AllRows
<1> QED
  BY <1>2, <1>3, NothingAround

-----------------------------------------------------------------------------
(* A row with each tree replaced by its parts.                               *)

PartsOf(r)    == [i \in DOMAIN r |-> Parts(r[i])]
Expandable(r) == IsRow(r) /\ \A i \in 1 .. Len(r) : IsRow(Parts(r[i]))

LEMMA ExpandIs ==
  ASSUME NEW r
  PROVE  Expand(r) = FlattenSeq(PartsOf(r))
BY DEF Expand, PartsOf

LEMMA PartsOfRow ==
  ASSUME NEW r, IsRow(r)
  PROVE  /\ IsRow(PartsOf(r)) /\ Len(PartsOf(r)) = Len(r)
         /\ \A i \in 1 .. Len(r) : PartsOf(r)[i] = Parts(r[i])
<1>1. Len(r) \in Nat /\ DOMAIN r = 1 .. Len(r)
  BY RowLength
<1> DEFINE S == {Parts(r[i]) : i \in 1 .. Len(r)}
<1>2. PartsOf(r) \in [1 .. Len(r) -> S] /\ \A i \in 1 .. Len(r) : PartsOf(r)[i] = Parts(r[i])
  BY <1>1 DEF PartsOf
<1> HIDE DEF S
<1>3. PartsOf(r) \in Seq(S) /\ DOMAIN PartsOf(r) = 1 .. Len(r)
  BY <1>1, <1>2
<1>4. Len(PartsOf(r)) = Len(r)
  BY <1>1, <1>3, LenProperties
<1> QED
  BY <1>2, <1>3, <1>4, RowIf

LEMMA PartsTogether ==
  ASSUME NEW a, NEW b, IsRow(a), IsRow(b)
  PROVE  PartsOf(a \o b) = PartsOf(a) \o PartsOf(b)
<1> DEFINE l == PartsOf(a \o b)
           r == PartsOf(a) \o PartsOf(b)
<1>1. /\ IsRow(a \o b) /\ Len(a \o b) = Len(a) + Len(b)
      /\ \A i \in 1 .. Len(a) : (a \o b)[i] = a[i]
      /\ \A i \in 1 .. Len(b) : (a \o b)[Len(a) + i] = b[i]
      /\ Len(a) \in Nat /\ Len(b) \in Nat
  BY ConcatOfRows, RowLength
<1>2. /\ IsRow(PartsOf(a)) /\ Len(PartsOf(a)) = Len(a) /\ IsRow(PartsOf(b)) /\ Len(PartsOf(b)) = Len(b)
      /\ \A i \in 1 .. Len(a) : PartsOf(a)[i] = Parts(a[i])
      /\ \A i \in 1 .. Len(b) : PartsOf(b)[i] = Parts(b[i])
  BY PartsOfRow
<1>3. /\ IsRow(l) /\ Len(l) = Len(a) + Len(b)
      /\ \A i \in 1 .. Len(a) + Len(b) : l[i] = Parts((a \o b)[i])
  BY <1>1, PartsOfRow
<1>4. /\ IsRow(r) /\ Len(r) = Len(a) + Len(b)
      /\ \A i \in 1 .. Len(a) : r[i] = PartsOf(a)[i]
      /\ \A i \in 1 .. Len(b) : r[Len(a) + i] = PartsOf(b)[i]
  BY <1>2, ConcatOfRows
<1> HIDE DEF l, r
<1>5. ASSUME NEW i \in 1 .. Len(a) + Len(b) PROVE l[i] = r[i]
  <2>1. CASE i <= Len(a)
    <3>1. i \in 1 .. Len(a)
      BY <1>1, <2>1
    <3>2. r[i] = Parts(a[i]) /\ (a \o b)[i] = a[i] /\ l[i] = Parts((a \o b)[i])
      BY <1>1, <1>2, <1>3, <1>4, <3>1
    <3> QED
      BY <3>2
  <2>2. CASE ~(i <= Len(a))
    <3> DEFINE j == i - Len(a)
    <3>1. j \in 1 .. Len(b) /\ Len(a) + j = i
      BY <1>1, <2>2
    <3> HIDE DEF j
    <3>2. r[Len(a) + j] = Parts(b[j]) /\ (a \o b)[Len(a) + j] = b[j]
      BY <1>1, <1>2, <1>4, <3>1
    <3>3. l[i] = Parts((a \o b)[i])
      BY <1>3
    <3> QED
      BY <3>1, <3>2, <3>3
  <2> QED
    BY <2>1, <2>2
<1>6. l = r
  BY <1>3, <1>4, <1>5, RowsEqual
<1> QED
  BY <1>6 DEF l, r

LEMMA ExpandableParts ==
  ASSUME NEW r, IsRow(r)
  PROVE  Expandable(r) <=> AllRows(PartsOf(r))
<1>1. /\ IsRow(PartsOf(r)) /\ Len(PartsOf(r)) = Len(r)
      /\ \A i \in 1 .. Len(r) : PartsOf(r)[i] = Parts(r[i])
  BY PartsOfRow
<1> QED
  BY <1>1 DEF Expandable, AllRows

LEMMA ExpandableTogether ==
  ASSUME NEW a, NEW b, IsRow(a), IsRow(b)
  PROVE  Expandable(a \o b) <=> Expandable(a) /\ Expandable(b)
<1>1. IsRow(a \o b) /\ IsRow(PartsOf(a)) /\ IsRow(PartsOf(b))
  BY ConcatOfRows, PartsOfRow
<1>2. PartsOf(a \o b) = PartsOf(a) \o PartsOf(b)
  BY PartsTogether
<1>3. AllRows(PartsOf(a) \o PartsOf(b)) <=> AllRows(PartsOf(a)) /\ AllRows(PartsOf(b))
  BY <1>1, AllRowsTogether
<1>4. Expandable(a \o b) <=> AllRows(PartsOf(a \o b))
  BY <1>1, ExpandableParts
<1>5. (Expandable(a) <=> AllRows(PartsOf(a))) /\ (Expandable(b) <=> AllRows(PartsOf(b)))
  BY ExpandableParts
<1> QED
  BY <1>2, <1>3, <1>4, <1>5

LEMMA ExpandTogether ==
  ASSUME NEW a, NEW b, Expandable(a), Expandable(b)
  PROVE  Expand(a \o b) = Expand(a) \o Expand(b)
<1>1. IsRow(a) /\ IsRow(b)
  BY DEF Expandable
<1>2. AllRows(PartsOf(a)) /\ AllRows(PartsOf(b)) /\ PartsOf(a \o b) = PartsOf(a) \o PartsOf(b)
  BY <1>1, ExpandableParts, PartsTogether
<1>3. FlattenSeq(PartsOf(a) \o PartsOf(b)) = FlattenSeq(PartsOf(a)) \o FlattenSeq(PartsOf(b))
  BY <1>2, FlattenTogether
<1> QED
  BY <1>2, <1>3, ExpandIs

LEMMA ExpandIsRow ==
  ASSUME NEW r, Expandable(r)
  PROVE  IsRow(Expand(r))
BY ExpandableParts, FlattenIsRow, ExpandIs DEF Expandable

LEMMA ExpandOfOne ==
  ASSUME NEW x, IsRow(Parts(x))
  PROVE  Expandable(<<x>>) /\ Expand(<<x>>) = Parts(x)
<1>1. IsRow(<<x>>) /\ Len(<<x>>) = 1 /\ <<x>>[1] = x
  BY OneIsRow
<1>2. PartsOf(<<x>>) = <<Parts(x)>>
  <2>1. DOMAIN <<x>> = {1} /\ DOMAIN <<Parts(x)>> = {1}
    OBVIOUS
  <2> QED
    BY <1>1, <2>1 DEF PartsOf
<1>3. Expandable(<<x>>)
  BY <1>1 DEF Expandable
<1> QED
  BY <1>2, <1>3, ExpandIs, FlattenOfOne

-----------------------------------------------------------------------------
(* The text of a row.                                                        *)

Rewrites(f, row, n) == f = [k \in 0 .. n |-> IF k = 0 THEN row ELSE Expand(f[k - 1])]

LEMMA RewritesIs ==
  ASSUME NEW f, NEW row, NEW n \in Nat, Rewrites(f, row, n)
  PROVE  f[0] = row /\ \A k \in 1 .. n : f[k] = Expand(f[k - 1])
<1>1. \A k \in 0 .. n : f[k] = IF k = 0 THEN row ELSE Expand(f[k - 1])
  BY DEF Rewrites
<1>2. 0 \in 0 .. n
  OBVIOUS
<1>3. f[0] = row
  BY <1>1, <1>2
<1>4. ASSUME NEW k \in 1 .. n PROVE f[k] = Expand(f[k - 1])
  <2>1. k \in 0 .. n /\ k # 0
    OBVIOUS
  <2> QED
    BY <1>1, <2>1
<1> QED
  BY <1>3, <1>4

LEMMA RewritesExists ==
  ASSUME NEW row, NEW n \in Nat
  PROVE  \E f : Rewrites(f, row, n)
<1> DEFINE T == {m \in Nat : ~\E f : Rewrites(f, row, m)}
<1>1. SUFFICES ASSUME T # {} PROVE FALSE
  OBVIOUS
<1>2. PICK m \in T : \A k \in T : m <= k
  <2>1. T \subseteq Nat
    OBVIOUS
  <2> HIDE DEF T
  <2> QED
    BY <1>1, <2>1, LeastNumber
<1>3. m \in Nat /\ ~\E f : Rewrites(f, row, m)
  OBVIOUS
<1>4. CASE m = 0
  <2> DEFINE f == [k \in 0 .. 0 |-> row]
  <2>1. Rewrites(f, row, 0)
    BY DEF Rewrites
  <2> QED
    BY <1>3, <1>4, <2>1
<1>5. CASE m # 0
  <2>1. m - 1 \in Nat /\ ~(m <= m - 1)
    BY <1>3, <1>5
  <2>2. m - 1 \notin T
    <3> HIDE DEF T
    <3> QED
      BY <1>2, <2>1
  <2>3. PICK f : Rewrites(f, row, m - 1)
    BY <2>1, <2>2
  <2>4. f[0] = row /\ \A k \in 1 .. m - 1 : f[k] = Expand(f[k - 1])
    BY <2>1, <2>3, RewritesIs
  <2> DEFINE g == [k \in 0 .. m |-> IF k = 0 THEN row ELSE Expand(f[k - 1])]
  <2>5. ASSUME NEW k \in 0 .. m - 1 PROVE g[k] = f[k]
    <3>1. k \in 0 .. m /\ (k = 0 \/ k \in 1 .. m - 1)
      BY <1>3
    <3> QED
      BY <2>4, <3>1
  <2>6. ASSUME NEW k \in 0 .. m PROVE g[k] = IF k = 0 THEN row ELSE Expand(g[k - 1])
    <3>1. CASE k = 0
      BY <3>1
    <3>2. CASE k # 0
      <4>1. k - 1 \in 0 .. m - 1
        BY <1>3, <3>2
      <4>2. g[k - 1] = f[k - 1]
        BY <2>5, <4>1
      <4> QED
        BY <3>2, <4>2
    <3> QED
      BY <3>1, <3>2
  <2>7. g = [k \in 0 .. m |-> g[k]]
    OBVIOUS
  <2> HIDE DEF g
  <2>8. g = [k \in 0 .. m |-> IF k = 0 THEN row ELSE Expand(g[k - 1])]
    BY <2>6, <2>7
  <2> QED
    BY <1>3, <2>8 DEF Rewrites
<1> QED
  BY <1>4, <1>5

LEMMA RewritesAgree ==
  ASSUME NEW f, NEW g, NEW row, NEW n \in Nat, NEW m \in Nat, n <= m, Rewrites(f, row, n), Rewrites(g, row,
           m)
  PROVE  \A k \in 0 .. n : f[k] = g[k]
<1> DEFINE T == {k \in 0 .. n : f[k] # g[k]}
<1>1. SUFFICES ASSUME T # {} PROVE FALSE
  OBVIOUS
<1>2. PICK k \in T : \A j \in T : k <= j
  <2>1. T \subseteq Nat
    OBVIOUS
  <2> HIDE DEF T
  <2> QED
    BY <1>1, <2>1, LeastNumber
<1>3. k \in 0 .. n /\ f[k] # g[k]
  OBVIOUS
<1>4. /\ f[0] = row /\ \A j \in 1 .. n : f[j] = Expand(f[j - 1])
      /\ g[0] = row /\ \A j \in 1 .. m : g[j] = Expand(g[j - 1])
  BY RewritesIs
<1>5. k # 0
  BY <1>3, <1>4
<1>6. k \in 1 .. n /\ k \in 1 .. m /\ k - 1 \in 0 .. n /\ ~(k <= k - 1)
  BY <1>3, <1>5
<1>7. k - 1 \notin T
  <2> HIDE DEF T
  <2> QED
    BY <1>2, <1>6
<1>8. f[k - 1] = g[k - 1]
  BY <1>6, <1>7
<1>9. f[k] = Expand(f[k - 1]) /\ g[k] = Expand(g[k - 1])
  BY <1>4, <1>6
<1> QED
  BY <1>3, <1>8, <1>9

LEMMA TextIs ==
  ASSUME NEW row, NEW n \in Nat
  PROVE  \E f : Rewrites(f, row, n) /\ Text(row, n) = f[n]
<1>1. \E f : Rewrites(f, row, n)
  BY RewritesExists
<1> DEFINE c == CHOOSE f : Rewrites(f, row, n)
<1>2. Rewrites(c, row, n)
  BY <1>1
<1>3. Text(row, n) = c[n]
  BY Zenon DEF Text, Rewrites
<1> QED
  BY <1>2, <1>3

LEMMA TextOfNone ==
  ASSUME NEW row
  PROVE  Text(row, 0) = row
BY TextIs, RewritesIs

LEMMA TextOfMore ==
  ASSUME NEW row, NEW n \in Nat
  PROVE  Text(row, n + 1) = Expand(Text(row, n))
<1>1. n + 1 \in Nat /\ n <= n + 1 /\ n + 1 \in 1 .. n + 1 /\ (n + 1) - 1 = n /\ n \in 0 .. n
  OBVIOUS
<1>2. PICK f : Rewrites(f, row, n) /\ Text(row, n) = f[n]
  BY TextIs
<1>3. PICK g : Rewrites(g, row, n + 1) /\ Text(row, n + 1) = g[n + 1]
  BY <1>1, TextIs
<1>4. g[n + 1] = Expand(g[n])
  BY <1>1, <1>3, RewritesIs
<1>5. f[n] = g[n]
  BY <1>1, <1>2, <1>3, RewritesAgree
<1> QED
  BY <1>2, <1>3, <1>4, <1>5

\* A row spells the tokens that n rounds make of it.
Spells(row, n, out) == Text(row, n) = out /\ \A k \in 0 .. n : Expandable(Text(row, k))

AllTokens(out) == IsRow(out) /\ \A i \in 1 .. Len(out) : Parts(out[i]) = <<out[i]>>

LEMMA TextTogether ==
  ASSUME NEW a, NEW b, NEW n \in Nat,
         \A k \in 0 .. n : Expandable(Text(a, k)) /\ Expandable(Text(b, k))
  PROVE  \A k \in 0 .. n : Text(a \o b, k) = Text(a, k) \o Text(b, k)
<1> DEFINE T == {k \in 0 .. n : Text(a \o b, k) # Text(a, k) \o Text(b, k)}
<1>1. SUFFICES ASSUME T # {} PROVE FALSE
  OBVIOUS
<1>2. PICK k \in T : \A j \in T : k <= j
  <2>1. T \subseteq Nat
    OBVIOUS
  <2> HIDE DEF T
  <2> QED
    BY <1>1, <2>1, LeastNumber
<1>3. k \in 0 .. n /\ Text(a \o b, k) # Text(a, k) \o Text(b, k)
  OBVIOUS
<1>4. k # 0
  BY <1>3, TextOfNone
<1> DEFINE j == k - 1
<1>5. j \in 0 .. n /\ j \in Nat /\ ~(k <= j) /\ k = j + 1
  BY <1>3, <1>4
<1> HIDE DEF j
<1>6. j \notin T
  <2> HIDE DEF T
  <2> QED
    BY <1>2, <1>5
<1>7. Text(a \o b, j) = Text(a, j) \o Text(b, j)
  BY <1>5, <1>6
<1>8. /\ Text(a, k) = Expand(Text(a, j)) /\ Text(b, k) = Expand(Text(b, j))
      /\ Text(a \o b, k) = Expand(Text(a \o b, j))
  BY <1>5, TextOfMore
<1>9. Expandable(Text(a, j)) /\ Expandable(Text(b, j))
  BY <1>5
<1> QED
  BY <1>3, <1>7, <1>8, <1>9, ExpandTogether

LEMMA SpellTogether ==
  ASSUME NEW a, NEW b, NEW n \in Nat, NEW x, NEW y, Spells(a, n, x), Spells(b, n, y)
  PROVE  Spells(a \o b, n, x \o y)
<1>1. \A k \in 0 .. n : Expandable(Text(a, k)) /\ Expandable(Text(b, k))
  BY DEF Spells
<1>2. \A k \in 0 .. n : Text(a \o b, k) = Text(a, k) \o Text(b, k)
  BY <1>1, TextTogether
<1>3. ASSUME NEW k \in 0 .. n PROVE Expandable(Text(a \o b, k))
  <2>1. IsRow(Text(a, k)) /\ IsRow(Text(b, k))
    BY <1>1 DEF Expandable
  <2> QED
    BY <1>1, <1>2, <2>1, ExpandableTogether
<1>4. n \in 0 .. n
  OBVIOUS
<1> QED
  BY <1>2, <1>3, <1>4 DEF Spells

LEMMA SpellApart ==
  ASSUME NEW a, NEW b, IsRow(a), IsRow(b), NEW n \in Nat, NEW z, Spells(a \o b, n, z)
  PROVE  \E x, y : z = x \o y /\ Spells(a, n, x) /\ Spells(b, n, y)
<1> DEFINE Apart(k) == /\ Text(a \o b, k) = Text(a, k) \o Text(b, k)
                       /\ Expandable(Text(a, k)) /\ Expandable(Text(b, k))
           T == {k \in 0 .. n : ~Apart(k)}
<1>1. ASSUME T # {} PROVE FALSE
  <2>1. PICK k \in T : \A j \in T : k <= j
    <3>1. T \subseteq Nat
      OBVIOUS
    <3> HIDE DEF T
    <3> QED
      BY <1>1, <3>1, LeastNumber
  <2>2. k \in 0 .. n /\ ~Apart(k)
    OBVIOUS
  <2>3. Expandable(Text(a \o b, k))
    BY <2>2 DEF Spells
  <2>4. ASSUME Text(a \o b, k) = Text(a, k) \o Text(b, k), IsRow(Text(a, k)), IsRow(Text(b, k))
        PROVE  FALSE
    BY <2>2, <2>3, <2>4, ExpandableTogether
  <2>5. CASE k = 0
    <3>1. Text(a, k) = a /\ Text(b, k) = b /\ Text(a \o b, k) = a \o b
      BY <2>5, TextOfNone
    <3> QED
      BY <2>4, <3>1
  <2>6. CASE k # 0
    <3> DEFINE j == k - 1
    <3>1. j \in 0 .. n /\ j \in Nat /\ ~(k <= j) /\ k = j + 1
      BY <2>2, <2>6
    <3> HIDE DEF j
    <3>2. j \notin T
      <4> HIDE DEF T
      <4> QED
        BY <2>1, <3>1
    <3>3. Apart(j)
      BY <3>1, <3>2
    <3>4. /\ Text(a, k) = Expand(Text(a, j)) /\ Text(b, k) = Expand(Text(b, j))
          /\ Text(a \o b, k) = Expand(Text(a \o b, j))
      BY <3>1, TextOfMore
    <3>5. Text(a \o b, k) = Text(a, k) \o Text(b, k)
      BY <3>3, <3>4, ExpandTogether
    <3>6. IsRow(Text(a, k)) /\ IsRow(Text(b, k))
      BY <3>3, <3>4, ExpandIsRow
    <3> QED
      BY <2>4, <3>5, <3>6
  <2> QED
    BY <2>5, <2>6
<1>2. \A k \in 0 .. n : Apart(k)
  BY <1>1
<1>3. n \in 0 .. n
  OBVIOUS
<1>4. Text(a \o b, n) = z
  BY DEF Spells
<1>5. Spells(a, n, Text(a, n)) /\ Spells(b, n, Text(b, n))
  BY <1>2 DEF Spells
<1>6. z = Text(a, n) \o Text(b, n)
  BY <1>2, <1>3, <1>4
<1> QED
  BY <1>5, <1>6

LEMMA TokensApart ==
  ASSUME NEW x, NEW y, IsRow(x), IsRow(y), AllTokens(x \o y)
  PROVE  AllTokens(x) /\ AllTokens(y)
<1> DEFINE z == x \o y
<1>1. /\ Len(z) = Len(x) + Len(y) /\ Len(x) \in Nat /\ Len(y) \in Nat
      /\ \A i \in 1 .. Len(x) : z[i] = x[i]
      /\ \A i \in 1 .. Len(y) : z[Len(x) + i] = y[i]
  BY ConcatOfRows, RowLength
<1>2. \A i \in 1 .. Len(z) : Parts(z[i]) = <<z[i]>>
  BY DEF AllTokens
<1> HIDE DEF z
<1>3. ASSUME NEW i \in 1 .. Len(x) PROVE Parts(x[i]) = <<x[i]>>
  <2>1. i \in 1 .. Len(z)
    BY <1>1
  <2> QED
    BY <1>1, <1>2, <2>1
<1>4. ASSUME NEW i \in 1 .. Len(y) PROVE Parts(y[i]) = <<y[i]>>
  <2>1. Len(x) + i \in 1 .. Len(z)
    BY <1>1
  <2>2. Parts(z[Len(x) + i]) = <<z[Len(x) + i]>>
    BY <1>2, <2>1
  <2> QED
    BY <1>1, <2>2
<1> QED
  BY <1>3, <1>4 DEF AllTokens

LEMMA TokensTogether ==
  ASSUME NEW x, NEW y, AllTokens(x), AllTokens(y)
  PROVE  AllTokens(x \o y)
<1> DEFINE z == x \o y
<1>1. IsRow(x) /\ IsRow(y)
  BY DEF AllTokens
<1>2. /\ IsRow(z) /\ Len(z) = Len(x) + Len(y) /\ Len(x) \in Nat /\ Len(y) \in Nat
      /\ \A i \in 1 .. Len(x) : z[i] = x[i]
      /\ \A i \in 1 .. Len(y) : z[Len(x) + i] = y[i]
  BY <1>1, ConcatOfRows, RowLength
<1> HIDE DEF z
<1>3. ASSUME NEW i \in 1 .. Len(z) PROVE Parts(z[i]) = <<z[i]>>
  <2>1. CASE i <= Len(x)
    <3>1. i \in 1 .. Len(x)
      BY <1>2, <2>1
    <3> QED
      BY <1>2, <3>1 DEF AllTokens
  <2>2. CASE ~(i <= Len(x))
    <3> DEFINE j == i - Len(x)
    <3>1. j \in 1 .. Len(y) /\ Len(x) + j = i
      BY <1>2, <2>2
    <3> HIDE DEF j
    <3>2. z[Len(x) + j] = y[j] /\ Parts(y[j]) = <<y[j]>>
      BY <1>2, <3>1 DEF AllTokens
    <3> QED
      BY <3>1, <3>2
  <2> QED
    BY <2>1, <2>2
<1>4. AllTokens(z)
  BY <1>2, <1>3 DEF AllTokens
<1> QED
  BY <1>4 DEF z

LEMMA OneToken ==
  ASSUME NEW x, Parts(x) = <<x>>
  PROVE  AllTokens(<<x>>)
BY OneIsRow DEF AllTokens

\* Nothing is left to do in a row of tokens.
LEMMA TokensStay ==
  ASSUME NEW out, AllTokens(out)
  PROVE  Expandable(out) /\ Expand(out) = out
<1> DEFINE T == {n \in Nat : \E r : AllTokens(r) /\ Len(r) = n /\ ~(Expandable(r) /\ Expand(r) = r)}
<1>1. SUFFICES ASSUME T # {} PROVE FALSE
  <2>1. Len(out) \in Nat
    BY RowLength DEF AllTokens
  <2> QED
    BY <1>1, <2>1
<1>2. PICK n \in T : \A k \in T : n <= k
  <2>1. T \subseteq Nat
    OBVIOUS
  <2> HIDE DEF T
  <2> QED
    BY <1>1, <2>1, LeastNumber
<1>3. PICK r : AllTokens(r) /\ Len(r) = n /\ ~(Expandable(r) /\ Expand(r) = r)
  OBVIOUS
<1>4. r # <<>>
  <2>1. Expandable(<<>>)
    BY EmptyIsRow DEF Expandable
  <2>2. IsRow(PartsOf(<<>>)) /\ Len(PartsOf(<<>>)) = 0
    BY EmptyIsRow, PartsOfRow
  <2>3. PartsOf(<<>>) = <<>>
    BY <2>2, OnlyEmpty
  <2>4. Expand(<<>>) = <<>>
    BY <2>3, ExpandIs, FlattenOfNone
  <2> QED
    BY <1>3, <2>1, <2>4
<1>5. PICK s, x : IsRow(s) /\ r = Append(s, x) /\ Len(r) = Len(s) + 1
  BY <1>3, <1>4, RowEnds DEF AllTokens
<1>6. r = s \o <<x>> /\ IsRow(<<x>>) /\ Len(<<x>>) = 1 /\ <<x>>[1] = x
  BY <1>5, AppendToRow, OneIsRow
<1>7. AllTokens(s) /\ AllTokens(<<x>>)
  BY <1>3, <1>5, <1>6, TokensApart
<1>8. Parts(x) = <<x>>
  BY <1>6, <1>7 DEF AllTokens
<1>9. Len(s) \in Nat /\ ~(n <= Len(s))
  BY <1>3, <1>5, RowLength
<1>10. Len(s) \notin T
  <2> HIDE DEF T
  <2> QED
    BY <1>2, <1>9
<1>11. Expandable(s) /\ Expand(s) = s
  BY <1>7, <1>9, <1>10
<1>12. Expandable(<<x>>) /\ Expand(<<x>>) = <<x>>
  BY <1>6, <1>8, ExpandOfOne
<1> HIDE DEF T
<1>13. Expandable(s \o <<x>>)
  BY <1>5, <1>6, <1>11, <1>12, ExpandableTogether
<1>14. Expand(s \o <<x>>) = s \o <<x>>
  <2> DEFINE e == <<x>>
  <2>1. Expandable(s) /\ Expandable(e)
    BY <1>11, <1>12
  <2>2. Expand(s) = s /\ Expand(e) = e
    BY <1>11, <1>12
  <2> HIDE DEF e
  <2>3. Expand(s \o e) = Expand(s) \o Expand(e)
    BY <2>1, ExpandTogether
  <2>4. Expand(s \o e) = s \o e
    BY <2>2, <2>3
  <2> QED
    BY <2>4 DEF e
<1> QED
  BY <1>3, <1>6, <1>13, <1>14

LEMMA SpellOnceMore ==
  ASSUME NEW row, NEW n \in Nat, NEW out, AllTokens(out), Spells(row, n, out)
  PROVE  Spells(row, n + 1, out)
<1>1. Text(row, n) = out /\ Text(row, n + 1) = out
  BY TextOfMore, TokensStay DEF Spells
<1>2. ASSUME NEW k \in 0 .. n + 1 PROVE Expandable(Text(row, k))
  <2>1. k \in 0 .. n \/ k = n + 1
    OBVIOUS
  <2>2. CASE k \in 0 .. n
    BY <2>2 DEF Spells
  <2>3. CASE k = n + 1
    BY <1>1, <2>3, TokensStay
  <2> QED
    BY <2>1, <2>2, <2>3
<1> QED
  BY <1>1, <1>2 DEF Spells

LEMMA TokensSpell ==
  ASSUME NEW out, AllTokens(out), NEW n \in Nat
  PROVE  Spells(out, n, out)
<1> DEFINE T == {k \in Nat : ~Spells(out, k, out)}
<1>1. SUFFICES ASSUME T # {} PROVE FALSE
  OBVIOUS
<1>2. PICK k \in T : \A j \in T : k <= j
  <2>1. T \subseteq Nat
    OBVIOUS
  <2> HIDE DEF T
  <2> QED
    BY <1>1, <2>1, LeastNumber
<1>3. k \in Nat /\ ~Spells(out, k, out)
  OBVIOUS
<1>4. k # 0
  <2>1. Text(out, 0) = out /\ 0 .. 0 = {0}
    BY TextOfNone
  <2>2. Spells(out, 0, out)
    BY <2>1, TokensStay DEF Spells
  <2> QED
    BY <1>3, <2>2
<1> DEFINE j == k - 1
<1>5. j \in Nat /\ ~(k <= j) /\ k = j + 1
  BY <1>3, <1>4
<1> HIDE DEF j
<1>6. j \notin T
  <2> HIDE DEF T
  <2> QED
    BY <1>2, <1>5
<1>7. Spells(out, j, out)
  BY <1>5, <1>6
<1> QED
  BY <1>3, <1>5, <1>7, SpellOnceMore

\* A tree spells what its parts spell in a round less.
LEMMA SpellParts ==
  ASSUME NEW x, IsRow(Parts(x)), NEW n \in Nat, NEW out, Spells(Parts(x), n, out)
  PROVE  Spells(<<x>>, n + 1, out)
<1> DEFINE T == {k \in 0 .. n : Text(<<x>>, k + 1) # Text(Parts(x), k)}
<1>1. Expandable(<<x>>) /\ Expand(<<x>>) = Parts(x)
  BY ExpandOfOne
<1>2. Text(<<x>>, 0) = <<x>>
  BY TextOfNone
<1>3. ASSUME T # {} PROVE FALSE
  <2>1. PICK k \in T : \A j \in T : k <= j
    <3>1. T \subseteq Nat
      OBVIOUS
    <3> HIDE DEF T
    <3> QED
      BY <1>3, <3>1, LeastNumber
  <2>2. k \in 0 .. n /\ k \in Nat /\ Text(<<x>>, k + 1) # Text(Parts(x), k)
    OBVIOUS
  <2>3. Text(<<x>>, k + 1) = Expand(Text(<<x>>, k))
    BY <2>2, TextOfMore
  <2>4. CASE k = 0
    <3>1. Text(Parts(x), k) = Parts(x)
      BY <2>4, TextOfNone
    <3> QED
      BY <1>1, <1>2, <2>2, <2>3, <2>4, <3>1
  <2>5. CASE k # 0
    <3> DEFINE j == k - 1
    <3>1. j \in 0 .. n /\ j \in Nat /\ ~(k <= j) /\ k = j + 1
      BY <2>2, <2>5
    <3> HIDE DEF j
    <3>2. j \notin T
      <4> HIDE DEF T
      <4> QED
        BY <2>1, <3>1
    <3>3. Text(<<x>>, k) = Text(Parts(x), j)
      BY <3>1, <3>2
    <3>4. Text(Parts(x), k) = Expand(Text(Parts(x), j))
      BY <3>1, TextOfMore
    <3> QED
      BY <2>2, <2>3, <3>3, <3>4
  <2> QED
    BY <2>4, <2>5
<1>4. \A k \in 0 .. n : Text(<<x>>, k + 1) = Text(Parts(x), k)
  BY <1>3
<1>5. n \in 0 .. n
  OBVIOUS
<1>6. Text(<<x>>, n + 1) = out
  BY <1>4, <1>5 DEF Spells
<1>7. ASSUME NEW k \in 0 .. n + 1 PROVE Expandable(Text(<<x>>, k))
  <2>1. CASE k = 0
    BY <1>1, <1>2, <2>1
  <2>2. CASE k # 0
    <3> DEFINE j == k - 1
    <3>1. j \in 0 .. n /\ k = j + 1
      BY <2>2
    <3> HIDE DEF j
    <3>2. Text(<<x>>, k) = Text(Parts(x), j)
      BY <1>4, <3>1
    <3> QED
      BY <3>1, <3>2 DEF Spells
  <2> QED
    BY <2>1, <2>2
<1> QED
  BY <1>6, <1>7 DEF Spells

-----------------------------------------------------------------------------
(* Lists that are filled from their end.                                     *)

HasElements(w, classes) == IsRow(w) /\ \A i \in 1 .. Len(w) : w[i].node \in classes

LEMMA ReverseOfRow ==
  ASSUME NEW w, IsRow(w)
  PROVE  /\ IsRow(Reverse(w)) /\ Len(Reverse(w)) = Len(w)
         /\ \A i \in 1 .. Len(w) : Reverse(w)[i] = w[(Len(w) - i) + 1]
<1>1. Len(w) \in Nat /\ DOMAIN w = 1 .. Len(w)
  BY RowLength
<1>2. \A i \in 1 .. Len(w) : (Len(w) - i) + 1 \in 1 .. Len(w)
  BY <1>1
<1> DEFINE S == {w[(Len(w) - i) + 1] : i \in 1 .. Len(w)}
<1>3. /\ Reverse(w) \in [1 .. Len(w) -> S]
      /\ \A i \in 1 .. Len(w) : Reverse(w)[i] = w[(Len(w) - i) + 1]
  BY DEF Reverse
<1> HIDE DEF S
<1>4. Reverse(w) \in Seq(S) /\ DOMAIN Reverse(w) = 1 .. Len(w)
  BY <1>1, <1>3
<1>5. Len(Reverse(w)) = Len(w)
  BY <1>1, <1>4, LenProperties
<1> QED
  BY <1>3, <1>4, <1>5, RowIf

LEMMA ReverseOfNone == Reverse(<<>>) = <<>>
BY EmptyIsRow, ReverseOfRow, OnlyEmpty

LEMMA ReverseOfMore ==
  ASSUME NEW w, IsRow(w), NEW e
  PROVE  Reverse(Append(w, e)) = <<e>> \o Reverse(w)
<1> DEFINE u == Append(w, e)
           l == Reverse(u)
           r == <<e>> \o Reverse(w)
           n == Len(w)
<1>1. n \in Nat
  BY RowLength
<1>2. IsRow(u) /\ Len(u) = n + 1 /\ u[n + 1] = e /\ \A i \in 1 .. n : u[i] = w[i]
  BY AppendToRow
<1> HIDE DEF n, u
<1>3. IsRow(l) /\ Len(l) = n + 1 /\ \A i \in 1 .. n + 1 : l[i] = u[((n + 1) - i) + 1]
  BY <1>2, ReverseOfRow
<1>4. IsRow(Reverse(w)) /\ Len(Reverse(w)) = n /\ \A i \in 1 .. n : Reverse(w)[i] = w[(n - i) + 1]
  BY ReverseOfRow DEF n
<1>6. /\ IsRow(r) /\ Len(r) = n + 1 /\ r[1] = e
      /\ \A i \in 1 .. n : r[i + 1] = Reverse(w)[i]
  <2> DEFINE t == Reverse(w)
  <2>1. IsRow(t) /\ Len(t) = n
    BY <1>4
  <2> HIDE DEF t
  <2>2. /\ IsRow(<<e>> \o t) /\ Len(<<e>> \o t) = n + 1 /\ (<<e>> \o t)[1] = e
        /\ \A i \in 1 .. n : (<<e>> \o t)[i + 1] = t[i]
    BY <2>1, OneBefore
  <2> QED
    BY <2>2 DEF t
<1> HIDE DEF l, r
<1>7. ASSUME NEW i \in 1 .. n + 1 PROVE l[i] = r[i]
  <2>1. CASE i = 1
    <3>1. ((n + 1) - i) + 1 = n + 1
      BY <1>1, <2>1
    <3> QED
      BY <1>2, <1>3, <1>6, <2>1, <3>1
  <2>2. CASE i # 1
    <3> DEFINE j == i - 1
    <3>1. j \in 1 .. n /\ j + 1 = i /\ ((n + 1) - i) + 1 = (n - j) + 1 /\ (n - j) + 1 \in 1 .. n
      BY <1>1, <2>2
    <3> HIDE DEF j
    <3>2. l[i] = w[(n - j) + 1]
      BY <1>2, <1>3, <3>1
    <3>3. r[j + 1] = w[(n - j) + 1]
      BY <1>4, <1>6, <3>1
    <3> QED
      BY <3>1, <3>2, <3>3
  <2> QED
    BY <2>1, <2>2
<1>8. l = r
  <2>1. Len(l) = Len(r)
    BY <1>1, <1>3, <1>6
  <2> QED
    BY <1>3, <1>6, <1>7, <2>1, RowsEqual
<1> QED
  BY <1>8 DEF l, r, u

PairsOf(l, s) == [i \in DOMAIN l |-> <<Word(s), l[i]>>]

LEMMA PairsOfRow ==
  ASSUME NEW l, IsRow(l), NEW s
  PROVE  /\ AllRows(PairsOf(l, s)) /\ Len(PairsOf(l, s)) = Len(l)
         /\ \A i \in 1 .. Len(l) : PairsOf(l, s)[i] = <<Word(s), l[i]>>
<1>1. Len(l) \in Nat /\ DOMAIN l = 1 .. Len(l)
  BY RowLength
<1> DEFINE S == {<<Word(s), l[i]>> : i \in 1 .. Len(l)}
<1>2. PairsOf(l, s) \in [1 .. Len(l) -> S] /\ \A i \in 1 .. Len(l) : PairsOf(l, s)[i] = <<Word(s), l[i]>>
  BY <1>1 DEF PairsOf
<1> HIDE DEF S
<1>3. PairsOf(l, s) \in Seq(S) /\ DOMAIN PairsOf(l, s) = 1 .. Len(l)
  BY <1>1, <1>2
<1>4. Len(PairsOf(l, s)) = Len(l)
  BY <1>1, <1>3, LenProperties
<1>5. \A i \in 1 .. Len(l) : IsRow(PairsOf(l, s)[i])
  BY <1>2, Pair
<1> QED
  BY <1>2, <1>3, <1>4, <1>5, RowIf DEF AllRows

LEMMA PairsOfMore ==
  ASSUME NEW l, IsRow(l), NEW s, NEW e
  PROVE  PairsOf(<<e>> \o l, s) = <<<<Word(s), e>>>> \o PairsOf(l, s)
<1> DEFINE o == <<e>>
           c == o \o l
           p == <<Word(s), e>>
           q == <<p>>
           x == PairsOf(c, s)
           y == q \o PairsOf(l, s)
           n == Len(l)
<1>1. n \in Nat
  BY RowLength
<1>4. IsRow(PairsOf(l, s)) /\ Len(PairsOf(l, s)) = n /\ \A i \in 1 .. n : PairsOf(l, s)[i] = <<Word(s),
        l[i]>>
  BY PairsOfRow DEF AllRows
<1>5. IsRow(c) /\ Len(c) = n + 1 /\ c[1] = e /\ \A i \in 1 .. n : c[i + 1] = l[i]
  BY OneBefore
<1>6. IsRow(y) /\ Len(y) = n + 1 /\ y[1] = p /\ \A i \in 1 .. n : y[i + 1] = PairsOf(l, s)[i]
  <2> DEFINE t == PairsOf(l, s)
  <2>1. IsRow(t) /\ Len(t) = n
    BY <1>4
  <2> HIDE DEF t, p
  <2>2. /\ IsRow(<<p>> \o t) /\ Len(<<p>> \o t) = n + 1 /\ (<<p>> \o t)[1] = p
        /\ \A i \in 1 .. n : (<<p>> \o t)[i + 1] = t[i]
    BY <2>1, OneBefore
  <2> QED
    BY <2>2 DEF t
<1> HIDE DEF n
<1> HIDE DEF c, y
<1>7. IsRow(x) /\ Len(x) = Len(c) /\ \A i \in 1 .. Len(c) : x[i] = <<Word(s), c[i]>>
  BY <1>5, PairsOfRow DEF AllRows
<1> HIDE DEF x
<1>8. ASSUME NEW i \in 1 .. Len(c) PROVE x[i] = y[i]
  <2>1. CASE i = 1
    <3>1. c[1] = e /\ y[1] = p
      BY <1>5, <1>6
    <3>2. x[i] = <<Word(s), c[i]>>
      BY <1>7
    <3> QED
      BY <2>1, <3>1, <3>2
  <2>2. CASE i # 1
    <3> DEFINE j == i - 1
    <3>1. j \in 1 .. n /\ j + 1 = i
      BY <1>1, <1>5, <2>2
    <3> HIDE DEF j
    <3>2. c[j + 1] = l[j] /\ y[j + 1] = <<Word(s), l[j]>>
      BY <1>4, <1>5, <1>6, <3>1
    <3>3. x[i] = <<Word(s), c[i]>>
      BY <1>7
    <3> QED
      BY <3>1, <3>2, <3>3
  <2> QED
    BY <2>1, <2>2
<1>9. x = y
  <2>1. Len(x) = Len(y) /\ \A i \in 1 .. Len(x) : x[i] = y[i]
    BY <1>5, <1>6, <1>7, <1>8
  <2> QED
    BY <1>6, <1>7, <2>1, RowsEqual
<1> QED
  BY <1>9 DEF x, y, c, o, q

LEMMA PrecededIs ==
  ASSUME NEW l, NEW s
  PROVE  Preceded(l, s) = FlattenSeq(PairsOf(l, s))
BY DEF Preceded, PairsOf

LEMMA PrecededIsRow ==
  ASSUME NEW l, IsRow(l), NEW s
  PROVE  IsRow(Preceded(l, s))
BY PrecededIs, PairsOfRow, FlattenIsRow

LEMMA PrecededOfNone ==
  ASSUME NEW s
  PROVE  Preceded(<<>>, s) = <<>>
<1>1. IsRow(PairsOf(<<>>, s)) /\ Len(PairsOf(<<>>, s)) = 0
  BY EmptyIsRow, PairsOfRow DEF AllRows
<1>2. PairsOf(<<>>, s) = <<>>
  BY <1>1, OnlyEmpty
<1> QED
  BY <1>2, PrecededIs, FlattenOfNone

LEMMA PrecededOfMore ==
  ASSUME NEW l, IsRow(l), NEW s, NEW e
  PROVE  Preceded(<<e>> \o l, s) = (<<Word(s)>> \o <<e>>) \o Preceded(l, s)
<1> DEFINE p == <<Word(s), e>>
           q == <<p>>
<1>1. p = <<Word(s)>> \o <<e>> /\ IsRow(p)
  BY Pair
<1>2. PairsOf(<<e>> \o l, s) = q \o PairsOf(l, s)
  BY PairsOfMore
<1>3. AllRows(q) /\ FlattenSeq(q) = p
  <2>1. IsRow(p)
    BY <1>1
  <2> HIDE DEF p
  <2> QED
    BY <2>1, FlattenOfOne
<1>4. AllRows(PairsOf(l, s))
  BY PairsOfRow
<1> HIDE DEF q
<1>5. FlattenSeq(q \o PairsOf(l, s)) = p \o FlattenSeq(PairsOf(l, s))
  <2>1. FlattenSeq(q \o PairsOf(l, s)) = FlattenSeq(q) \o FlattenSeq(PairsOf(l, s))
    BY <1>3, <1>4, FlattenTogether
  <2> HIDE DEF p
  <2> QED
    BY <1>3, <2>1
<1> HIDE DEF p
<1> QED
  BY <1>1, <1>2, <1>5, PrecededIs

LEMMA HeadOfMore ==
  ASSUME NEW l, IsRow(l), NEW e
  PROVE  <<e>> \o l # <<>> /\ Head(<<e>> \o l) = e /\ Tail(<<e>> \o l) = l
<1> DEFINE c == <<e>> \o l
<1>1. /\ IsRow(c) /\ Len(c) = Len(l) + 1 /\ Len(l) \in Nat /\ c[1] = e
      /\ \A i \in 1 .. Len(l) : c[i + 1] = l[i]
  BY OneBefore, RowLength
<1> HIDE DEF c
<1>2. c # <<>>
  BY <1>1, EmptyIsRow
<1>3. Head(c) = c[1]
  BY <1>1, <1>2 DEF IsRow
<1>4. Tail(c) \in Seq(Range(c)) /\ Len(Tail(c)) = Len(c) - 1
        /\ \A i \in 1 .. Len(Tail(c)) : Tail(c)[i] = c[i + 1]
  BY <1>1, <1>2, HeadTailProperties DEF IsRow
<1>5. IsRow(Tail(c)) /\ Len(Tail(c)) = Len(l)
  <2>1. IsRow(Tail(c))
    BY <1>4, RowIf
  <2>2. (Len(l) + 1) - 1 = Len(l)
    BY <1>1
  <2> QED
    BY <1>1, <1>4, <2>1, <2>2
<1>6. Tail(c) = l
  BY <1>1, <1>4, <1>5, RowsEqual
<1> QED
  BY <1>1, <1>2, <1>3, <1>6 DEF c

LEMMA SeparatedOfMore ==
  ASSUME NEW l, IsRow(l), NEW s, NEW e
  PROVE  Separated(<<e>> \o l, s) = <<e>> \o Preceded(l, s)
<1> DEFINE c == <<e>> \o l
<1>1. c # <<>> /\ Head(c) = e /\ Tail(c) = l
  BY HeadOfMore
<1> HIDE DEF c
<1>2. Separated(c, s) = <<e>> \o Preceded(l, s)
  BY <1>1 DEF Separated
<1> QED
  BY <1>2 DEF c

LEMMA SeparatedOfNone ==
  ASSUME NEW s
  PROVE  Separated(<<>>, s) = <<>>
BY DEF Separated

LEMMA SeparatedIsRow ==
  ASSUME NEW l, IsRow(l), NEW s
  PROVE  IsRow(Separated(l, s))
<1>1. CASE l = <<>>
  BY <1>1, SeparatedOfNone, EmptyIsRow
<1>2. CASE l # <<>>
  <2>1. IsRow(Tail(l))
    BY <1>2, HeadTailProperties, RowIf DEF IsRow
  <2>2. IsRow(Preceded(Tail(l), s)) /\ IsRow(<<Head(l)>>)
    BY <2>1, PrecededIsRow, OneIsRow
  <2>3. Separated(l, s) = <<Head(l)>> \o Preceded(Tail(l), s)
    BY <1>2 DEF Separated
  <2> QED
    BY <2>2, <2>3, ConcatOfRows
<1> QED
  BY <1>1, <1>2

\* append(), and reverse() at the end.
LEMMA ListGrows ==
  ASSUME NEW w, NEW c, HasElements(w, c), NEW e, e.node \in c
  PROVE  /\ HasElements(Append(w, e), c)
         /\ HasElements(Reverse(Append(w, e)), c)
         /\ Reverse(Append(w, e)) = <<e>> \o Reverse(w)
         /\ IsRow(Reverse(w))
         /\ \A s : /\ Preceded(Reverse(Append(w, e)), s) = (<<Word(s)>> \o <<e>>) \o Preceded(Reverse(w), s)
                   /\ Separated(Reverse(Append(w, e)), s) = <<e>> \o Preceded(Reverse(w), s)
<1> DEFINE u == Append(w, e)
<1>1. /\ IsRow(u) /\ Len(u) = Len(w) + 1 /\ \A i \in 1 .. Len(w) : u[i] = w[i]
      /\ u[Len(w) + 1] = e /\ IsRow(w) /\ Len(w) \in Nat
  BY AppendToRow, RowLength DEF HasElements
<1>2. Reverse(u) = <<e>> \o Reverse(w)
  BY <1>1, ReverseOfMore
<1> HIDE DEF u
<1>3. HasElements(u, c)
  <2>1. ASSUME NEW i \in 1 .. Len(u) PROVE u[i].node \in c
    <3>1. i \in 1 .. Len(w) \/ i = Len(w) + 1
      BY <1>1
    <3> QED
      BY <1>1, <3>1 DEF HasElements
  <2> QED
    BY <1>1, <2>1 DEF HasElements
<1>4. HasElements(Reverse(u), c)
  <2>1. IsRow(Reverse(u)) /\ Len(Reverse(u)) = Len(u)
          /\ \A i \in 1 .. Len(u) : Reverse(u)[i] = u[(Len(u) - i) + 1]
    BY <1>1, ReverseOfRow
  <2>2. ASSUME NEW i \in 1 .. Len(u) PROVE Reverse(u)[i].node \in c
    <3>1. (Len(u) - i) + 1 \in 1 .. Len(u)
      BY <1>1
    <3> QED
      BY <1>3, <2>1, <3>1 DEF HasElements
  <2> QED
    BY <2>1, <2>2 DEF HasElements
<1>5. IsRow(Reverse(w))
  BY <1>1, ReverseOfRow
<1>6. ASSUME NEW s
      PROVE  /\ Preceded(Reverse(u), s) = (<<Word(s)>> \o <<e>>) \o Preceded(Reverse(w), s)
             /\ Separated(Reverse(u), s) = <<e>> \o Preceded(Reverse(w), s)
  <2> DEFINE r == Reverse(w)
  <2>1. IsRow(r) /\ Reverse(u) = <<e>> \o r
    BY <1>2, <1>5
  <2> HIDE DEF r
  <2>2. Preceded(<<e>> \o r, s) = (<<Word(s)>> \o <<e>>) \o Preceded(r, s)
    BY <2>1, PrecededOfMore
  <2>3. Separated(<<e>> \o r, s) = <<e>> \o Preceded(r, s)
    BY <2>1, SeparatedOfMore
  <2>4. /\ Preceded(Reverse(u), s) = (<<Word(s)>> \o <<e>>) \o Preceded(r, s)
        /\ Separated(Reverse(u), s) = <<e>> \o Preceded(r, s)
    BY <2>1, <2>2, <2>3
  <2> QED
    BY <2>4 DEF r
<1> QED
  BY <1>2, <1>3, <1>4, <1>5, <1>6 DEF u

LEMMA EmptyList ==
  ASSUME NEW c
  PROVE  HasElements(<<>>, c)
BY EmptyIsRow DEF HasElements

-----------------------------------------------------------------------------
(* What a value stands for in a row, by the symbol it is the value of.       *)

Items(s, x) ==
  CASE s \in {"Func_def_dec", "Stmt_Full"} -> Reverse(x)
    [] s = "Stmt_Body" -> x
    [] s \in {"Simple_List", "Expr_List"} -> Separated(x, ",")
    [] s = "Par" -> Preceded(Reverse(x), ";")
    [] s \in {"Var_Comma", "Simple_Comma", "Expr_Comma"} -> Preceded(Reverse(x), ",")
    [] s \in {"Elsif_Clause", "Else_Clause"} -> Branch(x)
    [] OTHER -> <<x>>

LEMMA ListTypes ==
  ASSUME NEW s \in Lists, NEW x
  PROVE  HasType(s, x) <=> HasElements(x, Classes(s))
<1>1. IsRow(x) => DOMAIN x = 1 .. Len(x)
  BY RowLength
<1>2. HasType(s, x) <=> IsRow(x) /\ \A i \in DOMAIN x : x[i].node \in Classes(s)
  <2>1. s \notin Terminals \ Payload
    BY DEF Terminals, Payload, Lists
  <2> QED
    BY <2>1 DEF HasType, IsRow
<1> QED
  BY <1>1, <1>2 DEF HasElements

LEMMA WordTypes ==
  ASSUME NEW s \in Terminals \ Payload, NEW x
  PROVE  HasType(s, x) <=> x = Word(s)
<1>1. s \notin Lists
  BY DEF Terminals, Payload, Lists
<1> QED
  BY <1>1 DEF HasType

LEMMA NodeTypes ==
  ASSUME NEW s, s \notin Lists, s \notin Terminals \ Payload, NEW x
  PROVE  HasType(s, x) <=> x.node \in Classes(s)
BY DEF HasType

LEMMA BranchIsRow ==
  ASSUME NEW x
  PROVE  IsRow(Branch(x))
BY EmptyIsRow, OneIsRow DEF Branch

LEMMA ItemsIsRow ==
  ASSUME NEW s, NEW x, HasType(s, x)
  PROVE  IsRow(Items(s, x))
<1>1. CASE s \in {"Func_def_dec", "Stmt_Full", "Stmt_Body", "Simple_List", "Expr_List", "Par", "Var_Comma",
                  "Simple_Comma", "Expr_Comma"}
  <2>1. s \in Lists
    BY <1>1 DEF Lists
  <2>2. IsRow(x) /\ IsRow(Reverse(x))
    BY <2>1, ListTypes, ReverseOfRow DEF HasElements
  <2>3. IsRow(Separated(x, ",")) /\ IsRow(Preceded(Reverse(x), ";")) /\ IsRow(Preceded(Reverse(x), ","))
    BY <2>2, SeparatedIsRow, PrecededIsRow
  <2> QED
    BY <1>1, <2>2, <2>3 DEF Items
<1>2. CASE s \in {"Elsif_Clause", "Else_Clause"}
  BY <1>2, BranchIsRow DEF Items
<1>3. CASE s \notin {"Func_def_dec", "Stmt_Full", "Stmt_Body", "Simple_List", "Expr_List", "Par",
        "Var_Comma",
                     "Simple_Comma", "Expr_Comma", "Elsif_Clause", "Else_Clause"}
  BY <1>3, OneIsRow DEF Items
<1> QED
  BY <1>1, <1>2, <1>3

-----------------------------------------------------------------------------
(* The values of a production that is being read, and what they stand for.   *)

ItemsUpTo(rhs, v, k) == [j \in 1 .. k |-> Items(rhs[j], v[j])]
RowUpTo(rhs, v, k)   == FlattenSeq(ItemsUpTo(rhs, v, k))
FrameRow(rhs, v)     == FlattenSeq([j \in DOMAIN v |-> Items(rhs[j], v[j])])
TypedUpTo(rhs, v)    == IsRow(v) /\ \A j \in 1 .. Len(v) : HasType(rhs[j], v[j])

LEMMA RowOfItems ==
  ASSUME NEW rhs, NEW v, TypedUpTo(rhs, v), NEW k \in 0 .. Len(v)
  PROVE  AllRows(ItemsUpTo(rhs, v, k)) /\ Len(ItemsUpTo(rhs, v, k)) = k
<1> DEFINE r == ItemsUpTo(rhs, v, k)
           S == {Items(rhs[j], v[j]) : j \in 1 .. k}
<1>1. Len(v) \in Nat /\ k \in Nat /\ \A j \in 1 .. k : j \in 1 .. Len(v)
  BY RowLength DEF TypedUpTo
<1>2. r \in [1 .. k -> S] /\ DOMAIN r = 1 .. k /\ \A j \in 1 .. k : r[j] = Items(rhs[j], v[j])
  BY DEF ItemsUpTo
<1>3. \A j \in 1 .. k : IsRow(r[j])
  BY <1>1, <1>2, ItemsIsRow DEF TypedUpTo
<1> HIDE DEF r, S
<1>4. r \in Seq(S)
  BY <1>1, <1>2
<1>5. Len(r) = k
  BY <1>1, <1>2, <1>4, LenProperties
<1>6. AllRows(r)
  BY <1>3, <1>4, <1>5, RowIf DEF AllRows
<1> QED
  BY <1>5, <1>6 DEF r

LEMMA RowUpToNone ==
  ASSUME NEW rhs, NEW v, TypedUpTo(rhs, v)
  PROVE  RowUpTo(rhs, v, 0) = <<>>
<1>1. 0 \in 0 .. Len(v)
  BY RowLength DEF TypedUpTo
<1>2. AllRows(ItemsUpTo(rhs, v, 0)) /\ Len(ItemsUpTo(rhs, v, 0)) = 0
  BY <1>1, RowOfItems
<1>3. ItemsUpTo(rhs, v, 0) = <<>>
  BY <1>2, OnlyEmpty DEF AllRows
<1> QED
  BY <1>3, FlattenOfNone DEF RowUpTo

LEMMA RowUpToNext ==
  ASSUME NEW rhs, NEW v, TypedUpTo(rhs, v), NEW k \in Nat, k + 1 <= Len(v)
  PROVE  RowUpTo(rhs, v, k + 1) = RowUpTo(rhs, v, k) \o Items(rhs[k + 1], v[k + 1])
<1> DEFINE r == ItemsUpTo(rhs, v, k)
           s == ItemsUpTo(rhs, v, k + 1)
           i == Items(rhs[k + 1], v[k + 1])
<1>1. Len(v) \in Nat
  BY RowLength DEF TypedUpTo
<1>2. k \in 0 .. Len(v) /\ k + 1 \in 0 .. Len(v) /\ k + 1 \in 1 .. Len(v)
  BY <1>1
<1>3. AllRows(r) /\ Len(r) = k /\ AllRows(s) /\ Len(s) = k + 1
  BY <1>2, RowOfItems
<1>4. IsRow(i)
  BY <1>2, ItemsIsRow DEF TypedUpTo
<1>5. s[k + 1] = i /\ \A j \in 1 .. k : s[j] = r[j]
  <2>1. k + 1 \in 1 .. k + 1 /\ \A j \in 1 .. k : j \in 1 .. k + 1
    OBVIOUS
  <2> QED
    BY <2>1 DEF ItemsUpTo
<1> HIDE DEF r, s, i
<1>6. s = r \o <<i>> /\ Append(r, i) = r \o <<i>>
  BY <1>3, <1>5, OneLonger, AppendToRow DEF AllRows
<1>7. FlattenSeq(s) = FlattenSeq(r) \o i
  <2>1. FlattenSeq(Append(r, i)) = FlattenSeq(r) \o i
    BY <1>3, <1>4, FlattenOfMore
  <2>2. s = Append(r, i)
    BY <1>6
  <2> QED
    BY <2>1, <2>2
<1> QED
  BY <1>7 DEF RowUpTo, r, s, i

LEMMA FrameRowIs ==
  ASSUME NEW rhs, NEW v, TypedUpTo(rhs, v)
  PROVE  FrameRow(rhs, v) = RowUpTo(rhs, v, Len(v)) /\ IsRow(FrameRow(rhs, v))
<1>1. DOMAIN v = 1 .. Len(v) /\ Len(v) \in 0 .. Len(v)
  BY RowLength DEF TypedUpTo
<1>2. FrameRow(rhs, v) = RowUpTo(rhs, v, Len(v))
  BY <1>1 DEF FrameRow, RowUpTo, ItemsUpTo
<1>3. IsRow(RowUpTo(rhs, v, Len(v)))
  BY <1>1, RowOfItems, FlattenIsRow DEF RowUpTo
<1> QED
  BY <1>2, <1>3

LEMMA FrameRowOfNone ==
  ASSUME NEW rhs
  PROVE  FrameRow(rhs, <<>>) = <<>> /\ TypedUpTo(rhs, <<>>)
<1>1. TypedUpTo(rhs, <<>>) /\ Len(<<>>) = 0
  BY EmptyIsRow DEF TypedUpTo
<1> QED
  BY <1>1, FrameRowIs, RowUpToNone

LEMMA FrameRowOfMore ==
  ASSUME NEW rhs, NEW v, TypedUpTo(rhs, v), NEW x, HasType(rhs[Len(v) + 1], x)
  PROVE  /\ TypedUpTo(rhs, Append(v, x))
         /\ FrameRow(rhs, Append(v, x)) = FrameRow(rhs, v) \o Items(rhs[Len(v) + 1], x)
<1> DEFINE w == Append(v, x)
           n == Len(v)
<1>1. /\ IsRow(w) /\ Len(w) = n + 1 /\ w[n + 1] = x /\ n \in Nat
      /\ \A j \in 1 .. n : w[j] = v[j]
  BY AppendToRow, RowLength DEF TypedUpTo
<1>2. \A j \in 1 .. n : HasType(rhs[j], v[j])
  BY DEF TypedUpTo
<1>3. HasType(rhs[n + 1], x)
  OBVIOUS
<1> HIDE DEF w
<1>4. TypedUpTo(rhs, w)
  <2>1. ASSUME NEW j \in 1 .. Len(w) PROVE HasType(rhs[j], w[j])
    <3> HIDE DEF n
    <3>1. j \in 1 .. n \/ j = n + 1
      BY <1>1
    <3> QED
      BY <1>1, <1>2, <1>3, <3>1
  <2> QED
    BY <1>1, <2>1 DEF TypedUpTo
<1>5. RowUpTo(rhs, w, n + 1) = RowUpTo(rhs, w, n) \o Items(rhs[n + 1], w[n + 1])
  <2> HIDE DEF n
  <2>1. n + 1 <= Len(w)
    BY <1>1
  <2> QED
    BY <1>1, <1>4, <2>1, RowUpToNext
<1>6. RowUpTo(rhs, w, n) = RowUpTo(rhs, v, n)
  <2>1. ItemsUpTo(rhs, w, n) = ItemsUpTo(rhs, v, n)
    BY <1>1 DEF ItemsUpTo
  <2> QED
    BY <2>1 DEF RowUpTo
<1>7. FrameRow(rhs, w) = RowUpTo(rhs, w, Len(w)) /\ FrameRow(rhs, v) = RowUpTo(rhs, v, n)
  BY <1>4, FrameRowIs
<1>8. FrameRow(rhs, w) = FrameRow(rhs, v) \o Items(rhs[n + 1], x)
  <2> HIDE DEF n
  <2> QED
    BY <1>1, <1>5, <1>6, <1>7
<1> QED
  BY <1>4, <1>8 DEF w

\* A production that is complete.
Typed(rhs, v) == TypedUpTo(rhs, v) /\ Len(v) = Len(rhs)

LEMMA TypedOne ==
  ASSUME NEW s1, NEW v, Typed(<<s1>>, v)
  PROVE  /\ Len(v) = 1 /\ HasType(s1, v[1])
         /\ FrameRow(<<s1>>, v) = Items(s1, v[1])
<1> DEFINE rhs == <<s1>>
<1>1. Len(rhs) = 1 /\ rhs[1] = s1
  OBVIOUS
<1>2. TypedUpTo(rhs, v) /\ Len(v) = 1
  BY <1>1 DEF Typed
<1> HIDE DEF rhs
<1>3. \A j \in 1 .. 1 : HasType(rhs[j], v[j])
  BY <1>2 DEF TypedUpTo
<1>4. HasType(s1, v[1])
  BY <1>1, <1>3
<1> DEFINE R(k) == RowUpTo(rhs, v, k)
<1>5. /\ R(0) = <<>>
      /\ R(1) = R(0) \o Items(s1, v[1])
  <2>0. R(0) = <<>>
    BY <1>2, RowUpToNone
  <2>1. R(1) = R(0) \o Items(s1, v[1])
    <3>1. R(0 + 1) = R(0) \o Items(rhs[0 + 1], v[0 + 1])
      <4>1. 0 \in Nat /\ 0 + 1 <= Len(v)
        BY <1>2
      <4> QED
        BY <1>2, <4>1, RowUpToNext
    <3>2. 0 + 1 = 1
      OBVIOUS
    <3> QED
      BY <1>1, <3>1, <3>2
  <2> QED
    BY <2>0, <2>1
<1>6. FrameRow(rhs, v) = R(1)
  BY <1>2, FrameRowIs
<1>7. <<>> \o Items(s1, v[1]) = Items(s1, v[1])
  BY <1>4, ItemsIsRow, NothingAround
<1> HIDE DEF R
<1>8. FrameRow(rhs, v) = Items(s1, v[1])
  BY <1>5, <1>6, <1>7
<1> QED
  BY <1>2, <1>4, <1>8 DEF rhs

LEMMA TypedTwo ==
  ASSUME NEW s1, NEW s2, NEW v, Typed(<<s1, s2>>, v)
  PROVE  /\ Len(v) = 2 /\ HasType(s1, v[1]) /\ HasType(s2, v[2])
         /\ FrameRow(<<s1, s2>>, v) = Items(s1, v[1]) \o Items(s2, v[2])
<1> DEFINE rhs == <<s1, s2>>
<1>1. Len(rhs) = 2 /\ rhs[1] = s1 /\ rhs[2] = s2
  OBVIOUS
<1>2. TypedUpTo(rhs, v) /\ Len(v) = 2
  BY <1>1 DEF Typed
<1> HIDE DEF rhs
<1>3. \A j \in 1 .. 2 : HasType(rhs[j], v[j])
  BY <1>2 DEF TypedUpTo
<1>4. HasType(s1, v[1]) /\ HasType(s2, v[2])
  BY <1>1, <1>3
<1> DEFINE R(k) == RowUpTo(rhs, v, k)
<1>5. /\ R(0) = <<>>
      /\ R(1) = R(0) \o Items(s1, v[1])
      /\ R(2) = R(1) \o Items(s2, v[2])
  <2>0. R(0) = <<>>
    BY <1>2, RowUpToNone
  <2>1. R(1) = R(0) \o Items(s1, v[1])
    <3>1. R(0 + 1) = R(0) \o Items(rhs[0 + 1], v[0 + 1])
      <4>1. 0 \in Nat /\ 0 + 1 <= Len(v)
        BY <1>2
      <4> QED
        BY <1>2, <4>1, RowUpToNext
    <3>2. 0 + 1 = 1
      OBVIOUS
    <3> QED
      BY <1>1, <3>1, <3>2
  <2>2. R(2) = R(1) \o Items(s2, v[2])
    <3>1. R(1 + 1) = R(1) \o Items(rhs[1 + 1], v[1 + 1])
      <4>1. 1 \in Nat /\ 1 + 1 <= Len(v)
        BY <1>2
      <4> QED
        BY <1>2, <4>1, RowUpToNext
    <3>2. 1 + 1 = 2
      OBVIOUS
    <3> QED
      BY <1>1, <3>1, <3>2
  <2> QED
    BY <2>0, <2>1, <2>2
<1>6. FrameRow(rhs, v) = R(2)
  BY <1>2, FrameRowIs
<1>7. <<>> \o Items(s1, v[1]) = Items(s1, v[1])
  BY <1>4, ItemsIsRow, NothingAround
<1> HIDE DEF R
<1>8. FrameRow(rhs, v) = Items(s1, v[1]) \o Items(s2, v[2])
  BY <1>5, <1>6, <1>7
<1> QED
  BY <1>2, <1>4, <1>8 DEF rhs

LEMMA TypedThree ==
  ASSUME NEW s1, NEW s2, NEW s3, NEW v, Typed(<<s1, s2, s3>>, v)
  PROVE  /\ Len(v) = 3 /\ HasType(s1, v[1]) /\ HasType(s2, v[2]) /\ HasType(s3, v[3])
         /\ FrameRow(<<s1, s2, s3>>, v) = (Items(s1, v[1]) \o Items(s2, v[2])) \o Items(s3, v[3])
<1> DEFINE rhs == <<s1, s2, s3>>
<1>1. Len(rhs) = 3 /\ rhs[1] = s1 /\ rhs[2] = s2 /\ rhs[3] = s3
  OBVIOUS
<1>2. TypedUpTo(rhs, v) /\ Len(v) = 3
  BY <1>1 DEF Typed
<1> HIDE DEF rhs
<1>3. \A j \in 1 .. 3 : HasType(rhs[j], v[j])
  BY <1>2 DEF TypedUpTo
<1>4. HasType(s1, v[1]) /\ HasType(s2, v[2]) /\ HasType(s3, v[3])
  BY <1>1, <1>3
<1> DEFINE R(k) == RowUpTo(rhs, v, k)
<1>5. /\ R(0) = <<>>
      /\ R(1) = R(0) \o Items(s1, v[1])
      /\ R(2) = R(1) \o Items(s2, v[2])
      /\ R(3) = R(2) \o Items(s3, v[3])
  <2>0. R(0) = <<>>
    BY <1>2, RowUpToNone
  <2>1. R(1) = R(0) \o Items(s1, v[1])
    <3>1. R(0 + 1) = R(0) \o Items(rhs[0 + 1], v[0 + 1])
      <4>1. 0 \in Nat /\ 0 + 1 <= Len(v)
        BY <1>2
      <4> QED
        BY <1>2, <4>1, RowUpToNext
    <3>2. 0 + 1 = 1
      OBVIOUS
    <3> QED
      BY <1>1, <3>1, <3>2
  <2>2. R(2) = R(1) \o Items(s2, v[2])
    <3>1. R(1 + 1) = R(1) \o Items(rhs[1 + 1], v[1 + 1])
      <4>1. 1 \in Nat /\ 1 + 1 <= Len(v)
        BY <1>2
      <4> QED
        BY <1>2, <4>1, RowUpToNext
    <3>2. 1 + 1 = 2
      OBVIOUS
    <3> QED
      BY <1>1, <3>1, <3>2
  <2>3. R(3) = R(2) \o Items(s3, v[3])
    <3>1. R(2 + 1) = R(2) \o Items(rhs[2 + 1], v[2 + 1])
      <4>1. 2 \in Nat /\ 2 + 1 <= Len(v)
        BY <1>2
      <4> QED
        BY <1>2, <4>1, RowUpToNext
    <3>2. 2 + 1 = 3
      OBVIOUS
    <3> QED
      BY <1>1, <3>1, <3>2
  <2> QED
    BY <2>0, <2>1, <2>2, <2>3
<1>6. FrameRow(rhs, v) = R(3)
  BY <1>2, FrameRowIs
<1>7. <<>> \o Items(s1, v[1]) = Items(s1, v[1])
  BY <1>4, ItemsIsRow, NothingAround
<1> HIDE DEF R
<1>8. FrameRow(rhs, v) = (Items(s1, v[1]) \o Items(s2, v[2])) \o Items(s3, v[3])
  BY <1>5, <1>6, <1>7
<1> QED
  BY <1>2, <1>4, <1>8 DEF rhs

LEMMA TypedFour ==
  ASSUME NEW s1, NEW s2, NEW s3, NEW s4, NEW v, Typed(<<s1, s2, s3, s4>>, v)
  PROVE  /\ Len(v) = 4 /\ HasType(s1, v[1]) /\ HasType(s2, v[2]) /\ HasType(s3, v[3]) /\ HasType(s4, v[4])
         /\ FrameRow(<<s1, s2, s3, s4>>, v) = ((Items(s1, v[1]) \o Items(s2, v[2])) \o Items(s3, v[3]))
              \o Items(s4, v[4])
<1> DEFINE rhs == <<s1, s2, s3, s4>>
<1>1. Len(rhs) = 4 /\ rhs[1] = s1 /\ rhs[2] = s2 /\ rhs[3] = s3 /\ rhs[4] = s4
  OBVIOUS
<1>2. TypedUpTo(rhs, v) /\ Len(v) = 4
  BY <1>1 DEF Typed
<1> HIDE DEF rhs
<1>3. \A j \in 1 .. 4 : HasType(rhs[j], v[j])
  BY <1>2 DEF TypedUpTo
<1>4. HasType(s1, v[1]) /\ HasType(s2, v[2]) /\ HasType(s3, v[3]) /\ HasType(s4, v[4])
  BY <1>1, <1>3
<1> DEFINE R(k) == RowUpTo(rhs, v, k)
<1>5. /\ R(0) = <<>>
      /\ R(1) = R(0) \o Items(s1, v[1])
      /\ R(2) = R(1) \o Items(s2, v[2])
      /\ R(3) = R(2) \o Items(s3, v[3])
      /\ R(4) = R(3) \o Items(s4, v[4])
  <2>0. R(0) = <<>>
    BY <1>2, RowUpToNone
  <2>1. R(1) = R(0) \o Items(s1, v[1])
    <3>1. R(0 + 1) = R(0) \o Items(rhs[0 + 1], v[0 + 1])
      <4>1. 0 \in Nat /\ 0 + 1 <= Len(v)
        BY <1>2
      <4> QED
        BY <1>2, <4>1, RowUpToNext
    <3>2. 0 + 1 = 1
      OBVIOUS
    <3> QED
      BY <1>1, <3>1, <3>2
  <2>2. R(2) = R(1) \o Items(s2, v[2])
    <3>1. R(1 + 1) = R(1) \o Items(rhs[1 + 1], v[1 + 1])
      <4>1. 1 \in Nat /\ 1 + 1 <= Len(v)
        BY <1>2
      <4> QED
        BY <1>2, <4>1, RowUpToNext
    <3>2. 1 + 1 = 2
      OBVIOUS
    <3> QED
      BY <1>1, <3>1, <3>2
  <2>3. R(3) = R(2) \o Items(s3, v[3])
    <3>1. R(2 + 1) = R(2) \o Items(rhs[2 + 1], v[2 + 1])
      <4>1. 2 \in Nat /\ 2 + 1 <= Len(v)
        BY <1>2
      <4> QED
        BY <1>2, <4>1, RowUpToNext
    <3>2. 2 + 1 = 3
      OBVIOUS
    <3> QED
      BY <1>1, <3>1, <3>2
  <2>4. R(4) = R(3) \o Items(s4, v[4])
    <3>1. R(3 + 1) = R(3) \o Items(rhs[3 + 1], v[3 + 1])
      <4>1. 3 \in Nat /\ 3 + 1 <= Len(v)
        BY <1>2
      <4> QED
        BY <1>2, <4>1, RowUpToNext
    <3>2. 3 + 1 = 4
      OBVIOUS
    <3> QED
      BY <1>1, <3>1, <3>2
  <2> QED
    BY <2>0, <2>1, <2>2, <2>3, <2>4
<1>6. FrameRow(rhs, v) = R(4)
  BY <1>2, FrameRowIs
<1>7. <<>> \o Items(s1, v[1]) = Items(s1, v[1])
  BY <1>4, ItemsIsRow, NothingAround
<1> HIDE DEF R
<1>8. FrameRow(rhs, v) = ((Items(s1, v[1]) \o Items(s2, v[2])) \o Items(s3, v[3])) \o Items(s4, v[4])
  BY <1>5, <1>6, <1>7
<1> QED
  BY <1>2, <1>4, <1>8 DEF rhs

LEMMA TypedFive ==
  ASSUME NEW s1, NEW s2, NEW s3, NEW s4, NEW s5, NEW v, Typed(<<s1, s2, s3, s4, s5>>, v)
  PROVE  /\ Len(v) = 5 /\ HasType(s1, v[1]) /\ HasType(s2, v[2]) /\ HasType(s3, v[3]) /\ HasType(s4, v[4])
              /\ HasType(s5, v[5])
         /\ FrameRow(<<s1, s2, s3, s4, s5>>, v) = (((Items(s1, v[1]) \o Items(s2, v[2]))
              \o Items(s3, v[3])) \o Items(s4, v[4])) \o Items(s5, v[5])
<1> DEFINE rhs == <<s1, s2, s3, s4, s5>>
<1>1. Len(rhs) = 5 /\ rhs[1] = s1 /\ rhs[2] = s2 /\ rhs[3] = s3 /\ rhs[4] = s4 /\ rhs[5] = s5
  OBVIOUS
<1>2. TypedUpTo(rhs, v) /\ Len(v) = 5
  BY <1>1 DEF Typed
<1> HIDE DEF rhs
<1>3. \A j \in 1 .. 5 : HasType(rhs[j], v[j])
  BY <1>2 DEF TypedUpTo
<1>4. HasType(s1, v[1]) /\ HasType(s2, v[2]) /\ HasType(s3, v[3]) /\ HasType(s4, v[4]) /\ HasType(s5, v[5])
  BY <1>1, <1>3
<1> DEFINE R(k) == RowUpTo(rhs, v, k)
<1>5. /\ R(0) = <<>>
      /\ R(1) = R(0) \o Items(s1, v[1])
      /\ R(2) = R(1) \o Items(s2, v[2])
      /\ R(3) = R(2) \o Items(s3, v[3])
      /\ R(4) = R(3) \o Items(s4, v[4])
      /\ R(5) = R(4) \o Items(s5, v[5])
  <2>0. R(0) = <<>>
    BY <1>2, RowUpToNone
  <2>1. R(1) = R(0) \o Items(s1, v[1])
    <3>1. R(0 + 1) = R(0) \o Items(rhs[0 + 1], v[0 + 1])
      <4>1. 0 \in Nat /\ 0 + 1 <= Len(v)
        BY <1>2
      <4> QED
        BY <1>2, <4>1, RowUpToNext
    <3>2. 0 + 1 = 1
      OBVIOUS
    <3> QED
      BY <1>1, <3>1, <3>2
  <2>2. R(2) = R(1) \o Items(s2, v[2])
    <3>1. R(1 + 1) = R(1) \o Items(rhs[1 + 1], v[1 + 1])
      <4>1. 1 \in Nat /\ 1 + 1 <= Len(v)
        BY <1>2
      <4> QED
        BY <1>2, <4>1, RowUpToNext
    <3>2. 1 + 1 = 2
      OBVIOUS
    <3> QED
      BY <1>1, <3>1, <3>2
  <2>3. R(3) = R(2) \o Items(s3, v[3])
    <3>1. R(2 + 1) = R(2) \o Items(rhs[2 + 1], v[2 + 1])
      <4>1. 2 \in Nat /\ 2 + 1 <= Len(v)
        BY <1>2
      <4> QED
        BY <1>2, <4>1, RowUpToNext
    <3>2. 2 + 1 = 3
      OBVIOUS
    <3> QED
      BY <1>1, <3>1, <3>2
  <2>4. R(4) = R(3) \o Items(s4, v[4])
    <3>1. R(3 + 1) = R(3) \o Items(rhs[3 + 1], v[3 + 1])
      <4>1. 3 \in Nat /\ 3 + 1 <= Len(v)
        BY <1>2
      <4> QED
        BY <1>2, <4>1, RowUpToNext
    <3>2. 3 + 1 = 4
      OBVIOUS
    <3> QED
      BY <1>1, <3>1, <3>2
  <2>5. R(5) = R(4) \o Items(s5, v[5])
    <3>1. R(4 + 1) = R(4) \o Items(rhs[4 + 1], v[4 + 1])
      <4>1. 4 \in Nat /\ 4 + 1 <= Len(v)
        BY <1>2
      <4> QED
        BY <1>2, <4>1, RowUpToNext
    <3>2. 4 + 1 = 5
      OBVIOUS
    <3> QED
      BY <1>1, <3>1, <3>2
  <2> QED
    BY <2>0, <2>1, <2>2, <2>3, <2>4, <2>5
<1>6. FrameRow(rhs, v) = R(5)
  BY <1>2, FrameRowIs
<1>7. <<>> \o Items(s1, v[1]) = Items(s1, v[1])
  BY <1>4, ItemsIsRow, NothingAround
<1> HIDE DEF R
<1>8. FrameRow(rhs, v) = (((Items(s1, v[1]) \o Items(s2, v[2])) \o Items(s3, v[3])) \o Items(s4, v[4]))
        \o Items(s5, v[5])
  BY <1>5, <1>6, <1>7
<1> QED
  BY <1>2, <1>4, <1>8 DEF rhs

LEMMA TypedSix ==
  ASSUME NEW s1, NEW s2, NEW s3, NEW s4, NEW s5, NEW s6, NEW v, Typed(<<s1, s2, s3, s4, s5, s6>>, v)
  PROVE  /\ Len(v) = 6 /\ HasType(s1, v[1]) /\ HasType(s2, v[2]) /\ HasType(s3, v[3]) /\ HasType(s4, v[4])
              /\ HasType(s5, v[5]) /\ HasType(s6, v[6])
         /\ FrameRow(<<s1, s2, s3, s4, s5, s6>>, v) = ((((Items(s1, v[1]) \o Items(s2, v[2]))
              \o Items(s3, v[3])) \o Items(s4, v[4])) \o Items(s5, v[5])) \o Items(s6, v[6])
<1> DEFINE rhs == <<s1, s2, s3, s4, s5, s6>>
<1>1. Len(rhs) = 6 /\ rhs[1] = s1 /\ rhs[2] = s2 /\ rhs[3] = s3 /\ rhs[4] = s4 /\ rhs[5] = s5 /\ rhs[6] = s6
  OBVIOUS
<1>2. TypedUpTo(rhs, v) /\ Len(v) = 6
  BY <1>1 DEF Typed
<1> HIDE DEF rhs
<1>3. \A j \in 1 .. 6 : HasType(rhs[j], v[j])
  BY <1>2 DEF TypedUpTo
<1>4. HasType(s1, v[1]) /\ HasType(s2, v[2]) /\ HasType(s3, v[3]) /\ HasType(s4, v[4]) /\ HasType(s5, v[5])
        /\ HasType(s6, v[6])
  BY <1>1, <1>3
<1> DEFINE R(k) == RowUpTo(rhs, v, k)
<1>5. /\ R(0) = <<>>
      /\ R(1) = R(0) \o Items(s1, v[1])
      /\ R(2) = R(1) \o Items(s2, v[2])
      /\ R(3) = R(2) \o Items(s3, v[3])
      /\ R(4) = R(3) \o Items(s4, v[4])
      /\ R(5) = R(4) \o Items(s5, v[5])
      /\ R(6) = R(5) \o Items(s6, v[6])
  <2>0. R(0) = <<>>
    BY <1>2, RowUpToNone
  <2>1. R(1) = R(0) \o Items(s1, v[1])
    <3>1. R(0 + 1) = R(0) \o Items(rhs[0 + 1], v[0 + 1])
      <4>1. 0 \in Nat /\ 0 + 1 <= Len(v)
        BY <1>2
      <4> QED
        BY <1>2, <4>1, RowUpToNext
    <3>2. 0 + 1 = 1
      OBVIOUS
    <3> QED
      BY <1>1, <3>1, <3>2
  <2>2. R(2) = R(1) \o Items(s2, v[2])
    <3>1. R(1 + 1) = R(1) \o Items(rhs[1 + 1], v[1 + 1])
      <4>1. 1 \in Nat /\ 1 + 1 <= Len(v)
        BY <1>2
      <4> QED
        BY <1>2, <4>1, RowUpToNext
    <3>2. 1 + 1 = 2
      OBVIOUS
    <3> QED
      BY <1>1, <3>1, <3>2
  <2>3. R(3) = R(2) \o Items(s3, v[3])
    <3>1. R(2 + 1) = R(2) \o Items(rhs[2 + 1], v[2 + 1])
      <4>1. 2 \in Nat /\ 2 + 1 <= Len(v)
        BY <1>2
      <4> QED
        BY <1>2, <4>1, RowUpToNext
    <3>2. 2 + 1 = 3
      OBVIOUS
    <3> QED
      BY <1>1, <3>1, <3>2
  <2>4. R(4) = R(3) \o Items(s4, v[4])
    <3>1. R(3 + 1) = R(3) \o Items(rhs[3 + 1], v[3 + 1])
      <4>1. 3 \in Nat /\ 3 + 1 <= Len(v)
        BY <1>2
      <4> QED
        BY <1>2, <4>1, RowUpToNext
    <3>2. 3 + 1 = 4
      OBVIOUS
    <3> QED
      BY <1>1, <3>1, <3>2
  <2>5. R(5) = R(4) \o Items(s5, v[5])
    <3>1. R(4 + 1) = R(4) \o Items(rhs[4 + 1], v[4 + 1])
      <4>1. 4 \in Nat /\ 4 + 1 <= Len(v)
        BY <1>2
      <4> QED
        BY <1>2, <4>1, RowUpToNext
    <3>2. 4 + 1 = 5
      OBVIOUS
    <3> QED
      BY <1>1, <3>1, <3>2
  <2>6. R(6) = R(5) \o Items(s6, v[6])
    <3>1. R(5 + 1) = R(5) \o Items(rhs[5 + 1], v[5 + 1])
      <4>1. 5 \in Nat /\ 5 + 1 <= Len(v)
        BY <1>2
      <4> QED
        BY <1>2, <4>1, RowUpToNext
    <3>2. 5 + 1 = 6
      OBVIOUS
    <3> QED
      BY <1>1, <3>1, <3>2
  <2> QED
    BY <2>0, <2>1, <2>2, <2>3, <2>4, <2>5, <2>6
<1>6. FrameRow(rhs, v) = R(6)
  BY <1>2, FrameRowIs
<1>7. <<>> \o Items(s1, v[1]) = Items(s1, v[1])
  BY <1>4, ItemsIsRow, NothingAround
<1> HIDE DEF R
<1>8. FrameRow(rhs, v) = ((((Items(s1, v[1]) \o Items(s2, v[2])) \o Items(s3, v[3])) \o Items(s4, v[4]))
        \o Items(s5, v[5])) \o Items(s6, v[6])
  BY <1>5, <1>6, <1>7
<1> QED
  BY <1>2, <1>4, <1>8 DEF rhs

LEMMA TypedNine ==
  ASSUME NEW s1, NEW s2, NEW s3, NEW s4, NEW s5, NEW s6, NEW s7, NEW s8, NEW s9, NEW v, Typed(<<s1, s2, s3,
           s4, s5, s6, s7, s8, s9>>, v)
  PROVE  /\ Len(v) = 9 /\ HasType(s1, v[1]) /\ HasType(s2, v[2]) /\ HasType(s3, v[3]) /\ HasType(s4, v[4])
              /\ HasType(s5, v[5]) /\ HasType(s6, v[6]) /\ HasType(s7, v[7]) /\ HasType(s8, v[8])
                   /\ HasType(s9, v[9])
         /\ FrameRow(<<s1, s2, s3, s4, s5, s6, s7, s8, s9>>, v) = (((((((Items(s1, v[1])
              \o Items(s2, v[2])) \o Items(s3, v[3])) \o Items(s4, v[4])) \o Items(s5, v[5]))
                \o Items(s6, v[6])) \o Items(s7, v[7])) \o Items(s8, v[8])) \o Items(s9, v[9])
<1> DEFINE rhs == <<s1, s2, s3, s4, s5, s6, s7, s8, s9>>
<1>1. Len(rhs) = 9 /\ rhs[1] = s1 /\ rhs[2] = s2 /\ rhs[3] = s3 /\ rhs[4] = s4 /\ rhs[5] = s5
        /\ rhs[6] = s6 /\ rhs[7] = s7 /\ rhs[8] = s8 /\ rhs[9] = s9
  OBVIOUS
<1>2. TypedUpTo(rhs, v) /\ Len(v) = 9
  BY <1>1 DEF Typed
<1> HIDE DEF rhs
<1>3. \A j \in 1 .. 9 : HasType(rhs[j], v[j])
  BY <1>2 DEF TypedUpTo
<1>4. HasType(s1, v[1]) /\ HasType(s2, v[2]) /\ HasType(s3, v[3]) /\ HasType(s4, v[4]) /\ HasType(s5, v[5])
        /\ HasType(s6, v[6]) /\ HasType(s7, v[7]) /\ HasType(s8, v[8]) /\ HasType(s9, v[9])
  BY <1>1, <1>3
<1> DEFINE R(k) == RowUpTo(rhs, v, k)
<1>5. /\ R(0) = <<>>
      /\ R(1) = R(0) \o Items(s1, v[1])
      /\ R(2) = R(1) \o Items(s2, v[2])
      /\ R(3) = R(2) \o Items(s3, v[3])
      /\ R(4) = R(3) \o Items(s4, v[4])
      /\ R(5) = R(4) \o Items(s5, v[5])
      /\ R(6) = R(5) \o Items(s6, v[6])
      /\ R(7) = R(6) \o Items(s7, v[7])
      /\ R(8) = R(7) \o Items(s8, v[8])
      /\ R(9) = R(8) \o Items(s9, v[9])
  <2>0. R(0) = <<>>
    BY <1>2, RowUpToNone
  <2>1. R(1) = R(0) \o Items(s1, v[1])
    <3>1. R(0 + 1) = R(0) \o Items(rhs[0 + 1], v[0 + 1])
      <4>1. 0 \in Nat /\ 0 + 1 <= Len(v)
        BY <1>2
      <4> QED
        BY <1>2, <4>1, RowUpToNext
    <3>2. 0 + 1 = 1
      OBVIOUS
    <3> QED
      BY <1>1, <3>1, <3>2
  <2>2. R(2) = R(1) \o Items(s2, v[2])
    <3>1. R(1 + 1) = R(1) \o Items(rhs[1 + 1], v[1 + 1])
      <4>1. 1 \in Nat /\ 1 + 1 <= Len(v)
        BY <1>2
      <4> QED
        BY <1>2, <4>1, RowUpToNext
    <3>2. 1 + 1 = 2
      OBVIOUS
    <3> QED
      BY <1>1, <3>1, <3>2
  <2>3. R(3) = R(2) \o Items(s3, v[3])
    <3>1. R(2 + 1) = R(2) \o Items(rhs[2 + 1], v[2 + 1])
      <4>1. 2 \in Nat /\ 2 + 1 <= Len(v)
        BY <1>2
      <4> QED
        BY <1>2, <4>1, RowUpToNext
    <3>2. 2 + 1 = 3
      OBVIOUS
    <3> QED
      BY <1>1, <3>1, <3>2
  <2>4. R(4) = R(3) \o Items(s4, v[4])
    <3>1. R(3 + 1) = R(3) \o Items(rhs[3 + 1], v[3 + 1])
      <4>1. 3 \in Nat /\ 3 + 1 <= Len(v)
        BY <1>2
      <4> QED
        BY <1>2, <4>1, RowUpToNext
    <3>2. 3 + 1 = 4
      OBVIOUS
    <3> QED
      BY <1>1, <3>1, <3>2
  <2>5. R(5) = R(4) \o Items(s5, v[5])
    <3>1. R(4 + 1) = R(4) \o Items(rhs[4 + 1], v[4 + 1])
      <4>1. 4 \in Nat /\ 4 + 1 <= Len(v)
        BY <1>2
      <4> QED
        BY <1>2, <4>1, RowUpToNext
    <3>2. 4 + 1 = 5
      OBVIOUS
    <3> QED
      BY <1>1, <3>1, <3>2
  <2>6. R(6) = R(5) \o Items(s6, v[6])
    <3>1. R(5 + 1) = R(5) \o Items(rhs[5 + 1], v[5 + 1])
      <4>1. 5 \in Nat /\ 5 + 1 <= Len(v)
        BY <1>2
      <4> QED
        BY <1>2, <4>1, RowUpToNext
    <3>2. 5 + 1 = 6
      OBVIOUS
    <3> QED
      BY <1>1, <3>1, <3>2
  <2>7. R(7) = R(6) \o Items(s7, v[7])
    <3>1. R(6 + 1) = R(6) \o Items(rhs[6 + 1], v[6 + 1])
      <4>1. 6 \in Nat /\ 6 + 1 <= Len(v)
        BY <1>2
      <4> QED
        BY <1>2, <4>1, RowUpToNext
    <3>2. 6 + 1 = 7
      OBVIOUS
    <3> QED
      BY <1>1, <3>1, <3>2
  <2>8. R(8) = R(7) \o Items(s8, v[8])
    <3>1. R(7 + 1) = R(7) \o Items(rhs[7 + 1], v[7 + 1])
      <4>1. 7 \in Nat /\ 7 + 1 <= Len(v)
        BY <1>2
      <4> QED
        BY <1>2, <4>1, RowUpToNext
    <3>2. 7 + 1 = 8
      OBVIOUS
    <3> QED
      BY <1>1, <3>1, <3>2
  <2>9. R(9) = R(8) \o Items(s9, v[9])
    <3>1. R(8 + 1) = R(8) \o Items(rhs[8 + 1], v[8 + 1])
      <4>1. 8 \in Nat /\ 8 + 1 <= Len(v)
        BY <1>2
      <4> QED
        BY <1>2, <4>1, RowUpToNext
    <3>2. 8 + 1 = 9
      OBVIOUS
    <3> QED
      BY <1>1, <3>1, <3>2
  <2> QED
    BY <2>0, <2>1, <2>2, <2>3, <2>4, <2>5, <2>6, <2>7, <2>8, <2>9
<1>6. FrameRow(rhs, v) = R(9)
  BY <1>2, FrameRowIs
<1>7. <<>> \o Items(s1, v[1]) = Items(s1, v[1])
  BY <1>4, ItemsIsRow, NothingAround
<1> HIDE DEF R
<1>8. FrameRow(rhs, v) = (((((((Items(s1, v[1]) \o Items(s2, v[2])) \o Items(s3, v[3])) \o Items(s4, v[4]))
        \o Items(s5, v[5])) \o Items(s6, v[6])) \o Items(s7, v[7])) \o Items(s8, v[8])) \o Items(s9, v[9])
  BY <1>5, <1>6, <1>7
<1> QED
  BY <1>2, <1>4, <1>8 DEF rhs

-----------------------------------------------------------------------------
(* The productions, one by one: what is made has the type of the left side,  *)
(* and it stands for what was read, or is a tree whose parts are.            *)

Made(lhs, rhs, v) ==
  /\ HasType(lhs, Value(lhs, v))
  /\ \/ Items(lhs, Value(lhs, v)) = FrameRow(rhs, v)
     \/ \E x : Items(lhs, Value(lhs, v)) = <<x>> /\ Parts(x) = FrameRow(rhs, v)

Keeps(rule) == \A v : Typed(rule.rhs, v) => Made(rule.lhs, rule.rhs, v)

LEMMA PlainItems ==
  ASSUME NEW s, s \notin Lists, s \notin {"Elsif_Clause", "Else_Clause"}, NEW x
  PROVE  Items(s, x) = <<x>>
BY DEF Items, Lists

LEMMA Words ==
  ASSUME NEW s \in Terminals \ Payload, NEW x, HasType(s, x)
  PROVE  x = Word(s) /\ Items(s, x) = <<Word(s)>>
<1>1. s \notin Lists /\ s \notin {"Elsif_Clause", "Else_Clause"}
  BY DEF Terminals, Payload, Lists
<1>2. x = Word(s)
  BY WordTypes
<1>3. Items(s, x) = <<x>>
  BY <1>1, PlainItems
<1> QED
  BY <1>2, <1>3

LEMMA NotEmpty ==
  ASSUME NEW v, Len(v) # 0
  PROVE  v # <<>>
BY EmptyIsRow

LEMMA WhenMade ==
  ASSUME NEW lhs, NEW rhs, NEW v, NEW x, Value(lhs, v) = x, HasType(lhs, x),
         Items(lhs, x) = FrameRow(rhs, v)
  PROVE  Made(lhs, rhs, v)
BY DEF Made

LEMMA WhenTree ==
  ASSUME NEW lhs, NEW rhs, NEW v, NEW y, NEW x, Value(lhs, v) = y, HasType(lhs, y),
         Items(lhs, y) = <<x>>, Parts(x) = FrameRow(rhs, v)
  PROVE  Made(lhs, rhs, v)
BY DEF Made

\* What was read of a production, by the length of its right side.
ReadOne(s1, v) ==
  Typed(<<s1>>, v) =>
    /\ Len(v) = 1 /\ HasType(s1, v[1])
    /\ FrameRow(<<s1>>, v) = Items(s1, v[1])
LEMMA OneRead == \A s1, v : ReadOne(s1, v)
BY TypedOne DEF ReadOne

ReadTwo(s1, s2, v) ==
  Typed(<<s1, s2>>, v) =>
    /\ Len(v) = 2 /\ HasType(s1, v[1]) /\ HasType(s2, v[2])
    /\ FrameRow(<<s1, s2>>, v) = Items(s1, v[1]) \o Items(s2, v[2])
LEMMA TwoRead == \A s1, s2, v : ReadTwo(s1, s2, v)
BY TypedTwo DEF ReadTwo

ReadThree(s1, s2, s3, v) ==
  Typed(<<s1, s2, s3>>, v) =>
    /\ Len(v) = 3 /\ HasType(s1, v[1]) /\ HasType(s2, v[2]) /\ HasType(s3, v[3])
    /\ FrameRow(<<s1, s2, s3>>, v) = (Items(s1, v[1]) \o Items(s2, v[2])) \o Items(s3, v[3])
LEMMA ThreeRead == \A s1, s2, s3, v : ReadThree(s1, s2, s3, v)
BY TypedThree DEF ReadThree

ReadFour(s1, s2, s3, s4, v) ==
  Typed(<<s1, s2, s3, s4>>, v) =>
    /\ Len(v) = 4 /\ HasType(s1, v[1]) /\ HasType(s2, v[2]) /\ HasType(s3, v[3]) /\ HasType(s4, v[4])
    /\ FrameRow(<<s1, s2, s3, s4>>, v) = ((Items(s1, v[1]) \o Items(s2, v[2])) \o Items(s3, v[3]))
         \o Items(s4, v[4])
LEMMA FourRead == \A s1, s2, s3, s4, v : ReadFour(s1, s2, s3, s4, v)
BY TypedFour DEF ReadFour

ReadFive(s1, s2, s3, s4, s5, v) ==
  Typed(<<s1, s2, s3, s4, s5>>, v) =>
    /\ Len(v) = 5 /\ HasType(s1, v[1]) /\ HasType(s2, v[2]) /\ HasType(s3, v[3]) /\ HasType(s4, v[4])
         /\ HasType(s5, v[5])
    /\ FrameRow(<<s1, s2, s3, s4, s5>>, v) = (((Items(s1, v[1]) \o Items(s2, v[2])) \o Items(s3, v[3]))
         \o Items(s4, v[4])) \o Items(s5, v[5])
LEMMA FiveRead == \A s1, s2, s3, s4, s5, v : ReadFive(s1, s2, s3, s4, s5, v)
BY TypedFive DEF ReadFive

ReadSix(s1, s2, s3, s4, s5, s6, v) ==
  Typed(<<s1, s2, s3, s4, s5, s6>>, v) =>
    /\ Len(v) = 6 /\ HasType(s1, v[1]) /\ HasType(s2, v[2]) /\ HasType(s3, v[3]) /\ HasType(s4, v[4])
         /\ HasType(s5, v[5]) /\ HasType(s6, v[6])
    /\ FrameRow(<<s1, s2, s3, s4, s5, s6>>, v) = ((((Items(s1, v[1]) \o Items(s2, v[2]))
         \o Items(s3, v[3])) \o Items(s4, v[4])) \o Items(s5, v[5])) \o Items(s6, v[6])
LEMMA SixRead == \A s1, s2, s3, s4, s5, s6, v : ReadSix(s1, s2, s3, s4, s5, s6, v)
BY TypedSix DEF ReadSix

ReadNine(s1, s2, s3, s4, s5, s6, s7, s8, s9, v) ==
  Typed(<<s1, s2, s3, s4, s5, s6, s7, s8, s9>>, v) =>
    /\ Len(v) = 9 /\ HasType(s1, v[1]) /\ HasType(s2, v[2]) /\ HasType(s3, v[3]) /\ HasType(s4, v[4])
         /\ HasType(s5, v[5]) /\ HasType(s6, v[6]) /\ HasType(s7, v[7]) /\ HasType(s8, v[8])
              /\ HasType(s9, v[9])
    /\ FrameRow(<<s1, s2, s3, s4, s5, s6, s7, s8, s9>>, v) = (((((((Items(s1, v[1]) \o Items(s2, v[2]))
         \o Items(s3, v[3])) \o Items(s4, v[4])) \o Items(s5, v[5])) \o Items(s6, v[6]))
           \o Items(s7, v[7])) \o Items(s8, v[8])) \o Items(s9, v[9])
LEMMA NineRead == \A s1, s2, s3, s4, s5, s6, s7, s8, s9, v : ReadNine(s1, s2, s3, s4, s5, s6, s7, s8, s9, v)
BY TypedNine DEF ReadNine

-----------------------------------------------------------------------------
(* The parts of each tree, token by token.                                   *)

FunctionDefinitionParts(h, l, b) == <<Word("def"), h, Word(":")>> \o l \o b \o <<Word("end")>>
LEMMA PartsOfFunctionDefinition ==
  ASSUME NEW x, x.node = "FunctionDefinition"
  PROVE  Parts(x) = FunctionDefinitionParts(x.header, x.locals, x.body)
BY DEF Parts, Terminals, Payload, FunctionDefinitionParts

LEMMA FunctionDefinitionApart ==
  ASSUME NEW h, NEW l, NEW b
  PROVE  FunctionDefinitionParts(h, l, b) = ((((<<Word("def")>> \o <<h>>) \o <<Word(":")>>) \o l) \o b)
           \o <<Word("end")>>
<1> DEFINE t == <<Word("def"), h, Word(":")>>
           u == (<<Word("def")>> \o <<h>>) \o <<Word(":")>>
           e == <<Word("end")>>
<1>0. ThreeApart(Word("def"), h, Word(":"))
  BY Triple
<1>1. t = u
  BY <1>0 DEF ThreeApart
<1>2. FunctionDefinitionParts(h, l, b) = ((t \o l) \o b) \o e
  BY DEF FunctionDefinitionParts
<1> HIDE DEF t, u, e
<1>3. FunctionDefinitionParts(h, l, b) = ((u \o l) \o b) \o e
  BY <1>1, <1>2
<1> QED
  BY <1>3 DEF u, e

IfParts(c, b, n) == <<Word("if"), c, Word(":")>> \o b \o Branch(n) \o <<Word("end")>>
LEMMA PartsOfIf ==
  ASSUME NEW x, x.node = "If"
  PROVE  Parts(x) = IfParts(x.condition, x.body, x.next)
BY DEF Parts, Terminals, Payload, IfParts

LEMMA IfApart ==
  ASSUME NEW c, NEW b, NEW n
  PROVE  IfParts(c, b, n) = ((((<<Word("if")>> \o <<c>>) \o <<Word(":")>>) \o b) \o Branch(n))
           \o <<Word("end")>>
<1> DEFINE t == <<Word("if"), c, Word(":")>>
           u == (<<Word("if")>> \o <<c>>) \o <<Word(":")>>
           e == <<Word("end")>>
<1>0. ThreeApart(Word("if"), c, Word(":"))
  BY Triple
<1>1. t = u
  BY <1>0 DEF ThreeApart
<1>2. IfParts(c, b, n) = ((t \o b) \o Branch(n)) \o e
  BY DEF IfParts
<1> HIDE DEF t, u, e
<1>3. IfParts(c, b, n) = ((u \o b) \o Branch(n)) \o e
  BY <1>1, <1>2
<1> QED
  BY <1>3 DEF u, e

VarListParts(t, l) == <<t>> \o Separated(l, ",")
LEMMA PartsOfVarList ==
  ASSUME NEW x, x.node = "VarList"
  PROVE  Parts(x) = VarListParts(x.type, x.ids)
BY DEF Parts, Terminals, Payload, VarListParts

FunctionCallParts(n, l) == <<n, Word("(")>> \o Separated(l, ",") \o <<Word(")")>>
LEMMA PartsOfFunctionCall ==
  ASSUME NEW x, x.node = "FunctionCall"
  PROVE  Parts(x) = FunctionCallParts(x.name, x.params)
BY DEF Parts, Terminals, Payload, FunctionCallParts

LEMMA FunctionCallApart ==
  ASSUME NEW n, NEW l
  PROVE  FunctionCallParts(n, l) = ((<<n>> \o <<Word("(")>>) \o Separated(l, ",")) \o <<Word(")")>>
<1> DEFINE t == <<n, Word("(")>>
           u == <<n>> \o <<Word("(")>>
           e == <<Word(")")>>
<1>0. TwoApart(n, Word("("))
  BY PairApart
<1>1. t = u
  BY <1>0 DEF TwoApart
<1>2. FunctionCallParts(n, l) = (t \o Separated(l, ",")) \o e
  BY DEF FunctionCallParts
<1> HIDE DEF t, u, e
<1>3. FunctionCallParts(n, l) = (u \o Separated(l, ",")) \o e
  BY <1>1, <1>2
<1> QED
  BY <1>3 DEF u, e

ForParts(i, c, s, b) ==
  <<Word("for")>> \o Separated(i, ",") \o <<Word(";"), c, Word(";")>> \o Separated(s, ",") \o <<Word(":")>>
    \o b \o <<Word("end")>>
LEMMA PartsOfFor ==
  ASSUME NEW x, x.node = "For"
  PROVE  Parts(x) = ForParts(x.initializations, x.condition, x.steps, x.body)
BY DEF Parts, Terminals, Payload, ForParts

FunctionDeclarationParts(h) == <<Word("decl"), h>>
LEMMA PartsOfFunctionDeclaration ==
  ASSUME NEW x, x.node = "FunctionDeclaration"
  PROVE  Parts(x) = FunctionDeclarationParts(x.header)
BY DEF Parts, Terminals, Payload, FunctionDeclarationParts

LEMMA FunctionDeclarationApart ==
  ASSUME NEW h
  PROVE  FunctionDeclarationParts(h) = <<Word("decl")>> \o <<h>>
<1>1. TwoApart(Word("decl"), h)
  BY PairApart
<1> QED
  BY <1>1 DEF TwoApart, FunctionDeclarationParts

ArrayParts(t) == <<t, Word("["), Word("]")>>
LEMMA PartsOfArray ==
  ASSUME NEW x, x.node = "TYPE_array"
  PROVE  Parts(x) = ArrayParts(x.of)
BY DEF Parts, Terminals, Payload, ArrayParts

LEMMA ArrayApart ==
  ASSUME NEW t
  PROVE  ArrayParts(t) = (<<t>> \o <<Word("[")>>) \o <<Word("]")>>
<1>1. ThreeApart(t, Word("["), Word("]"))
  BY Triple
<1> QED
  BY <1>1 DEF ThreeApart, ArrayParts

ListParts(t) == <<Word("list"), Word("["), t, Word("]")>>
LEMMA PartsOfList ==
  ASSUME NEW x, x.node = "TYPE_list"
  PROVE  Parts(x) = ListParts(x.of)
BY DEF Parts, Terminals, Payload, ListParts

LEMMA ListApart ==
  ASSUME NEW t
  PROVE  ListParts(t) = ((<<Word("list")>> \o <<Word("[")>>) \o <<t>>) \o <<Word("]")>>
<1>1. FourApart(Word("list"), Word("["), t, Word("]"))
  BY Quadruple
<1> QED
  BY <1>1 DEF FourApart, ListParts

ReturnParts(e) == <<Word("return"), e>>
LEMMA PartsOfReturn ==
  ASSUME NEW x, x.node = "Return"
  PROVE  Parts(x) = ReturnParts(x.expr)
BY DEF Parts, Terminals, Payload, ReturnParts

LEMMA ReturnApart ==
  ASSUME NEW e
  PROVE  ReturnParts(e) = <<Word("return")>> \o <<e>>
<1>1. TwoApart(Word("return"), e)
  BY PairApart
<1> QED
  BY <1>1 DEF TwoApart, ReturnParts

AssignParts(a, e) == <<a, Word(":="), e>>
LEMMA PartsOfAssign ==
  ASSUME NEW x, x.node = "Assign"
  PROVE  Parts(x) = AssignParts(x.atom, x.expr)
BY DEF Parts, Terminals, Payload, AssignParts

LEMMA AssignApart ==
  ASSUME NEW a, NEW e
  PROVE  AssignParts(a, e) = (<<a>> \o <<Word(":=")>>) \o <<e>>
<1>1. ThreeApart(a, Word(":="), e)
  BY Triple
<1> QED
  BY <1>1 DEF ThreeApart, AssignParts

ArrayElementParts(a, e) == <<a, Word("["), e, Word("]")>>
LEMMA PartsOfArrayElement ==
  ASSUME NEW x, x.node = "ArrayElement"
  PROVE  Parts(x) = ArrayElementParts(x.atom, x.expr)
BY DEF Parts, Terminals, Payload, ArrayElementParts

LEMMA ArrayElementApart ==
  ASSUME NEW a, NEW e
  PROVE  ArrayElementParts(a, e) = ((<<a>> \o <<Word("[")>>) \o <<e>>) \o <<Word("]")>>
<1>1. FourApart(a, Word("["), e, Word("]"))
  BY Quadruple
<1> QED
  BY <1>1 DEF FourApart, ArrayElementParts

-----------------------------------------------------------------------------
(* The trees with parts of their own form.                                   *)

LEMMA PartsOfInt ==
  ASSUME NEW x, x.node = "TYPE_int"
  PROVE  Parts(x) = <<Word("int")>>
BY DEF Parts, Terminals, Payload

LEMMA PartsOfSkip ==
  ASSUME NEW x, x.node = "Skip"
  PROVE  Parts(x) = <<Word("skip")>>
BY DEF Parts, Terminals, Payload

LEMMA PartsOfExit ==
  ASSUME NEW x, x.node = "Exit"
  PROVE  Parts(x) = <<Word("exit")>>
BY DEF Parts, Terminals, Payload

HeaderParts(t, i, l) ==
  (IF t = NULL THEN <<>> ELSE <<t>>) \o <<i, Word("(")>> \o Separated(l, ";") \o <<Word(")")>>
LEMMA PartsOfHeader ==
  ASSUME NEW x, x.node = "Header"
  PROVE  Parts(x) = HeaderParts(x.type, x.id, x.formals)
BY DEF Parts, Terminals, Payload, HeaderParts

FormalParts(r, v) ==
  (IF r THEN <<Word("ref")>> ELSE <<>>) \o <<v>>
LEMMA PartsOfFormal ==
  ASSUME NEW x, x.node = "Formal"
  PROVE  Parts(x) = FormalParts(x.isRef, x.vars)
BY DEF Parts, Terminals, Payload, FormalParts

BranchParts(c, b, n) ==
  (IF c = NULL THEN <<Word("else")>> ELSE <<Word("elsif"), c>>) \o <<Word(":")>> \o b \o Branch(n)
LEMMA PartsOfBranch ==
  ASSUME NEW x, x.node = "Branch"
  PROVE  Parts(x) = BranchParts(x.of.condition, x.of.body, x.of.next)
BY DEF Parts, Terminals, Payload, BranchParts

LEMMA RowOfThree ==
  ASSUME NEW x, NEW y, NEW z
  PROVE  IsRow(<<x>> \o <<y>>) /\ IsRow((<<x>> \o <<y>>) \o <<z>>)
<1> DEFINE a == <<x>>
           b == <<y>>
           c == <<z>>
<1>1. IsRow(a) /\ IsRow(b) /\ IsRow(c)
  BY OneIsRow
<1> HIDE DEF a, b, c
<1>2. IsRow(a \o b)
  BY <1>1, ConcatOfRows
<1>3. IsRow((a \o b) \o c)
  BY <1>1, <1>2, ConcatOfRows
<1> QED
  BY <1>2, <1>3 DEF a, b, c

\* Three rows after another, taken apart from their middle.
LEMMA Joint ==
  ASSUME NEW a, NEW b, NEW c, IsRow(a), IsRow(b), IsRow(c), NEW e
  PROVE  (a \o (b \o c)) \o e = ((a \o b) \o c) \o e
BY Associative

LEMMA TypedHeader ==
  ASSUME NEW t, t # NULL, NEW i, NEW l
  PROVE  HeaderParts(t, i, l) = (((<<t>> \o <<i>>) \o <<Word("(")>>) \o Separated(l, ";")) \o <<Word(")")>>
<1> DEFINE h == <<t>>
           p == <<i>>
           q == <<Word("(")>>
           w == <<i, Word("(")>>
           s == Separated(l, ";")
           e == <<Word(")")>>
<1>1. TwoApart(i, Word("("))
  BY PairApart
<1>2. w = p \o q
  BY <1>1 DEF TwoApart
<1>3. HeaderParts(t, i, l) = ((h \o w) \o s) \o e
  BY DEF HeaderParts
<1>4. IsRow(h) /\ IsRow(p) /\ IsRow(q)
  BY OneIsRow
<1> HIDE DEF h, p, q, w, s, e
<1>5. h \o w = (h \o p) \o q
  BY <1>2, <1>4, Associative
<1>6. HeaderParts(t, i, l) = (((h \o p) \o q) \o s) \o e
  BY <1>3, <1>5
<1> QED
  BY <1>6 DEF h, p, q, s, e

LEMMA UntypedHeader ==
  ASSUME NEW i, NEW l
  PROVE  HeaderParts(NULL, i, l) = ((<<i>> \o <<Word("(")>>) \o Separated(l, ";")) \o <<Word(")")>>
<1> DEFINE p == <<i>>
           q == <<Word("(")>>
           w == <<i, Word("(")>>
           s == Separated(l, ";")
           e == <<Word(")")>>
<1>1. TwoApart(i, Word("("))
  BY PairApart
<1>2. w = p \o q
  BY <1>1 DEF TwoApart
<1>3. HeaderParts(NULL, i, l) = ((<<>> \o w) \o s) \o e
  BY DEF HeaderParts
<1>4. IsRow(w)
  BY Pair
<1> HIDE DEF p, q, w, s, e
<1>5. <<>> \o w = w
  BY <1>4, NothingAround
<1>6. HeaderParts(NULL, i, l) = ((p \o q) \o s) \o e
  BY <1>2, <1>3, <1>5
<1> QED
  BY <1>6 DEF p, q, s, e

ElsifText(c, b, n) ==
  c # NULL =>
    BranchParts(c, b, n) = (((<<Word("elsif")>> \o <<c>>) \o <<Word(":")>>) \o b) \o Branch(n)

LEMMA ElsifBranch == \A c, b, n : ElsifText(c, b, n)
<1> SUFFICES ASSUME NEW c, c # NULL, NEW b, NEW n
             PROVE  BranchParts(c, b, n) = (((<<Word("elsif")>> \o <<c>>) \o <<Word(":")>>) \o b)
                      \o Branch(n)
  BY DEF ElsifText
<1> DEFINE t == <<Word("elsif"), c>>
           u == <<Word("elsif")>> \o <<c>>
           s == <<Word(":")>>
<1>1. TwoApart(Word("elsif"), c)
  BY PairApart
<1>2. t = u
  BY <1>1 DEF TwoApart
<1>3. BranchParts(c, b, n) = ((t \o s) \o b) \o Branch(n)
  BY DEF BranchParts
<1> HIDE DEF t, u, s
<1>4. BranchParts(c, b, n) = ((u \o s) \o b) \o Branch(n)
  BY <1>2, <1>3
<1> QED
  BY <1>4 DEF u, s

LEMMA ElseBranch ==
  ASSUME NEW b, IsRow(b)
  PROVE  BranchParts(NULL, b, NULL) = (<<Word("else")>> \o <<Word(":")>>) \o b
<1> DEFINE e == <<Word("else")>>
           s == <<Word(":")>>
<1>1. BranchParts(NULL, b, NULL) = ((e \o s) \o b) \o <<>>
  BY DEF BranchParts, Branch
<1>2. IsRow(e \o s)
  BY RowOfThree
<1> HIDE DEF e, s
<1>3. IsRow((e \o s) \o b)
  BY <1>2, ConcatOfRows
<1>4. BranchParts(NULL, b, NULL) = (e \o s) \o b
  BY <1>1, <1>3, NothingAround
<1> QED
  BY <1>4 DEF e, s

ForText(i, c, s, b) ==
  IsRow(i) =>
    ForParts(i, c, s, b) = (((((((<<Word("for")>> \o Separated(i, ",")) \o <<Word(";")>>) \o <<c>>)
      \o <<Word(";")>>)
      \o Separated(s, ",")) \o <<Word(":")>>) \o b) \o <<Word("end")>>

LEMMA ForApart == \A i, c, s, b : ForText(i, c, s, b)
<1> SUFFICES ASSUME NEW i, IsRow(i), NEW c, NEW s, NEW b PROVE ForText(i, c, s, b)
  BY Zenon DEF ForText
<1> DEFINE f == <<Word("for")>>
           l == Separated(i, ",")
           q == <<Word(";")>>
           d == <<c>>
           m == <<Word(";"), c, Word(";")>>
           r == Separated(s, ",")
           g == <<Word(":")>>
           e == <<Word("end")>>
<1>1. ThreeApart(Word(";"), c, Word(";"))
  BY Triple
<1>2. m = (q \o d) \o q
  BY <1>1 DEF ThreeApart
<1>3. ForParts(i, c, s, b) = (((((f \o l) \o m) \o r) \o g) \o b) \o e
  BY DEF ForParts
<1>4. IsRow(f) /\ IsRow(q) /\ IsRow(d)
  BY OneIsRow
<1>5. IsRow(l)
  BY SeparatedIsRow
<1> HIDE DEF f, l, q, d, m, r, g, e
<1> DEFINE a == f \o l
<1>6. IsRow(a)
  BY <1>4, <1>5, ConcatOfRows
<1>7. IsRow(q \o d)
  BY <1>4, ConcatOfRows
<1> HIDE DEF a
<1>8. a \o ((q \o d) \o q) = (a \o (q \o d)) \o q
  BY <1>4, <1>6, <1>7, Associative
<1>9. a \o (q \o d) = (a \o q) \o d
  BY <1>4, <1>6, Associative
<1>10. a \o m = ((a \o q) \o d) \o q
  BY <1>2, <1>8, <1>9
<1>11. ForParts(i, c, s, b) = ((((a \o m) \o r) \o g) \o b) \o e
  BY <1>3 DEF a
<1>12. ForParts(i, c, s, b) = ((((((a \o q) \o d) \o q) \o r) \o g) \o b) \o e
  BY <1>10, <1>11
<1> QED
  BY <1>12 DEF a, f, l, q, d, r, g, e, ForText

LEMMA TailOfRow ==
  ASSUME NEW v, IsRow(v), v # <<>>
  PROVE  Len(Tail(v)) = Len(v) - 1 /\ \A i \in 1 .. Len(v) - 1 : Tail(v)[i] = v[i + 1]
BY HeadTailProperties DEF IsRow

-----------------------------------------------------------------------------
(* Every production but the first.                                           *)

LEMMA FuncDefRule1 ==
  Keeps(Rule("Func_def", <<"def", "Header", ":", "Func_def_dec", "Stmt_Body", "end">>))
<1> DEFINE rhs == <<"def", "Header", ":", "Func_def_dec", "Stmt_Body", "end">>
<1> SUFFICES ASSUME NEW v, Typed(rhs, v) PROVE Made("Func_def", rhs, v)
  BY DEF Keeps, Rule
<1> DEFINE F == FrameRow(rhs, v)
<1>1. ReadSix("def", "Header", ":", "Func_def_dec", "Stmt_Body", "end", v)
  BY SixRead
<1>2. Len(v) = 6 /\ HasType("def", v[1]) /\ HasType("Header", v[2]) /\ HasType(":", v[3])
        /\ HasType("Func_def_dec", v[4]) /\ HasType("Stmt_Body", v[5]) /\ HasType("end", v[6])
  BY <1>1 DEF ReadSix
<1>3. F = ((((Items("def", v[1]) \o Items("Header", v[2])) \o Items(":", v[3]))
        \o Items("Func_def_dec", v[4])) \o Items("Stmt_Body", v[5])) \o Items("end", v[6])
  BY <1>1 DEF ReadSix
<1> HIDE DEF F, rhs
<1>4. Items("def", v[1]) = <<Word("def")>> /\ Items(":", v[3]) = <<Word(":")>>
        /\ Items("end", v[6]) = <<Word("end")>>
  BY <1>2, Words DEF Terminals, Payload
<1>5. Items("Header", v[2]) = <<v[2]>>
  BY PlainItems DEF Lists
<1>6. Items("Func_def_dec", v[4]) = Reverse(v[4]) /\ Items("Stmt_Body", v[5]) = v[5]
  BY DEF Items
<1>7. F = ((((<<Word("def")>> \o <<v[2]>>) \o <<Word(":")>>) \o Reverse(v[4])) \o v[5]) \o <<Word("end")>>
  BY <1>3, <1>4, <1>5, <1>6
<1>8. Len(v) = 6
  BY <1>2
<1> DEFINE x == [node |-> "FunctionDefinition", header |-> v[2], locals |-> Reverse(v[4]), body |-> v[5]]
<1>10. Value("Func_def", v) = x
  BY <1>8 DEF Value, FuncDef
<1>11. x.node = "FunctionDefinition" /\ x.header = v[2] /\ x.locals = Reverse(v[4]) /\ x.body = v[5]
  OBVIOUS
<1> HIDE DEF x
<1>12. HasType("Func_def", x)
  <2>1. "FunctionDefinition" \in Classes("Func_def")
    BY DEF Classes
  <2> QED
    BY <1>11, <2>1, NodeTypes DEF Lists, Terminals, Payload
<1>13. Items("Func_def", x) = <<x>>
  BY PlainItems DEF Lists
<1>14. Parts(x) = FunctionDefinitionParts(v[2], Reverse(v[4]), v[5])
  BY <1>11, PartsOfFunctionDefinition
<1>15. Parts(x) = F
  <2>1. FunctionDefinitionParts(v[2], Reverse(v[4]), v[5]) = ((((<<Word("def")>> \o <<v[2]>>)
          \o <<Word(":")>>) \o Reverse(v[4])) \o v[5]) \o <<Word("end")>>
    BY FunctionDefinitionApart
  <2> QED
    BY <1>7, <1>14, <2>1
<1> QED
  BY <1>10, <1>12, <1>13, <1>15, WhenTree DEF F

LEMMA FuncDefDecRule1 ==
  Keeps(Rule("Func_def_dec", <<"Func_def", "Func_def_dec">>))
<1> DEFINE rhs == <<"Func_def", "Func_def_dec">>
<1> SUFFICES ASSUME NEW v, Typed(rhs, v) PROVE Made("Func_def_dec", rhs, v)
  BY DEF Keeps, Rule
<1> DEFINE F == FrameRow(rhs, v)
<1>1. ReadTwo("Func_def", "Func_def_dec", v)
  BY TwoRead
<1>2. Len(v) = 2 /\ HasType("Func_def", v[1]) /\ HasType("Func_def_dec", v[2])
  BY <1>1 DEF ReadTwo
<1>3. F = Items("Func_def", v[1]) \o Items("Func_def_dec", v[2])
  BY <1>1 DEF ReadTwo
<1> HIDE DEF F, rhs
<1>5. Items("Func_def", v[1]) = <<v[1]>>
  BY PlainItems DEF Lists
<1>6. Items("Func_def_dec", v[2]) = Reverse(v[2])
  BY DEF Items
<1>7. F = <<v[1]>> \o Reverse(v[2])
  BY <1>3, <1>5, <1>6
<1>8. Len(v) = 2
  BY <1>2
<1>9. Value("Func_def_dec", v) = Append(v[2], v[1])
  <2>1. v # <<>>
    BY <1>8, NotEmpty
  <2> QED
    BY <2>1 DEF Value, FuncDefDec
<1> DEFINE C == Classes("Func_def_dec")
<1>10. HasElements(v[2], C) /\ v[1].node \in C
  <2>1. HasElements(v[2], Classes("Func_def_dec")) /\ v[1].node \in Classes("Func_def")
    BY <1>2, ListTypes, NodeTypes DEF Lists, Terminals, Payload
  <2>2. Classes("Func_def_dec") = C /\ Classes("Func_def") \subseteq C
    BY DEF Classes
  <2> QED
    BY <2>1, <2>2
<1> HIDE DEF C
<1>11. HasElements(Append(v[2], v[1]), C) /\ Reverse(Append(v[2], v[1])) = F
  BY <1>7, <1>10, ListGrows
<1>12. HasType("Func_def_dec", Append(v[2], v[1]))
  BY <1>11, ListTypes DEF Lists, C
<1>13. Items("Func_def_dec", Append(v[2], v[1])) = F
  BY <1>11 DEF Items
<1> QED
  BY <1>9, <1>12, <1>13, WhenMade DEF F

LEMMA FuncDefDecRule2 ==
  Keeps(Rule("Func_def_dec", <<"Func_Decl", "Func_def_dec">>))
<1> DEFINE rhs == <<"Func_Decl", "Func_def_dec">>
<1> SUFFICES ASSUME NEW v, Typed(rhs, v) PROVE Made("Func_def_dec", rhs, v)
  BY DEF Keeps, Rule
<1> DEFINE F == FrameRow(rhs, v)
<1>1. ReadTwo("Func_Decl", "Func_def_dec", v)
  BY TwoRead
<1>2. Len(v) = 2 /\ HasType("Func_Decl", v[1]) /\ HasType("Func_def_dec", v[2])
  BY <1>1 DEF ReadTwo
<1>3. F = Items("Func_Decl", v[1]) \o Items("Func_def_dec", v[2])
  BY <1>1 DEF ReadTwo
<1> HIDE DEF F, rhs
<1>5. Items("Func_Decl", v[1]) = <<v[1]>>
  BY PlainItems DEF Lists
<1>6. Items("Func_def_dec", v[2]) = Reverse(v[2])
  BY DEF Items
<1>7. F = <<v[1]>> \o Reverse(v[2])
  BY <1>3, <1>5, <1>6
<1>8. Len(v) = 2
  BY <1>2
<1>9. Value("Func_def_dec", v) = Append(v[2], v[1])
  <2>1. v # <<>>
    BY <1>8, NotEmpty
  <2> QED
    BY <2>1 DEF Value, FuncDefDec
<1> DEFINE C == Classes("Func_def_dec")
<1>10. HasElements(v[2], C) /\ v[1].node \in C
  <2>1. HasElements(v[2], Classes("Func_def_dec")) /\ v[1].node \in Classes("Func_Decl")
    BY <1>2, ListTypes, NodeTypes DEF Lists, Terminals, Payload
  <2>2. Classes("Func_def_dec") = C /\ Classes("Func_Decl") \subseteq C
    BY DEF Classes
  <2> QED
    BY <2>1, <2>2
<1> HIDE DEF C
<1>11. HasElements(Append(v[2], v[1]), C) /\ Reverse(Append(v[2], v[1])) = F
  BY <1>7, <1>10, ListGrows
<1>12. HasType("Func_def_dec", Append(v[2], v[1]))
  BY <1>11, ListTypes DEF Lists, C
<1>13. Items("Func_def_dec", Append(v[2], v[1])) = F
  BY <1>11 DEF Items
<1> QED
  BY <1>9, <1>12, <1>13, WhenMade DEF F

LEMMA FuncDefDecRule3 ==
  Keeps(Rule("Func_def_dec", <<"Var_Def", "Func_def_dec">>))
<1> DEFINE rhs == <<"Var_Def", "Func_def_dec">>
<1> SUFFICES ASSUME NEW v, Typed(rhs, v) PROVE Made("Func_def_dec", rhs, v)
  BY DEF Keeps, Rule
<1> DEFINE F == FrameRow(rhs, v)
<1>1. ReadTwo("Var_Def", "Func_def_dec", v)
  BY TwoRead
<1>2. Len(v) = 2 /\ HasType("Var_Def", v[1]) /\ HasType("Func_def_dec", v[2])
  BY <1>1 DEF ReadTwo
<1>3. F = Items("Var_Def", v[1]) \o Items("Func_def_dec", v[2])
  BY <1>1 DEF ReadTwo
<1> HIDE DEF F, rhs
<1>5. Items("Var_Def", v[1]) = <<v[1]>>
  BY PlainItems DEF Lists
<1>6. Items("Func_def_dec", v[2]) = Reverse(v[2])
  BY DEF Items
<1>7. F = <<v[1]>> \o Reverse(v[2])
  BY <1>3, <1>5, <1>6
<1>8. Len(v) = 2
  BY <1>2
<1>9. Value("Func_def_dec", v) = Append(v[2], v[1])
  <2>1. v # <<>>
    BY <1>8, NotEmpty
  <2> QED
    BY <2>1 DEF Value, FuncDefDec
<1> DEFINE C == Classes("Func_def_dec")
<1>10. HasElements(v[2], C) /\ v[1].node \in C
  <2>1. HasElements(v[2], Classes("Func_def_dec")) /\ v[1].node \in Classes("Var_Def")
    BY <1>2, ListTypes, NodeTypes DEF Lists, Terminals, Payload
  <2>2. Classes("Func_def_dec") = C /\ Classes("Var_Def") \subseteq C
    BY DEF Classes
  <2> QED
    BY <2>1, <2>2
<1> HIDE DEF C
<1>11. HasElements(Append(v[2], v[1]), C) /\ Reverse(Append(v[2], v[1])) = F
  BY <1>7, <1>10, ListGrows
<1>12. HasType("Func_def_dec", Append(v[2], v[1]))
  BY <1>11, ListTypes DEF Lists, C
<1>13. Items("Func_def_dec", Append(v[2], v[1])) = F
  BY <1>11 DEF Items
<1> QED
  BY <1>9, <1>12, <1>13, WhenMade DEF F

LEMMA FuncDefDecRule4 ==
  Keeps(Rule("Func_def_dec", <<>>))
<1> DEFINE rhs == <<>>
<1> SUFFICES ASSUME NEW v, Typed(rhs, v) PROVE Made("Func_def_dec", rhs, v)
  BY DEF Keeps, Rule
<1>1. v = <<>>
  BY OnlyEmpty, EmptyIsRow DEF Typed, TypedUpTo
<1>2. Value("Func_def_dec", v) = <<>>
  BY <1>1 DEF Value, FuncDefDec
<1>3. HasType("Func_def_dec", <<>>)
  BY EmptyList, ListTypes DEF Lists
<1>4. Items("Func_def_dec", <<>>) = <<>>
  BY ReverseOfNone, PrecededOfNone DEF Items
<1>5. FrameRow(rhs, v) = <<>>
  BY <1>1, FrameRowOfNone
<1> HIDE DEF rhs
<1> QED
  BY <1>2, <1>3, <1>4, <1>5, WhenMade

LEMMA HeaderRule1 ==
  Keeps(Rule("Header", <<"Type", "id", "(", ")">>))
<1> DEFINE rhs == <<"Type", "id", "(", ")">>
<1> SUFFICES ASSUME NEW v, Typed(rhs, v) PROVE Made("Header", rhs, v)
  BY DEF Keeps, Rule
<1> DEFINE F == FrameRow(rhs, v)
<1>1. ReadFour("Type", "id", "(", ")", v)
  BY FourRead
<1>2. Len(v) = 4 /\ HasType("Type", v[1]) /\ HasType("id", v[2]) /\ HasType("(", v[3]) /\ HasType(")", v[4])
  BY <1>1 DEF ReadFour
<1>3. F = ((Items("Type", v[1]) \o Items("id", v[2])) \o Items("(", v[3])) \o Items(")", v[4])
  BY <1>1 DEF ReadFour
<1> HIDE DEF F, rhs
<1>4. Items("(", v[3]) = <<Word("(")>> /\ Items(")", v[4]) = <<Word(")")>>
  BY <1>2, Words DEF Terminals, Payload
<1>5. Items("Type", v[1]) = <<v[1]>> /\ Items("id", v[2]) = <<v[2]>>
  BY PlainItems DEF Lists
<1>7. F = ((<<v[1]>> \o <<v[2]>>) \o <<Word("(")>>) \o <<Word(")")>>
  BY <1>3, <1>4, <1>5
<1>8. Len(v) = 4
  BY <1>2
<1>9. v[1] # NULL
  <2>1. v[1].node \in Classes("Type")
    BY <1>2, NodeTypes DEF Lists, Terminals, Payload
  <2> QED
    BY <2>1 DEF Classes, NULL
<1> DEFINE w == Tail(v)
<1>16. Len(w) = 3 /\ w[1] = v[2]
  <2>0. IsRow(v)
    BY DEF Typed, TypedUpTo
  <2>1. IsRow(v) /\ v # <<>>
    BY <1>8, <2>0, NotEmpty
  <2>2. Len(w) = Len(v) - 1 /\ \A j \in 1 .. Len(v) - 1 : w[j] = v[j + 1]
    BY <2>1, TailOfRow
  <2> HIDE DEF w
  <2> QED
    BY <1>8, <2>2
<1> DEFINE x == [node |-> "Header", type |-> v[1], id |-> v[2], formals |-> <<>>]
<1>10. Value("Header", v) = x
  BY <1>8, <1>16 DEF Value, Header
<1>11. x.node = "Header" /\ x.type = v[1] /\ x.id = v[2] /\ x.formals = <<>>
  OBVIOUS
<1> HIDE DEF x
<1>12. HasType("Header", x)
  <2>1. "Header" \in Classes("Header")
    BY DEF Classes
  <2> QED
    BY <1>11, <2>1, NodeTypes DEF Lists, Terminals, Payload
<1>13. Items("Header", x) = <<x>>
  BY PlainItems DEF Lists
<1>14. Parts(x) = HeaderParts(v[1], v[2], <<>>)
  BY <1>11, PartsOfHeader
<1>15. Parts(x) = F
  <2> DEFINE a == (<<v[1]>> \o <<v[2]>>) \o <<Word("(")>>
             e == <<Word(")")>>
  <2>1. IsRow(a)
    BY RowOfThree
  <2>2. F = a \o e
    BY <1>7
  <2>3. HeaderParts(v[1], v[2], <<>>) = (a \o <<>>) \o e
    BY <1>9, TypedHeader, SeparatedOfNone
  <2> HIDE DEF a, e
  <2>4. a \o <<>> = a
    BY <2>1, NothingAround
  <2> QED
    BY <1>14, <2>2, <2>3, <2>4
<1> QED
  BY <1>10, <1>12, <1>13, <1>15, WhenTree DEF F

LEMMA HeaderRule2 ==
  Keeps(Rule("Header", <<"Type", "id", "(", "Formal", "Par", ")">>))
<1> DEFINE rhs == <<"Type", "id", "(", "Formal", "Par", ")">>
<1> SUFFICES ASSUME NEW v, Typed(rhs, v) PROVE Made("Header", rhs, v)
  BY DEF Keeps, Rule
<1> DEFINE F == FrameRow(rhs, v)
<1>1. ReadSix("Type", "id", "(", "Formal", "Par", ")", v)
  BY SixRead
<1>2. Len(v) = 6 /\ HasType("Type", v[1]) /\ HasType("id", v[2]) /\ HasType("(", v[3])
        /\ HasType("Formal", v[4]) /\ HasType("Par", v[5]) /\ HasType(")", v[6])
  BY <1>1 DEF ReadSix
<1>3. F = ((((Items("Type", v[1]) \o Items("id", v[2])) \o Items("(", v[3])) \o Items("Formal", v[4]))
        \o Items("Par", v[5])) \o Items(")", v[6])
  BY <1>1 DEF ReadSix
<1> HIDE DEF F, rhs
<1>4. Items("(", v[3]) = <<Word("(")>> /\ Items(")", v[6]) = <<Word(")")>>
  BY <1>2, Words DEF Terminals, Payload
<1>5. Items("Type", v[1]) = <<v[1]>> /\ Items("id", v[2]) = <<v[2]>> /\ Items("Formal", v[4]) = <<v[4]>>
  BY PlainItems DEF Lists
<1>6. Items("Par", v[5]) = Preceded(Reverse(v[5]), ";")
  BY DEF Items
<1>7. F = ((((<<v[1]>> \o <<v[2]>>) \o <<Word("(")>>) \o <<v[4]>>) \o Preceded(Reverse(v[5]), ";"))
        \o <<Word(")")>>
  BY <1>3, <1>4, <1>5, <1>6
<1>8. Len(v) = 6
  BY <1>2
<1>9. v[1] # NULL
  <2>1. v[1].node \in Classes("Type")
    BY <1>2, NodeTypes DEF Lists, Terminals, Payload
  <2> QED
    BY <2>1 DEF Classes, NULL
<1> DEFINE w == Tail(v)
<1>16. Len(w) = 5 /\ w[1] = v[2] /\ w[3] = v[4] /\ w[4] = v[5]
  <2>0. IsRow(v)
    BY DEF Typed, TypedUpTo
  <2>1. IsRow(v) /\ v # <<>>
    BY <1>8, <2>0, NotEmpty
  <2>2. Len(w) = Len(v) - 1 /\ \A j \in 1 .. Len(v) - 1 : w[j] = v[j + 1]
    BY <2>1, TailOfRow
  <2> HIDE DEF w
  <2> QED
    BY <1>8, <2>2
<1> DEFINE x == [node |-> "Header", type |-> v[1], id |-> v[2], formals |-> Reverse(Append(v[5], v[4]))]
<1>10. Value("Header", v) = x
  <2>1. Value("Header", v) = Header(v)
    BY DEF Value
  <2>2. Len(v) \in {4, 6} /\ Len(w) # 3
    BY <1>8, <1>16
  <2>3. Header(v) = [node |-> "Header", type |-> v[1], id |-> w[1], formals |-> Reverse(Append(w[4], w[3]))]
    BY <2>2 DEF Header
  <2> HIDE DEF w
  <2>4. Reverse(Append(w[4], w[3])) = Reverse(Append(v[5], v[4])) /\ w[1] = v[2]
    BY <1>16
  <2> QED
    BY <2>1, <2>3, <2>4
<1>11. x.node = "Header" /\ x.type = v[1] /\ x.id = v[2] /\ x.formals = Reverse(Append(v[5], v[4]))
  OBVIOUS
<1> HIDE DEF x
<1>12. HasType("Header", x)
  <2>1. "Header" \in Classes("Header")
    BY DEF Classes
  <2> QED
    BY <1>11, <2>1, NodeTypes DEF Lists, Terminals, Payload
<1>13. Items("Header", x) = <<x>>
  BY PlainItems DEF Lists
<1>14. Parts(x) = HeaderParts(v[1], v[2], Reverse(Append(v[5], v[4])))
  BY <1>11, PartsOfHeader
<1>15. Parts(x) = F
  <2> DEFINE a == (<<v[1]>> \o <<v[2]>>) \o <<Word("(")>>
             e == <<Word(")")>>
             f == <<v[4]>>
             r == Preceded(Reverse(v[5]), ";")
  <2> DEFINE C == Classes("Par")
  <2>1. HasElements(v[5], C) /\ v[4].node \in C
    <3>1. HasElements(v[5], Classes("Par")) /\ v[4].node \in Classes("Formal")
      BY <1>2, ListTypes, NodeTypes DEF Lists, Terminals, Payload
    <3>2. Classes("Formal") = C
      BY DEF Classes
    <3> QED
      BY <3>1, <3>2
  <2> HIDE DEF C
  <2>2. Separated(Reverse(Append(v[5], v[4])), ";") = f \o r
    BY <2>1, ListGrows
  <2>3. IsRow(r)
    <3>1. IsRow(Reverse(v[5]))
      BY <2>1, ListGrows
    <3> QED
      BY <3>1, PrecededIsRow
  <2>4. IsRow(a) /\ IsRow(f)
    BY RowOfThree, OneIsRow
  <2>5. F = ((a \o f) \o r) \o e
    BY <1>7
  <2>6. HeaderParts(v[1], v[2], Reverse(Append(v[5], v[4]))) = (a
          \o Separated(Reverse(Append(v[5], v[4])), ";")) \o e
    BY <1>9, TypedHeader
  <2> HIDE DEF a, e, f, r
  <2>7. (a \o (f \o r)) \o e = ((a \o f) \o r) \o e
    BY <2>3, <2>4, Joint
  <2> QED
    BY <1>14, <2>2, <2>5, <2>6, <2>7
<1> QED
  BY <1>10, <1>12, <1>13, <1>15, WhenTree DEF F

LEMMA HeaderRule3 ==
  Keeps(Rule("Header", <<"id", "(", ")">>))
<1> DEFINE rhs == <<"id", "(", ")">>
<1> SUFFICES ASSUME NEW v, Typed(rhs, v) PROVE Made("Header", rhs, v)
  BY DEF Keeps, Rule
<1> DEFINE F == FrameRow(rhs, v)
<1>1. ReadThree("id", "(", ")", v)
  BY ThreeRead
<1>2. Len(v) = 3 /\ HasType("id", v[1]) /\ HasType("(", v[2]) /\ HasType(")", v[3])
  BY <1>1 DEF ReadThree
<1>3. F = (Items("id", v[1]) \o Items("(", v[2])) \o Items(")", v[3])
  BY <1>1 DEF ReadThree
<1> HIDE DEF F, rhs
<1>4. Items("(", v[2]) = <<Word("(")>> /\ Items(")", v[3]) = <<Word(")")>>
  BY <1>2, Words DEF Terminals, Payload
<1>5. Items("id", v[1]) = <<v[1]>>
  BY PlainItems DEF Lists
<1>7. F = (<<v[1]>> \o <<Word("(")>>) \o <<Word(")")>>
  BY <1>3, <1>4, <1>5
<1>8. Len(v) = 3
  BY <1>2
<1> DEFINE x == [node |-> "Header", type |-> NULL, id |-> v[1], formals |-> <<>>]
<1>10. Value("Header", v) = x
  BY <1>8 DEF Value, Header
<1>11. x.node = "Header" /\ x.type = NULL /\ x.id = v[1] /\ x.formals = <<>>
  OBVIOUS
<1> HIDE DEF x
<1>12. HasType("Header", x)
  <2>1. "Header" \in Classes("Header")
    BY DEF Classes
  <2> QED
    BY <1>11, <2>1, NodeTypes DEF Lists, Terminals, Payload
<1>13. Items("Header", x) = <<x>>
  BY PlainItems DEF Lists
<1>14. Parts(x) = HeaderParts(NULL, v[1], <<>>)
  BY <1>11, PartsOfHeader
<1>15. Parts(x) = F
  <2> DEFINE a == <<v[1]>> \o <<Word("(")>>
             e == <<Word(")")>>
  <2>1. IsRow(a)
    BY RowOfThree
  <2>2. F = a \o e
    BY <1>7
  <2>3. HeaderParts(NULL, v[1], <<>>) = (a \o <<>>) \o e
    BY UntypedHeader, SeparatedOfNone
  <2> HIDE DEF a, e
  <2>4. a \o <<>> = a
    BY <2>1, NothingAround
  <2> QED
    BY <1>14, <2>2, <2>3, <2>4
<1> QED
  BY <1>10, <1>12, <1>13, <1>15, WhenTree DEF F

LEMMA HeaderRule4 ==
  Keeps(Rule("Header", <<"id", "(", "Formal", "Par", ")">>))
<1> DEFINE rhs == <<"id", "(", "Formal", "Par", ")">>
<1> SUFFICES ASSUME NEW v, Typed(rhs, v) PROVE Made("Header", rhs, v)
  BY DEF Keeps, Rule
<1> DEFINE F == FrameRow(rhs, v)
<1>1. ReadFive("id", "(", "Formal", "Par", ")", v)
  BY FiveRead
<1>2. Len(v) = 5 /\ HasType("id", v[1]) /\ HasType("(", v[2]) /\ HasType("Formal", v[3])
        /\ HasType("Par", v[4]) /\ HasType(")", v[5])
  BY <1>1 DEF ReadFive
<1>3. F = (((Items("id", v[1]) \o Items("(", v[2])) \o Items("Formal", v[3])) \o Items("Par", v[4]))
        \o Items(")", v[5])
  BY <1>1 DEF ReadFive
<1> HIDE DEF F, rhs
<1>4. Items("(", v[2]) = <<Word("(")>> /\ Items(")", v[5]) = <<Word(")")>>
  BY <1>2, Words DEF Terminals, Payload
<1>5. Items("id", v[1]) = <<v[1]>> /\ Items("Formal", v[3]) = <<v[3]>>
  BY PlainItems DEF Lists
<1>6. Items("Par", v[4]) = Preceded(Reverse(v[4]), ";")
  BY DEF Items
<1>7. F = (((<<v[1]>> \o <<Word("(")>>) \o <<v[3]>>) \o Preceded(Reverse(v[4]), ";")) \o <<Word(")")>>
  BY <1>3, <1>4, <1>5, <1>6
<1>8. Len(v) = 5
  BY <1>2
<1> DEFINE x == [node |-> "Header", type |-> NULL, id |-> v[1], formals |-> Reverse(Append(v[4], v[3]))]
<1>10. Value("Header", v) = x
  BY <1>8 DEF Value, Header
<1>11. x.node = "Header" /\ x.type = NULL /\ x.id = v[1] /\ x.formals = Reverse(Append(v[4], v[3]))
  OBVIOUS
<1> HIDE DEF x
<1>12. HasType("Header", x)
  <2>1. "Header" \in Classes("Header")
    BY DEF Classes
  <2> QED
    BY <1>11, <2>1, NodeTypes DEF Lists, Terminals, Payload
<1>13. Items("Header", x) = <<x>>
  BY PlainItems DEF Lists
<1>14. Parts(x) = HeaderParts(NULL, v[1], Reverse(Append(v[4], v[3])))
  BY <1>11, PartsOfHeader
<1>15. Parts(x) = F
  <2> DEFINE a == <<v[1]>> \o <<Word("(")>>
             e == <<Word(")")>>
             f == <<v[3]>>
             r == Preceded(Reverse(v[4]), ";")
  <2> DEFINE C == Classes("Par")
  <2>1. HasElements(v[4], C) /\ v[3].node \in C
    <3>1. HasElements(v[4], Classes("Par")) /\ v[3].node \in Classes("Formal")
      BY <1>2, ListTypes, NodeTypes DEF Lists, Terminals, Payload
    <3>2. Classes("Formal") = C
      BY DEF Classes
    <3> QED
      BY <3>1, <3>2
  <2> HIDE DEF C
  <2>2. Separated(Reverse(Append(v[4], v[3])), ";") = f \o r
    BY <2>1, ListGrows
  <2>3. IsRow(r)
    <3>1. IsRow(Reverse(v[4]))
      BY <2>1, ListGrows
    <3> QED
      BY <3>1, PrecededIsRow
  <2>4. IsRow(a) /\ IsRow(f)
    BY RowOfThree, OneIsRow
  <2>5. F = ((a \o f) \o r) \o e
    BY <1>7
  <2>6. HeaderParts(NULL, v[1], Reverse(Append(v[4], v[3]))) = (a
          \o Separated(Reverse(Append(v[4], v[3])), ";")) \o e
    BY UntypedHeader
  <2> HIDE DEF a, e, f, r
  <2>7. (a \o (f \o r)) \o e = ((a \o f) \o r) \o e
    BY <2>3, <2>4, Joint
  <2> QED
    BY <1>14, <2>2, <2>5, <2>6, <2>7
<1> QED
  BY <1>10, <1>12, <1>13, <1>15, WhenTree DEF F

LEMMA FuncDeclRule1 ==
  Keeps(Rule("Func_Decl", <<"decl", "Header">>))
<1> DEFINE rhs == <<"decl", "Header">>
<1> SUFFICES ASSUME NEW v, Typed(rhs, v) PROVE Made("Func_Decl", rhs, v)
  BY DEF Keeps, Rule
<1> DEFINE F == FrameRow(rhs, v)
<1>1. ReadTwo("decl", "Header", v)
  BY TwoRead
<1>2. Len(v) = 2 /\ HasType("decl", v[1]) /\ HasType("Header", v[2])
  BY <1>1 DEF ReadTwo
<1>3. F = Items("decl", v[1]) \o Items("Header", v[2])
  BY <1>1 DEF ReadTwo
<1> HIDE DEF F, rhs
<1>4. Items("decl", v[1]) = <<Word("decl")>>
  BY <1>2, Words DEF Terminals, Payload
<1>5. Items("Header", v[2]) = <<v[2]>>
  BY PlainItems DEF Lists
<1>7. F = <<Word("decl")>> \o <<v[2]>>
  BY <1>3, <1>4, <1>5
<1>8. Len(v) = 2
  BY <1>2
<1> DEFINE x == [node |-> "FunctionDeclaration", header |-> v[2]]
<1>10. Value("Func_Decl", v) = x
  BY <1>8 DEF Value
<1>11. x.node = "FunctionDeclaration" /\ x.header = v[2]
  OBVIOUS
<1> HIDE DEF x
<1>12. HasType("Func_Decl", x)
  <2>1. "FunctionDeclaration" \in Classes("Func_Decl")
    BY DEF Classes
  <2> QED
    BY <1>11, <2>1, NodeTypes DEF Lists, Terminals, Payload
<1>13. Items("Func_Decl", x) = <<x>>
  BY PlainItems DEF Lists
<1>14. Parts(x) = FunctionDeclarationParts(v[2])
  BY <1>11, PartsOfFunctionDeclaration
<1>15. Parts(x) = F
  <2>1. FunctionDeclarationParts(v[2]) = <<Word("decl")>> \o <<v[2]>>
    BY FunctionDeclarationApart
  <2> QED
    BY <1>7, <1>14, <2>1
<1> QED
  BY <1>10, <1>12, <1>13, <1>15, WhenTree DEF F

LEMMA ParRule1 ==
  Keeps(Rule("Par", <<";", "Formal", "Par">>))
<1> DEFINE rhs == <<";", "Formal", "Par">>
<1> SUFFICES ASSUME NEW v, Typed(rhs, v) PROVE Made("Par", rhs, v)
  BY DEF Keeps, Rule
<1> DEFINE F == FrameRow(rhs, v)
<1>1. ReadThree(";", "Formal", "Par", v)
  BY ThreeRead
<1>2. Len(v) = 3 /\ HasType(";", v[1]) /\ HasType("Formal", v[2]) /\ HasType("Par", v[3])
  BY <1>1 DEF ReadThree
<1>3. F = (Items(";", v[1]) \o Items("Formal", v[2])) \o Items("Par", v[3])
  BY <1>1 DEF ReadThree
<1> HIDE DEF F, rhs
<1>4. Items(";", v[1]) = <<Word(";")>>
  BY <1>2, Words DEF Terminals, Payload
<1>5. Items("Formal", v[2]) = <<v[2]>>
  BY PlainItems DEF Lists
<1>6. Items("Par", v[3]) = Preceded(Reverse(v[3]), ";")
  BY DEF Items
<1>7. F = (<<Word(";")>> \o <<v[2]>>) \o Preceded(Reverse(v[3]), ";")
  BY <1>3, <1>4, <1>5, <1>6
<1>8. Len(v) = 3
  BY <1>2
<1>9. Value("Par", v) = Append(v[3], v[2])
  <2>1. v # <<>>
    BY <1>8, NotEmpty
  <2> QED
    BY <2>1 DEF Value, Par
<1> DEFINE C == Classes("Par")
<1>10. HasElements(v[3], C) /\ v[2].node \in C
  <2>1. HasElements(v[3], Classes("Par")) /\ v[2].node \in Classes("Formal")
    BY <1>2, ListTypes, NodeTypes DEF Lists, Terminals, Payload
  <2>2. Classes("Par") = C /\ Classes("Formal") \subseteq C
    BY DEF Classes
  <2> QED
    BY <2>1, <2>2
<1> HIDE DEF C
<1>11. HasElements(Append(v[3], v[2]), C) /\ Preceded(Reverse(Append(v[3], v[2])), ";") = F
  BY <1>7, <1>10, ListGrows
<1>12. HasType("Par", Append(v[3], v[2]))
  BY <1>11, ListTypes DEF Lists, C
<1>13. Items("Par", Append(v[3], v[2])) = F
  BY <1>11 DEF Items
<1> QED
  BY <1>9, <1>12, <1>13, WhenMade DEF F

LEMMA ParRule2 ==
  Keeps(Rule("Par", <<>>))
<1> DEFINE rhs == <<>>
<1> SUFFICES ASSUME NEW v, Typed(rhs, v) PROVE Made("Par", rhs, v)
  BY DEF Keeps, Rule
<1>1. v = <<>>
  BY OnlyEmpty, EmptyIsRow DEF Typed, TypedUpTo
<1>2. Value("Par", v) = <<>>
  BY <1>1 DEF Value, Par
<1>3. HasType("Par", <<>>)
  BY EmptyList, ListTypes DEF Lists
<1>4. Items("Par", <<>>) = <<>>
  BY ReverseOfNone, PrecededOfNone DEF Items
<1>5. FrameRow(rhs, v) = <<>>
  BY <1>1, FrameRowOfNone
<1> HIDE DEF rhs
<1> QED
  BY <1>2, <1>3, <1>4, <1>5, WhenMade

LEMMA FormalRule1 ==
  Keeps(Rule("Formal", <<"ref", "Var_Def">>))
<1> DEFINE rhs == <<"ref", "Var_Def">>
<1> SUFFICES ASSUME NEW v, Typed(rhs, v) PROVE Made("Formal", rhs, v)
  BY DEF Keeps, Rule
<1> DEFINE F == FrameRow(rhs, v)
<1>1. ReadTwo("ref", "Var_Def", v)
  BY TwoRead
<1>2. Len(v) = 2 /\ HasType("ref", v[1]) /\ HasType("Var_Def", v[2])
  BY <1>1 DEF ReadTwo
<1>3. F = Items("ref", v[1]) \o Items("Var_Def", v[2])
  BY <1>1 DEF ReadTwo
<1> HIDE DEF F, rhs
<1>4. Items("ref", v[1]) = <<Word("ref")>>
  BY <1>2, Words DEF Terminals, Payload
<1>5. Items("Var_Def", v[2]) = <<v[2]>>
  BY PlainItems DEF Lists
<1>7. F = <<Word("ref")>> \o <<v[2]>>
  BY <1>3, <1>4, <1>5
<1>8. Len(v) = 2
  BY <1>2
<1> DEFINE x == [node |-> "Formal", isRef |-> TRUE, vars |-> v[2]]
<1>10. Value("Formal", v) = x
  BY <1>8 DEF Value, Formal, Last
<1>11. x.node = "Formal" /\ x.isRef = TRUE /\ x.vars = v[2]
  OBVIOUS
<1> HIDE DEF x
<1>12. HasType("Formal", x)
  <2>1. "Formal" \in Classes("Formal")
    BY DEF Classes
  <2> QED
    BY <1>11, <2>1, NodeTypes DEF Lists, Terminals, Payload
<1>13. Items("Formal", x) = <<x>>
  BY PlainItems DEF Lists
<1>14. Parts(x) = FormalParts(TRUE, v[2])
  BY <1>11, PartsOfFormal
<1>15. Parts(x) = F
  <2>1. FormalParts(TRUE, v[2]) = <<Word("ref")>> \o <<v[2]>>
    BY DEF FormalParts
  <2> QED
    BY <1>7, <1>14, <2>1
<1> QED
  BY <1>10, <1>12, <1>13, <1>15, WhenTree DEF F

LEMMA FormalRule2 ==
  Keeps(Rule("Formal", <<"Var_Def">>))
<1> DEFINE rhs == <<"Var_Def">>
<1> SUFFICES ASSUME NEW v, Typed(rhs, v) PROVE Made("Formal", rhs, v)
  BY DEF Keeps, Rule
<1> DEFINE F == FrameRow(rhs, v)
<1>1. ReadOne("Var_Def", v)
  BY OneRead
<1>2. Len(v) = 1 /\ HasType("Var_Def", v[1])
  BY <1>1 DEF ReadOne
<1>3. F = Items("Var_Def", v[1])
  BY <1>1 DEF ReadOne
<1> HIDE DEF F, rhs
<1>5. Items("Var_Def", v[1]) = <<v[1]>>
  BY PlainItems DEF Lists
<1>7. F = <<v[1]>>
  BY <1>3, <1>5
<1>8. Len(v) = 1
  BY <1>2
<1> DEFINE x == [node |-> "Formal", isRef |-> FALSE, vars |-> v[1]]
<1>10. Value("Formal", v) = x
  <2>1. (Len(v) = 2) = FALSE /\ Last(v) = v[1]
    BY <1>8 DEF Last
  <2> QED
    BY <2>1 DEF Value, Formal
<1>11. x.node = "Formal" /\ x.isRef = FALSE /\ x.vars = v[1]
  OBVIOUS
<1> HIDE DEF x
<1>12. HasType("Formal", x)
  <2>1. "Formal" \in Classes("Formal")
    BY DEF Classes
  <2> QED
    BY <1>11, <2>1, NodeTypes DEF Lists, Terminals, Payload
<1>13. Items("Formal", x) = <<x>>
  BY PlainItems DEF Lists
<1>14. Parts(x) = FormalParts(FALSE, v[1])
  BY <1>11, PartsOfFormal
<1>15. Parts(x) = F
  <2> DEFINE a == <<v[1]>>
  <2>1. FormalParts(FALSE, v[1]) = <<>> \o a
    BY DEF FormalParts
  <2>2. IsRow(a)
    BY OneIsRow
  <2>3. F = a
    BY <1>7
  <2> HIDE DEF a
  <2> QED
    BY <1>14, <2>1, <2>2, <2>3, NothingAround
<1> QED
  BY <1>10, <1>12, <1>13, <1>15, WhenTree DEF F

LEMMA VarDefRule1 ==
  Keeps(Rule("Var_Def", <<"Type", "id", "Var_Comma">>))
<1> DEFINE rhs == <<"Type", "id", "Var_Comma">>
<1> SUFFICES ASSUME NEW v, Typed(rhs, v) PROVE Made("Var_Def", rhs, v)
  BY DEF Keeps, Rule
<1> DEFINE F == FrameRow(rhs, v)
<1>1. ReadThree("Type", "id", "Var_Comma", v)
  BY ThreeRead
<1>2. Len(v) = 3 /\ HasType("Type", v[1]) /\ HasType("id", v[2]) /\ HasType("Var_Comma", v[3])
  BY <1>1 DEF ReadThree
<1>3. F = (Items("Type", v[1]) \o Items("id", v[2])) \o Items("Var_Comma", v[3])
  BY <1>1 DEF ReadThree
<1> HIDE DEF F, rhs
<1>5. Items("Type", v[1]) = <<v[1]>> /\ Items("id", v[2]) = <<v[2]>>
  BY PlainItems DEF Lists
<1>6. Items("Var_Comma", v[3]) = Preceded(Reverse(v[3]), ",")
  BY DEF Items
<1>7. F = (<<v[1]>> \o <<v[2]>>) \o Preceded(Reverse(v[3]), ",")
  BY <1>3, <1>5, <1>6
<1>8. Len(v) = 3
  BY <1>2
<1> DEFINE x == [node |-> "VarList", type |-> v[1], ids |-> Reverse(Append(v[3], v[2]))]
<1>10. Value("Var_Def", v) = x
  BY <1>8 DEF Value, VarDef
<1>11. x.node = "VarList" /\ x.type = v[1] /\ x.ids = Reverse(Append(v[3], v[2]))
  OBVIOUS
<1> HIDE DEF x
<1>12. HasType("Var_Def", x)
  <2>1. "VarList" \in Classes("Var_Def")
    BY DEF Classes
  <2> QED
    BY <1>11, <2>1, NodeTypes DEF Lists, Terminals, Payload
<1>13. Items("Var_Def", x) = <<x>>
  BY PlainItems DEF Lists
<1>14. Parts(x) = VarListParts(v[1], Reverse(Append(v[3], v[2])))
  BY <1>11, PartsOfVarList
<1>15. Parts(x) = F
  <2> DEFINE t == <<v[1]>>
             i == <<v[2]>>
             r == Preceded(Reverse(v[3]), ",")
             C == Classes("Var_Comma")
  <2>1. HasElements(v[3], C) /\ v[2].node \in C
    <3>1. HasElements(v[3], Classes("Var_Comma")) /\ v[2].node \in Classes("id")
      BY <1>2, ListTypes, NodeTypes DEF Lists, Terminals, Payload
    <3>2. Classes("id") = C
      BY DEF Classes
    <3> QED
      BY <3>1, <3>2
  <2> HIDE DEF C
  <2>2. Separated(Reverse(Append(v[3], v[2])), ",") = i \o r
    BY <2>1, ListGrows
  <2>3. IsRow(r)
    <3>1. IsRow(Reverse(v[3]))
      BY <2>1, ListGrows
    <3> QED
      BY <3>1, PrecededIsRow
  <2>4. IsRow(t) /\ IsRow(i)
    BY OneIsRow
  <2>5. F = (t \o i) \o r
    BY <1>7
  <2>6. Parts(x) = t \o Separated(Reverse(Append(v[3], v[2])), ",")
    BY <1>14 DEF VarListParts
  <2> HIDE DEF t, i, r
  <2>7. (t \o i) \o r = t \o (i \o r)
    BY <2>3, <2>4, Associative
  <2> QED
    BY <2>2, <2>5, <2>6, <2>7
<1> QED
  BY <1>10, <1>12, <1>13, <1>15, WhenTree DEF F

LEMMA VarCommaRule1 ==
  Keeps(Rule("Var_Comma", <<>>))
<1> DEFINE rhs == <<>>
<1> SUFFICES ASSUME NEW v, Typed(rhs, v) PROVE Made("Var_Comma", rhs, v)
  BY DEF Keeps, Rule
<1>1. v = <<>>
  BY OnlyEmpty, EmptyIsRow DEF Typed, TypedUpTo
<1>2. Value("Var_Comma", v) = <<>>
  BY <1>1 DEF Value, VarComma
<1>3. HasType("Var_Comma", <<>>)
  BY EmptyList, ListTypes DEF Lists
<1>4. Items("Var_Comma", <<>>) = <<>>
  BY ReverseOfNone, PrecededOfNone DEF Items
<1>5. FrameRow(rhs, v) = <<>>
  BY <1>1, FrameRowOfNone
<1> HIDE DEF rhs
<1> QED
  BY <1>2, <1>3, <1>4, <1>5, WhenMade

LEMMA VarCommaRule2 ==
  Keeps(Rule("Var_Comma", <<",", "id", "Var_Comma">>))
<1> DEFINE rhs == <<",", "id", "Var_Comma">>
<1> SUFFICES ASSUME NEW v, Typed(rhs, v) PROVE Made("Var_Comma", rhs, v)
  BY DEF Keeps, Rule
<1> DEFINE F == FrameRow(rhs, v)
<1>1. ReadThree(",", "id", "Var_Comma", v)
  BY ThreeRead
<1>2. Len(v) = 3 /\ HasType(",", v[1]) /\ HasType("id", v[2]) /\ HasType("Var_Comma", v[3])
  BY <1>1 DEF ReadThree
<1>3. F = (Items(",", v[1]) \o Items("id", v[2])) \o Items("Var_Comma", v[3])
  BY <1>1 DEF ReadThree
<1> HIDE DEF F, rhs
<1>4. Items(",", v[1]) = <<Word(",")>>
  BY <1>2, Words DEF Terminals, Payload
<1>5. Items("id", v[2]) = <<v[2]>>
  BY PlainItems DEF Lists
<1>6. Items("Var_Comma", v[3]) = Preceded(Reverse(v[3]), ",")
  BY DEF Items
<1>7. F = (<<Word(",")>> \o <<v[2]>>) \o Preceded(Reverse(v[3]), ",")
  BY <1>3, <1>4, <1>5, <1>6
<1>8. Len(v) = 3
  BY <1>2
<1>9. Value("Var_Comma", v) = Append(v[3], v[2])
  <2>1. v # <<>>
    BY <1>8, NotEmpty
  <2> QED
    BY <2>1 DEF Value, VarComma
<1> DEFINE C == Classes("Var_Comma")
<1>10. HasElements(v[3], C) /\ v[2].node \in C
  <2>1. HasElements(v[3], Classes("Var_Comma")) /\ v[2].node \in Classes("id")
    BY <1>2, ListTypes, NodeTypes DEF Lists, Terminals, Payload
  <2>2. Classes("Var_Comma") = C /\ Classes("id") \subseteq C
    BY DEF Classes
  <2> QED
    BY <2>1, <2>2
<1> HIDE DEF C
<1>11. HasElements(Append(v[3], v[2]), C) /\ Preceded(Reverse(Append(v[3], v[2])), ",") = F
  BY <1>7, <1>10, ListGrows
<1>12. HasType("Var_Comma", Append(v[3], v[2]))
  BY <1>11, ListTypes DEF Lists, C
<1>13. Items("Var_Comma", Append(v[3], v[2])) = F
  BY <1>11 DEF Items
<1> QED
  BY <1>9, <1>12, <1>13, WhenMade DEF F

LEMMA TypeRule1 ==
  Keeps(Rule("Type", <<"int">>))
<1> DEFINE rhs == <<"int">>
<1> SUFFICES ASSUME NEW v, Typed(rhs, v) PROVE Made("Type", rhs, v)
  BY DEF Keeps, Rule
<1> DEFINE F == FrameRow(rhs, v)
<1>1. ReadOne("int", v)
  BY OneRead
<1>2. Len(v) = 1 /\ HasType("int", v[1])
  BY <1>1 DEF ReadOne
<1>3. F = Items("int", v[1])
  BY <1>1 DEF ReadOne
<1> HIDE DEF F, rhs
<1>4. Items("int", v[1]) = <<Word("int")>>
  BY <1>2, Words DEF Terminals, Payload
<1>7. F = <<Word("int")>>
  BY <1>3, <1>4
<1>8. Len(v) = 1
  BY <1>2
<1> DEFINE x == [node |-> "TYPE_int"]
<1>10. Value("Type", v) = x
  BY <1>8 DEF Value, Type
<1>11. x.node = "TYPE_int"
  OBVIOUS
<1> HIDE DEF x
<1>12. HasType("Type", x)
  <2>1. "TYPE_int" \in Classes("Type")
    BY DEF Classes
  <2> QED
    BY <1>11, <2>1, NodeTypes DEF Lists, Terminals, Payload
<1>13. Items("Type", x) = <<x>>
  BY PlainItems DEF Lists
<1>14. Parts(x) = <<Word("int")>>
  BY <1>11, PartsOfInt
<1>15. Parts(x) = F
  BY <1>7, <1>14
<1> QED
  BY <1>10, <1>12, <1>13, <1>15, WhenTree DEF F

LEMMA TypeRule2 ==
  Keeps(Rule("Type", <<"Type", "[", "]">>))
<1> DEFINE rhs == <<"Type", "[", "]">>
<1> SUFFICES ASSUME NEW v, Typed(rhs, v) PROVE Made("Type", rhs, v)
  BY DEF Keeps, Rule
<1> DEFINE F == FrameRow(rhs, v)
<1>1. ReadThree("Type", "[", "]", v)
  BY ThreeRead
<1>2. Len(v) = 3 /\ HasType("Type", v[1]) /\ HasType("[", v[2]) /\ HasType("]", v[3])
  BY <1>1 DEF ReadThree
<1>3. F = (Items("Type", v[1]) \o Items("[", v[2])) \o Items("]", v[3])
  BY <1>1 DEF ReadThree
<1> HIDE DEF F, rhs
<1>4. Items("[", v[2]) = <<Word("[")>> /\ Items("]", v[3]) = <<Word("]")>>
  BY <1>2, Words DEF Terminals, Payload
<1>5. Items("Type", v[1]) = <<v[1]>>
  BY PlainItems DEF Lists
<1>7. F = (<<v[1]>> \o <<Word("[")>>) \o <<Word("]")>>
  BY <1>3, <1>4, <1>5
<1>8. Len(v) = 3
  BY <1>2
<1> DEFINE x == [node |-> "TYPE_array", of |-> v[1]]
<1>10. Value("Type", v) = x
  BY <1>8 DEF Value, Type
<1>11. x.node = "TYPE_array" /\ x.of = v[1]
  OBVIOUS
<1> HIDE DEF x
<1>12. HasType("Type", x)
  <2>1. "TYPE_array" \in Classes("Type")
    BY DEF Classes
  <2> QED
    BY <1>11, <2>1, NodeTypes DEF Lists, Terminals, Payload
<1>13. Items("Type", x) = <<x>>
  BY PlainItems DEF Lists
<1>14. Parts(x) = ArrayParts(v[1])
  BY <1>11, PartsOfArray
<1>15. Parts(x) = F
  <2>1. ArrayParts(v[1]) = (<<v[1]>> \o <<Word("[")>>) \o <<Word("]")>>
    BY ArrayApart
  <2> QED
    BY <1>7, <1>14, <2>1
<1> QED
  BY <1>10, <1>12, <1>13, <1>15, WhenTree DEF F

LEMMA TypeRule3 ==
  Keeps(Rule("Type", <<"list", "[", "Type", "]">>))
<1> DEFINE rhs == <<"list", "[", "Type", "]">>
<1> SUFFICES ASSUME NEW v, Typed(rhs, v) PROVE Made("Type", rhs, v)
  BY DEF Keeps, Rule
<1> DEFINE F == FrameRow(rhs, v)
<1>1. ReadFour("list", "[", "Type", "]", v)
  BY FourRead
<1>2. Len(v) = 4 /\ HasType("list", v[1]) /\ HasType("[", v[2]) /\ HasType("Type", v[3])
        /\ HasType("]", v[4])
  BY <1>1 DEF ReadFour
<1>3. F = ((Items("list", v[1]) \o Items("[", v[2])) \o Items("Type", v[3])) \o Items("]", v[4])
  BY <1>1 DEF ReadFour
<1> HIDE DEF F, rhs
<1>4. Items("list", v[1]) = <<Word("list")>> /\ Items("[", v[2]) = <<Word("[")>>
        /\ Items("]", v[4]) = <<Word("]")>>
  BY <1>2, Words DEF Terminals, Payload
<1>5. Items("Type", v[3]) = <<v[3]>>
  BY PlainItems DEF Lists
<1>7. F = ((<<Word("list")>> \o <<Word("[")>>) \o <<v[3]>>) \o <<Word("]")>>
  BY <1>3, <1>4, <1>5
<1>8. Len(v) = 4
  BY <1>2
<1> DEFINE x == [node |-> "TYPE_list", of |-> v[3]]
<1>10. Value("Type", v) = x
  BY <1>8 DEF Value, Type
<1>11. x.node = "TYPE_list" /\ x.of = v[3]
  OBVIOUS
<1> HIDE DEF x
<1>12. HasType("Type", x)
  <2>1. "TYPE_list" \in Classes("Type")
    BY DEF Classes
  <2> QED
    BY <1>11, <2>1, NodeTypes DEF Lists, Terminals, Payload
<1>13. Items("Type", x) = <<x>>
  BY PlainItems DEF Lists
<1>14. Parts(x) = ListParts(v[3])
  BY <1>11, PartsOfList
<1>15. Parts(x) = F
  <2>1. ListParts(v[3]) = ((<<Word("list")>> \o <<Word("[")>>) \o <<v[3]>>) \o <<Word("]")>>
    BY ListApart
  <2> QED
    BY <1>7, <1>14, <2>1
<1> QED
  BY <1>10, <1>12, <1>13, <1>15, WhenTree DEF F

LEMMA StmtRule1 ==
  Keeps(Rule("Stmt", <<"Simple">>))
<1> DEFINE rhs == <<"Simple">>
<1> SUFFICES ASSUME NEW v, Typed(rhs, v) PROVE Made("Stmt", rhs, v)
  BY DEF Keeps, Rule
<1> DEFINE F == FrameRow(rhs, v)
<1>1. ReadOne("Simple", v)
  BY OneRead
<1>2. Len(v) = 1 /\ HasType("Simple", v[1])
  BY <1>1 DEF ReadOne
<1>3. F = Items("Simple", v[1])
  BY <1>1 DEF ReadOne
<1> HIDE DEF F, rhs
<1>5. Items("Simple", v[1]) = <<v[1]>>
  BY PlainItems DEF Lists
<1>7. F = <<v[1]>>
  BY <1>3, <1>5
<1>8. Len(v) = 1
  BY <1>2
<1>9. v[1].node \in Classes("Simple")
  BY <1>2, NodeTypes DEF Lists, Terminals, Payload
<1>10. v[1].node \in Classes("Stmt") /\ v[1].node \notin {"exit", "skip"}
  BY <1>9 DEF Classes
<1>11. Value("Stmt", v) = v[1]
  BY <1>8, <1>10 DEF Value, Stmt
<1>12. HasType("Stmt", v[1])
  BY <1>10, NodeTypes DEF Lists, Terminals, Payload
<1>13. Items("Stmt", v[1]) = <<v[1]>>
  BY PlainItems DEF Lists
<1> QED
  BY <1>7, <1>11, <1>12, <1>13, WhenMade DEF F

LEMMA StmtRule2 ==
  Keeps(Rule("Stmt", <<"exit">>))
<1> DEFINE rhs == <<"exit">>
<1> SUFFICES ASSUME NEW v, Typed(rhs, v) PROVE Made("Stmt", rhs, v)
  BY DEF Keeps, Rule
<1> DEFINE F == FrameRow(rhs, v)
<1>1. ReadOne("exit", v)
  BY OneRead
<1>2. Len(v) = 1 /\ HasType("exit", v[1])
  BY <1>1 DEF ReadOne
<1>3. F = Items("exit", v[1])
  BY <1>1 DEF ReadOne
<1> HIDE DEF F, rhs
<1>4. Items("exit", v[1]) = <<Word("exit")>>
  BY <1>2, Words DEF Terminals, Payload
<1>7. F = <<Word("exit")>>
  BY <1>3, <1>4
<1>8. Len(v) = 1
  BY <1>2
<1>9. v[1].node = "exit"
  <2>1. "exit" \in Terminals \ Payload
    BY DEF Terminals, Payload
  <2>2. v[1] = Word("exit")
    BY <1>2, <2>1, WordTypes
  <2> QED
    BY <2>2 DEF Word
<1> DEFINE x == [node |-> "Exit"]
<1>10. Value("Stmt", v) = x
  BY <1>8, <1>9 DEF Value, Stmt
<1>11. x.node = "Exit"
  OBVIOUS
<1> HIDE DEF x
<1>12. HasType("Stmt", x)
  <2>1. "Exit" \in Classes("Stmt")
    BY DEF Classes
  <2> QED
    BY <1>11, <2>1, NodeTypes DEF Lists, Terminals, Payload
<1>13. Items("Stmt", x) = <<x>>
  BY PlainItems DEF Lists
<1>14. Parts(x) = <<Word("exit")>>
  BY <1>11, PartsOfExit
<1>15. Parts(x) = F
  BY <1>7, <1>14
<1> QED
  BY <1>10, <1>12, <1>13, <1>15, WhenTree DEF F

LEMMA StmtRule3 ==
  Keeps(Rule("Stmt", <<"return", "Expr">>))
<1> DEFINE rhs == <<"return", "Expr">>
<1> SUFFICES ASSUME NEW v, Typed(rhs, v) PROVE Made("Stmt", rhs, v)
  BY DEF Keeps, Rule
<1> DEFINE F == FrameRow(rhs, v)
<1>1. ReadTwo("return", "Expr", v)
  BY TwoRead
<1>2. Len(v) = 2 /\ HasType("return", v[1]) /\ HasType("Expr", v[2])
  BY <1>1 DEF ReadTwo
<1>3. F = Items("return", v[1]) \o Items("Expr", v[2])
  BY <1>1 DEF ReadTwo
<1> HIDE DEF F, rhs
<1>4. Items("return", v[1]) = <<Word("return")>>
  BY <1>2, Words DEF Terminals, Payload
<1>5. Items("Expr", v[2]) = <<v[2]>>
  BY PlainItems DEF Lists
<1>7. F = <<Word("return")>> \o <<v[2]>>
  BY <1>3, <1>4, <1>5
<1>8. Len(v) = 2
  BY <1>2
<1> DEFINE x == [node |-> "Return", expr |-> v[2]]
<1>10. Value("Stmt", v) = x
  BY <1>8 DEF Value, Stmt
<1>11. x.node = "Return" /\ x.expr = v[2]
  OBVIOUS
<1> HIDE DEF x
<1>12. HasType("Stmt", x)
  <2>1. "Return" \in Classes("Stmt")
    BY DEF Classes
  <2> QED
    BY <1>11, <2>1, NodeTypes DEF Lists, Terminals, Payload
<1>13. Items("Stmt", x) = <<x>>
  BY PlainItems DEF Lists
<1>14. Parts(x) = ReturnParts(v[2])
  BY <1>11, PartsOfReturn
<1>15. Parts(x) = F
  <2>1. ReturnParts(v[2]) = <<Word("return")>> \o <<v[2]>>
    BY ReturnApart
  <2> QED
    BY <1>7, <1>14, <2>1
<1> QED
  BY <1>10, <1>12, <1>13, <1>15, WhenTree DEF F

LEMMA StmtRule4 ==
  Keeps(Rule("Stmt", <<"If_Clause">>))
<1> DEFINE rhs == <<"If_Clause">>
<1> SUFFICES ASSUME NEW v, Typed(rhs, v) PROVE Made("Stmt", rhs, v)
  BY DEF Keeps, Rule
<1> DEFINE F == FrameRow(rhs, v)
<1>1. ReadOne("If_Clause", v)
  BY OneRead
<1>2. Len(v) = 1 /\ HasType("If_Clause", v[1])
  BY <1>1 DEF ReadOne
<1>3. F = Items("If_Clause", v[1])
  BY <1>1 DEF ReadOne
<1> HIDE DEF F, rhs
<1>5. Items("If_Clause", v[1]) = <<v[1]>>
  BY PlainItems DEF Lists
<1>7. F = <<v[1]>>
  BY <1>3, <1>5
<1>8. Len(v) = 1
  BY <1>2
<1>9. v[1].node \in Classes("If_Clause")
  BY <1>2, NodeTypes DEF Lists, Terminals, Payload
<1>10. v[1].node \in Classes("Stmt") /\ v[1].node \notin {"exit", "skip"}
  BY <1>9 DEF Classes
<1>11. Value("Stmt", v) = v[1]
  BY <1>8, <1>10 DEF Value, Stmt
<1>12. HasType("Stmt", v[1])
  BY <1>10, NodeTypes DEF Lists, Terminals, Payload
<1>13. Items("Stmt", v[1]) = <<v[1]>>
  BY PlainItems DEF Lists
<1> QED
  BY <1>7, <1>11, <1>12, <1>13, WhenMade DEF F

LEMMA StmtRule5 ==
  Keeps(Rule("Stmt", <<"For_Clause">>))
<1> DEFINE rhs == <<"For_Clause">>
<1> SUFFICES ASSUME NEW v, Typed(rhs, v) PROVE Made("Stmt", rhs, v)
  BY DEF Keeps, Rule
<1> DEFINE F == FrameRow(rhs, v)
<1>1. ReadOne("For_Clause", v)
  BY OneRead
<1>2. Len(v) = 1 /\ HasType("For_Clause", v[1])
  BY <1>1 DEF ReadOne
<1>3. F = Items("For_Clause", v[1])
  BY <1>1 DEF ReadOne
<1> HIDE DEF F, rhs
<1>5. Items("For_Clause", v[1]) = <<v[1]>>
  BY PlainItems DEF Lists
<1>7. F = <<v[1]>>
  BY <1>3, <1>5
<1>8. Len(v) = 1
  BY <1>2
<1>9. v[1].node \in Classes("For_Clause")
  BY <1>2, NodeTypes DEF Lists, Terminals, Payload
<1>10. v[1].node \in Classes("Stmt") /\ v[1].node \notin {"exit", "skip"}
  BY <1>9 DEF Classes
<1>11. Value("Stmt", v) = v[1]
  BY <1>8, <1>10 DEF Value, Stmt
<1>12. HasType("Stmt", v[1])
  BY <1>10, NodeTypes DEF Lists, Terminals, Payload
<1>13. Items("Stmt", v[1]) = <<v[1]>>
  BY PlainItems DEF Lists
<1> QED
  BY <1>7, <1>11, <1>12, <1>13, WhenMade DEF F

LEMMA StmtBodyRule1 ==
  Keeps(Rule("Stmt_Body", <<"Stmt", "Stmt_Full">>))
<1> DEFINE rhs == <<"Stmt", "Stmt_Full">>
<1> SUFFICES ASSUME NEW v, Typed(rhs, v) PROVE Made("Stmt_Body", rhs, v)
  BY DEF Keeps, Rule
<1> DEFINE F == FrameRow(rhs, v)
<1>1. ReadTwo("Stmt", "Stmt_Full", v)
  BY TwoRead
<1>2. Len(v) = 2 /\ HasType("Stmt", v[1]) /\ HasType("Stmt_Full", v[2])
  BY <1>1 DEF ReadTwo
<1>3. F = Items("Stmt", v[1]) \o Items("Stmt_Full", v[2])
  BY <1>1 DEF ReadTwo
<1> HIDE DEF F, rhs
<1>5. Items("Stmt", v[1]) = <<v[1]>>
  BY PlainItems DEF Lists
<1>6. Items("Stmt_Full", v[2]) = Reverse(v[2])
  BY DEF Items
<1>7. F = <<v[1]>> \o Reverse(v[2])
  BY <1>3, <1>5, <1>6
<1>8. Len(v) = 2
  BY <1>2
<1>9. Value("Stmt_Body", v) = Reverse(Append(v[2], v[1]))
  <2>1. v # <<>>
    BY <1>8, NotEmpty
  <2> QED
    BY <2>1 DEF Value, StmtBody
<1> DEFINE C == Classes("Stmt_Body")
<1>10. HasElements(v[2], C) /\ v[1].node \in C
  <2>1. HasElements(v[2], Classes("Stmt_Full")) /\ v[1].node \in Classes("Stmt")
    BY <1>2, ListTypes, NodeTypes DEF Lists, Terminals, Payload
  <2>2. Classes("Stmt_Full") = C /\ Classes("Stmt") \subseteq C
    BY DEF Classes
  <2> QED
    BY <2>1, <2>2
<1> HIDE DEF C
<1>11. HasElements(Reverse(Append(v[2], v[1])), C) /\ Reverse(Append(v[2], v[1])) = F
  BY <1>7, <1>10, ListGrows
<1>12. HasType("Stmt_Body", Reverse(Append(v[2], v[1])))
  BY <1>11, ListTypes DEF Lists, C
<1>13. Items("Stmt_Body", Reverse(Append(v[2], v[1]))) = F
  BY <1>11 DEF Items
<1> QED
  BY <1>9, <1>12, <1>13, WhenMade DEF F

LEMMA StmtFullRule1 ==
  Keeps(Rule("Stmt_Full", <<"Stmt", "Stmt_Full">>))
<1> DEFINE rhs == <<"Stmt", "Stmt_Full">>
<1> SUFFICES ASSUME NEW v, Typed(rhs, v) PROVE Made("Stmt_Full", rhs, v)
  BY DEF Keeps, Rule
<1> DEFINE F == FrameRow(rhs, v)
<1>1. ReadTwo("Stmt", "Stmt_Full", v)
  BY TwoRead
<1>2. Len(v) = 2 /\ HasType("Stmt", v[1]) /\ HasType("Stmt_Full", v[2])
  BY <1>1 DEF ReadTwo
<1>3. F = Items("Stmt", v[1]) \o Items("Stmt_Full", v[2])
  BY <1>1 DEF ReadTwo
<1> HIDE DEF F, rhs
<1>5. Items("Stmt", v[1]) = <<v[1]>>
  BY PlainItems DEF Lists
<1>6. Items("Stmt_Full", v[2]) = Reverse(v[2])
  BY DEF Items
<1>7. F = <<v[1]>> \o Reverse(v[2])
  BY <1>3, <1>5, <1>6
<1>8. Len(v) = 2
  BY <1>2
<1>9. Value("Stmt_Full", v) = Append(v[2], v[1])
  <2>1. v # <<>>
    BY <1>8, NotEmpty
  <2> QED
    BY <2>1 DEF Value, StmtFull
<1> DEFINE C == Classes("Stmt_Full")
<1>10. HasElements(v[2], C) /\ v[1].node \in C
  <2>1. HasElements(v[2], Classes("Stmt_Full")) /\ v[1].node \in Classes("Stmt")
    BY <1>2, ListTypes, NodeTypes DEF Lists, Terminals, Payload
  <2>2. Classes("Stmt_Full") = C /\ Classes("Stmt") \subseteq C
    BY DEF Classes
  <2> QED
    BY <2>1, <2>2
<1> HIDE DEF C
<1>11. HasElements(Append(v[2], v[1]), C) /\ Reverse(Append(v[2], v[1])) = F
  BY <1>7, <1>10, ListGrows
<1>12. HasType("Stmt_Full", Append(v[2], v[1]))
  BY <1>11, ListTypes DEF Lists, C
<1>13. Items("Stmt_Full", Append(v[2], v[1])) = F
  BY <1>11 DEF Items
<1> QED
  BY <1>9, <1>12, <1>13, WhenMade DEF F

LEMMA StmtFullRule2 ==
  Keeps(Rule("Stmt_Full", <<>>))
<1> DEFINE rhs == <<>>
<1> SUFFICES ASSUME NEW v, Typed(rhs, v) PROVE Made("Stmt_Full", rhs, v)
  BY DEF Keeps, Rule
<1>1. v = <<>>
  BY OnlyEmpty, EmptyIsRow DEF Typed, TypedUpTo
<1>2. Value("Stmt_Full", v) = <<>>
  BY <1>1 DEF Value, StmtFull
<1>3. HasType("Stmt_Full", <<>>)
  BY EmptyList, ListTypes DEF Lists
<1>4. Items("Stmt_Full", <<>>) = <<>>
  BY ReverseOfNone, PrecededOfNone DEF Items
<1>5. FrameRow(rhs, v) = <<>>
  BY <1>1, FrameRowOfNone
<1> HIDE DEF rhs
<1> QED
  BY <1>2, <1>3, <1>4, <1>5, WhenMade

LEMMA IfClauseRule1 ==
  Keeps(Rule("If_Clause", <<"if", "Expr", ":", "Stmt_Body", "Elsif_Clause", "end">>))
<1> DEFINE rhs == <<"if", "Expr", ":", "Stmt_Body", "Elsif_Clause", "end">>
<1> SUFFICES ASSUME NEW v, Typed(rhs, v) PROVE Made("If_Clause", rhs, v)
  BY DEF Keeps, Rule
<1> DEFINE F == FrameRow(rhs, v)
<1>1. ReadSix("if", "Expr", ":", "Stmt_Body", "Elsif_Clause", "end", v)
  BY SixRead
<1>2. Len(v) = 6 /\ HasType("if", v[1]) /\ HasType("Expr", v[2]) /\ HasType(":", v[3])
        /\ HasType("Stmt_Body", v[4]) /\ HasType("Elsif_Clause", v[5]) /\ HasType("end", v[6])
  BY <1>1 DEF ReadSix
<1>3. F = ((((Items("if", v[1]) \o Items("Expr", v[2])) \o Items(":", v[3])) \o Items("Stmt_Body", v[4]))
        \o Items("Elsif_Clause", v[5])) \o Items("end", v[6])
  BY <1>1 DEF ReadSix
<1> HIDE DEF F, rhs
<1>4. Items("if", v[1]) = <<Word("if")>> /\ Items(":", v[3]) = <<Word(":")>>
        /\ Items("end", v[6]) = <<Word("end")>>
  BY <1>2, Words DEF Terminals, Payload
<1>5. Items("Expr", v[2]) = <<v[2]>>
  BY PlainItems DEF Lists
<1>6. Items("Stmt_Body", v[4]) = v[4] /\ Items("Elsif_Clause", v[5]) = Branch(v[5])
  BY DEF Items
<1>7. F = ((((<<Word("if")>> \o <<v[2]>>) \o <<Word(":")>>) \o v[4]) \o Branch(v[5])) \o <<Word("end")>>
  BY <1>3, <1>4, <1>5, <1>6
<1>8. Len(v) = 6
  BY <1>2
<1> DEFINE x == [node |-> "If", condition |-> v[2], body |-> v[4], next |-> v[5]]
<1>10. Value("If_Clause", v) = x
  BY <1>8 DEF Value, IfClause, If
<1>11. x.node = "If" /\ x.condition = v[2] /\ x.body = v[4] /\ x.next = v[5]
  OBVIOUS
<1> HIDE DEF x
<1>12. HasType("If_Clause", x)
  <2>1. "If" \in Classes("If_Clause")
    BY DEF Classes
  <2> QED
    BY <1>11, <2>1, NodeTypes DEF Lists, Terminals, Payload
<1>13. Items("If_Clause", x) = <<x>>
  BY PlainItems DEF Lists
<1>14. Parts(x) = IfParts(v[2], v[4], v[5])
  BY <1>11, PartsOfIf
<1>15. Parts(x) = F
  <2>1. IfParts(v[2], v[4], v[5]) = ((((<<Word("if")>> \o <<v[2]>>) \o <<Word(":")>>) \o v[4])
          \o Branch(v[5])) \o <<Word("end")>>
    BY IfApart
  <2> QED
    BY <1>7, <1>14, <2>1
<1> QED
  BY <1>10, <1>12, <1>13, <1>15, WhenTree DEF F

LEMMA ElsifClauseRule1 ==
  Keeps(Rule("Elsif_Clause", <<"elsif", "Expr", ":", "Stmt_Body", "Elsif_Clause">>))
<1> DEFINE rhs == <<"elsif", "Expr", ":", "Stmt_Body", "Elsif_Clause">>
<1> SUFFICES ASSUME NEW v, Typed(rhs, v) PROVE Made("Elsif_Clause", rhs, v)
  BY DEF Keeps, Rule
<1> DEFINE F == FrameRow(rhs, v)
<1>1. ReadFive("elsif", "Expr", ":", "Stmt_Body", "Elsif_Clause", v)
  BY FiveRead
<1>2. Len(v) = 5 /\ HasType("elsif", v[1]) /\ HasType("Expr", v[2]) /\ HasType(":", v[3])
        /\ HasType("Stmt_Body", v[4]) /\ HasType("Elsif_Clause", v[5])
  BY <1>1 DEF ReadFive
<1>3. F = (((Items("elsif", v[1]) \o Items("Expr", v[2])) \o Items(":", v[3])) \o Items("Stmt_Body", v[4]))
        \o Items("Elsif_Clause", v[5])
  BY <1>1 DEF ReadFive
<1> HIDE DEF F, rhs
<1>4. Items("elsif", v[1]) = <<Word("elsif")>> /\ Items(":", v[3]) = <<Word(":")>>
  BY <1>2, Words DEF Terminals, Payload
<1>5. Items("Expr", v[2]) = <<v[2]>>
  BY PlainItems DEF Lists
<1>6. Items("Stmt_Body", v[4]) = v[4] /\ Items("Elsif_Clause", v[5]) = Branch(v[5])
  BY DEF Items
<1>7. F = (((<<Word("elsif")>> \o <<v[2]>>) \o <<Word(":")>>) \o v[4]) \o Branch(v[5])
  BY <1>3, <1>4, <1>5, <1>6
<1>8. Len(v) = 5
  BY <1>2
<1>9. v[2] # NULL
  <2>1. v[2].node \in Classes("Expr")
    BY <1>2, NodeTypes DEF Lists, Terminals, Payload
  <2> QED
    BY <2>1 DEF Classes, NULL
<1> DEFINE y == [node |-> "If", condition |-> v[2], body |-> v[4], next |-> v[5]]
           x == [node |-> "Branch", of |-> y]
<1>10. Value("Elsif_Clause", v) = y
  BY <1>8 DEF Value, ElsifClause, If
<1>11. y.node = "If" /\ y.condition = v[2] /\ y.body = v[4] /\ y.next = v[5] /\ y # NULL
  BY DEF NULL
<1> HIDE DEF y
<1>12. x.node = "Branch" /\ x.of = y
  OBVIOUS
<1>13. Items("Elsif_Clause", y) = <<x>>
  BY <1>11 DEF Items, Branch
<1> HIDE DEF x
<1>14. HasType("Elsif_Clause", y)
  <2>1. "If" \in Classes("Elsif_Clause")
    BY DEF Classes
  <2> QED
    BY <1>11, <2>1, NodeTypes DEF Lists, Terminals, Payload
<1>15. Parts(x) = F
  <2>0. ElsifText(v[2], v[4], v[5])
    BY ElsifBranch
  <2>1. Parts(x) = BranchParts(v[2], v[4], v[5])
    BY <1>11, <1>12, PartsOfBranch
  <2>2. BranchParts(v[2], v[4], v[5]) = (((<<Word("elsif")>> \o <<v[2]>>) \o <<Word(":")>>) \o v[4])
          \o Branch(v[5])
    BY <1>9, <2>0 DEF ElsifText
  <2> QED
    BY <1>7, <2>1, <2>2
<1> QED
  BY <1>10, <1>13, <1>14, <1>15, WhenTree DEF F

LEMMA ElsifClauseRule2 ==
  Keeps(Rule("Elsif_Clause", <<"Else_Clause">>))
<1> DEFINE rhs == <<"Else_Clause">>
<1> SUFFICES ASSUME NEW v, Typed(rhs, v) PROVE Made("Elsif_Clause", rhs, v)
  BY DEF Keeps, Rule
<1> DEFINE F == FrameRow(rhs, v)
<1>1. ReadOne("Else_Clause", v)
  BY OneRead
<1>2. Len(v) = 1 /\ HasType("Else_Clause", v[1])
  BY <1>1 DEF ReadOne
<1>3. F = Items("Else_Clause", v[1])
  BY <1>1 DEF ReadOne
<1> HIDE DEF F, rhs
<1>6. Items("Else_Clause", v[1]) = Branch(v[1])
  BY DEF Items
<1>7. F = Branch(v[1])
  BY <1>3, <1>6
<1>8. Len(v) = 1
  BY <1>2
<1>9. v[1].node \in Classes("Else_Clause")
  BY <1>2, NodeTypes DEF Lists, Terminals, Payload
<1>10. v[1].node \in Classes("Elsif_Clause") /\ v[1].node \notin {"exit", "skip"}
  BY <1>9 DEF Classes
<1>11. Value("Elsif_Clause", v) = v[1]
  BY <1>8, <1>10 DEF Value, ElsifClause
<1>12. HasType("Elsif_Clause", v[1])
  BY <1>10, NodeTypes DEF Lists, Terminals, Payload
<1>13. Items("Elsif_Clause", v[1]) = Branch(v[1])
  BY DEF Items
<1> QED
  BY <1>7, <1>11, <1>12, <1>13, WhenMade DEF F

LEMMA ElseClauseRule1 ==
  Keeps(Rule("Else_Clause", <<"else", ":", "Stmt_Body">>))
<1> DEFINE rhs == <<"else", ":", "Stmt_Body">>
<1> SUFFICES ASSUME NEW v, Typed(rhs, v) PROVE Made("Else_Clause", rhs, v)
  BY DEF Keeps, Rule
<1> DEFINE F == FrameRow(rhs, v)
<1>1. ReadThree("else", ":", "Stmt_Body", v)
  BY ThreeRead
<1>2. Len(v) = 3 /\ HasType("else", v[1]) /\ HasType(":", v[2]) /\ HasType("Stmt_Body", v[3])
  BY <1>1 DEF ReadThree
<1>3. F = (Items("else", v[1]) \o Items(":", v[2])) \o Items("Stmt_Body", v[3])
  BY <1>1 DEF ReadThree
<1> HIDE DEF F, rhs
<1>4. Items("else", v[1]) = <<Word("else")>> /\ Items(":", v[2]) = <<Word(":")>>
  BY <1>2, Words DEF Terminals, Payload
<1>6. Items("Stmt_Body", v[3]) = v[3]
  BY DEF Items
<1>7. F = (<<Word("else")>> \o <<Word(":")>>) \o v[3]
  BY <1>3, <1>4, <1>6
<1>8. Len(v) = 3
  BY <1>2
<1>9. IsRow(v[3])
  BY <1>2, ListTypes DEF Lists, HasElements
<1>16. v # <<>>
  BY <1>8, NotEmpty
<1> DEFINE y == [node |-> "If", condition |-> NULL, body |-> v[3], next |-> NULL]
           x == [node |-> "Branch", of |-> y]
<1>10. Value("Else_Clause", v) = y
  BY <1>16 DEF Value, ElseClause, If
<1>11. y.node = "If" /\ y.condition = NULL /\ y.body = v[3] /\ y.next = NULL /\ y # NULL
  BY DEF NULL
<1> HIDE DEF y
<1>12. x.node = "Branch" /\ x.of = y
  OBVIOUS
<1>13. Items("Else_Clause", y) = <<x>>
  BY <1>11 DEF Items, Branch
<1> HIDE DEF x
<1>14. HasType("Else_Clause", y)
  <2>1. "If" \in Classes("Else_Clause")
    BY DEF Classes
  <2> QED
    BY <1>11, <2>1, NodeTypes DEF Lists, Terminals, Payload
<1>15. Parts(x) = F
  <2>1. Parts(x) = BranchParts(NULL, v[3], NULL)
    BY <1>11, <1>12, PartsOfBranch
  <2>2. BranchParts(NULL, v[3], NULL) = (<<Word("else")>> \o <<Word(":")>>) \o v[3]
    BY <1>9, ElseBranch
  <2> QED
    BY <1>7, <2>1, <2>2
<1> QED
  BY <1>10, <1>13, <1>14, <1>15, WhenTree DEF F

LEMMA ElseClauseRule2 ==
  Keeps(Rule("Else_Clause", <<>>))
<1> DEFINE rhs == <<>>
<1> SUFFICES ASSUME NEW v, Typed(rhs, v) PROVE Made("Else_Clause", rhs, v)
  BY DEF Keeps, Rule
<1>1. v = <<>>
  BY OnlyEmpty, EmptyIsRow DEF Typed, TypedUpTo
<1>2. Value("Else_Clause", v) = NULL
  BY <1>1 DEF Value, ElseClause
<1>3. HasType("Else_Clause", NULL)
  <2>1. NULL.node \in Classes("Else_Clause")
    BY DEF NULL, Classes
  <2> QED
    BY <2>1, NodeTypes DEF Lists, Terminals, Payload
<1>4. Items("Else_Clause", NULL) = <<>>
  BY DEF Items, Branch
<1>5. FrameRow(rhs, v) = <<>>
  BY <1>1, FrameRowOfNone
<1> HIDE DEF rhs
<1> QED
  BY <1>2, <1>3, <1>4, <1>5, WhenMade

LEMMA ForClauseRule1 ==
  Keeps(Rule("For_Clause", <<"for", "Simple_List", ";", "Expr", ";", "Simple_List", ":", "Stmt_Body",
    "end">>))
<1> DEFINE rhs == <<"for", "Simple_List", ";", "Expr", ";", "Simple_List", ":", "Stmt_Body", "end">>
<1> SUFFICES ASSUME NEW v, Typed(rhs, v) PROVE Made("For_Clause", rhs, v)
  BY DEF Keeps, Rule
<1> DEFINE F == FrameRow(rhs, v)
<1>1. ReadNine("for", "Simple_List", ";", "Expr", ";", "Simple_List", ":", "Stmt_Body", "end", v)
  BY NineRead
<1>2. Len(v) = 9 /\ HasType("for", v[1]) /\ HasType("Simple_List", v[2]) /\ HasType(";", v[3])
        /\ HasType("Expr", v[4]) /\ HasType(";", v[5]) /\ HasType("Simple_List", v[6])
             /\ HasType(":", v[7]) /\ HasType("Stmt_Body", v[8]) /\ HasType("end", v[9])
  BY <1>1 DEF ReadNine
<1>3. F = (((((((Items("for", v[1]) \o Items("Simple_List", v[2])) \o Items(";", v[3]))
        \o Items("Expr", v[4])) \o Items(";", v[5])) \o Items("Simple_List", v[6])) \o Items(":", v[7]))
          \o Items("Stmt_Body", v[8])) \o Items("end", v[9])
  BY <1>1 DEF ReadNine
<1> HIDE DEF F, rhs
<1>4. Items("for", v[1]) = <<Word("for")>> /\ Items(";", v[3]) = <<Word(";")>>
        /\ Items(";", v[5]) = <<Word(";")>> /\ Items(":", v[7]) = <<Word(":")>>
             /\ Items("end", v[9]) = <<Word("end")>>
  BY <1>2, Words DEF Terminals, Payload
<1>5. Items("Expr", v[4]) = <<v[4]>>
  BY PlainItems DEF Lists
<1>6. Items("Simple_List", v[2]) = Separated(v[2], ",")
        /\ Items("Simple_List", v[6]) = Separated(v[6], ",") /\ Items("Stmt_Body", v[8]) = v[8]
  BY DEF Items
<1>7. F = (((((((<<Word("for")>> \o Separated(v[2], ",")) \o <<Word(";")>>) \o <<v[4]>>) \o <<Word(";")>>)
        \o Separated(v[6], ",")) \o <<Word(":")>>) \o v[8]) \o <<Word("end")>>
  BY <1>3, <1>4, <1>5, <1>6
<1>8. Len(v) = 9
  BY <1>2
<1>9. IsRow(v[2])
  BY <1>2, ListTypes DEF Lists, HasElements
<1> DEFINE x == [node |-> "For", initializations |-> v[2], condition |-> v[4], steps |-> v[6],
             body |-> v[8]]
<1>10. Value("For_Clause", v) = x
  BY <1>8 DEF Value, ForClause
<1>11. x.node = "For" /\ x.initializations = v[2] /\ x.condition = v[4] /\ x.steps = v[6] /\ x.body = v[8]
  OBVIOUS
<1> HIDE DEF x
<1>12. HasType("For_Clause", x)
  <2>1. "For" \in Classes("For_Clause")
    BY DEF Classes
  <2> QED
    BY <1>11, <2>1, NodeTypes DEF Lists, Terminals, Payload
<1>13. Items("For_Clause", x) = <<x>>
  BY PlainItems DEF Lists
<1>14. Parts(x) = ForParts(v[2], v[4], v[6], v[8])
  BY <1>11, PartsOfFor
<1>15. Parts(x) = F
  <2>0. ForText(v[2], v[4], v[6], v[8])
    BY ForApart
  <2>1. ForParts(v[2], v[4], v[6], v[8]) = (((((((<<Word("for")>> \o Separated(v[2], ","))
          \o <<Word(";")>>) \o <<v[4]>>) \o <<Word(";")>>) \o Separated(v[6], ",")) \o <<Word(":")>>)
            \o v[8]) \o <<Word("end")>>
    BY <1>9, <2>0 DEF ForText
  <2> QED
    BY <1>7, <1>14, <2>1
<1> QED
  BY <1>10, <1>12, <1>13, <1>15, WhenTree DEF F

LEMMA SimpleRule1 ==
  Keeps(Rule("Simple", <<"skip">>))
<1> DEFINE rhs == <<"skip">>
<1> SUFFICES ASSUME NEW v, Typed(rhs, v) PROVE Made("Simple", rhs, v)
  BY DEF Keeps, Rule
<1> DEFINE F == FrameRow(rhs, v)
<1>1. ReadOne("skip", v)
  BY OneRead
<1>2. Len(v) = 1 /\ HasType("skip", v[1])
  BY <1>1 DEF ReadOne
<1>3. F = Items("skip", v[1])
  BY <1>1 DEF ReadOne
<1> HIDE DEF F, rhs
<1>4. Items("skip", v[1]) = <<Word("skip")>>
  BY <1>2, Words DEF Terminals, Payload
<1>7. F = <<Word("skip")>>
  BY <1>3, <1>4
<1>8. Len(v) = 1
  BY <1>2
<1>9. v[1].node = "skip"
  <2>1. "skip" \in Terminals \ Payload
    BY DEF Terminals, Payload
  <2>2. v[1] = Word("skip")
    BY <1>2, <2>1, WordTypes
  <2> QED
    BY <2>2 DEF Word
<1> DEFINE x == [node |-> "Skip"]
<1>10. Value("Simple", v) = x
  BY <1>8, <1>9 DEF Value, Simple
<1>11. x.node = "Skip"
  OBVIOUS
<1> HIDE DEF x
<1>12. HasType("Simple", x)
  <2>1. "Skip" \in Classes("Simple")
    BY DEF Classes
  <2> QED
    BY <1>11, <2>1, NodeTypes DEF Lists, Terminals, Payload
<1>13. Items("Simple", x) = <<x>>
  BY PlainItems DEF Lists
<1>14. Parts(x) = <<Word("skip")>>
  BY <1>11, PartsOfSkip
<1>15. Parts(x) = F
  BY <1>7, <1>14
<1> QED
  BY <1>10, <1>12, <1>13, <1>15, WhenTree DEF F

LEMMA SimpleRule2 ==
  Keeps(Rule("Simple", <<"Atom", ":=", "Expr">>))
<1> DEFINE rhs == <<"Atom", ":=", "Expr">>
<1> SUFFICES ASSUME NEW v, Typed(rhs, v) PROVE Made("Simple", rhs, v)
  BY DEF Keeps, Rule
<1> DEFINE F == FrameRow(rhs, v)
<1>1. ReadThree("Atom", ":=", "Expr", v)
  BY ThreeRead
<1>2. Len(v) = 3 /\ HasType("Atom", v[1]) /\ HasType(":=", v[2]) /\ HasType("Expr", v[3])
  BY <1>1 DEF ReadThree
<1>3. F = (Items("Atom", v[1]) \o Items(":=", v[2])) \o Items("Expr", v[3])
  BY <1>1 DEF ReadThree
<1> HIDE DEF F, rhs
<1>4. Items(":=", v[2]) = <<Word(":=")>>
  BY <1>2, Words DEF Terminals, Payload
<1>5. Items("Atom", v[1]) = <<v[1]>> /\ Items("Expr", v[3]) = <<v[3]>>
  BY PlainItems DEF Lists
<1>7. F = (<<v[1]>> \o <<Word(":=")>>) \o <<v[3]>>
  BY <1>3, <1>4, <1>5
<1>8. Len(v) = 3
  BY <1>2
<1>9. v[1].node # "skip"
  <2>1. v[1].node \in Classes("Atom")
    BY <1>2, NodeTypes DEF Lists, Terminals, Payload
  <2> QED
    BY <2>1 DEF Classes
<1> DEFINE x == [node |-> "Assign", atom |-> v[1], expr |-> v[3]]
<1>10. Value("Simple", v) = x
  BY <1>8, <1>9 DEF Value, Simple
<1>11. x.node = "Assign" /\ x.atom = v[1] /\ x.expr = v[3]
  OBVIOUS
<1> HIDE DEF x
<1>12. HasType("Simple", x)
  <2>1. "Assign" \in Classes("Simple")
    BY DEF Classes
  <2> QED
    BY <1>11, <2>1, NodeTypes DEF Lists, Terminals, Payload
<1>13. Items("Simple", x) = <<x>>
  BY PlainItems DEF Lists
<1>14. Parts(x) = AssignParts(v[1], v[3])
  BY <1>11, PartsOfAssign
<1>15. Parts(x) = F
  <2>1. AssignParts(v[1], v[3]) = (<<v[1]>> \o <<Word(":=")>>) \o <<v[3]>>
    BY AssignApart
  <2> QED
    BY <1>7, <1>14, <2>1
<1> QED
  BY <1>10, <1>12, <1>13, <1>15, WhenTree DEF F

LEMMA SimpleRule3 ==
  Keeps(Rule("Simple", <<"Call">>))
<1> DEFINE rhs == <<"Call">>
<1> SUFFICES ASSUME NEW v, Typed(rhs, v) PROVE Made("Simple", rhs, v)
  BY DEF Keeps, Rule
<1> DEFINE F == FrameRow(rhs, v)
<1>1. ReadOne("Call", v)
  BY OneRead
<1>2. Len(v) = 1 /\ HasType("Call", v[1])
  BY <1>1 DEF ReadOne
<1>3. F = Items("Call", v[1])
  BY <1>1 DEF ReadOne
<1> HIDE DEF F, rhs
<1>5. Items("Call", v[1]) = <<v[1]>>
  BY PlainItems DEF Lists
<1>7. F = <<v[1]>>
  BY <1>3, <1>5
<1>8. Len(v) = 1
  BY <1>2
<1>9. v[1].node \in Classes("Call")
  BY <1>2, NodeTypes DEF Lists, Terminals, Payload
<1>10. v[1].node \in Classes("Simple") /\ v[1].node \notin {"exit", "skip"}
  BY <1>9 DEF Classes
<1>11. Value("Simple", v) = v[1]
  BY <1>8, <1>10 DEF Value, Simple
<1>12. HasType("Simple", v[1])
  BY <1>10, NodeTypes DEF Lists, Terminals, Payload
<1>13. Items("Simple", v[1]) = <<v[1]>>
  BY PlainItems DEF Lists
<1> QED
  BY <1>7, <1>11, <1>12, <1>13, WhenMade DEF F

LEMMA SimpleListRule1 ==
  Keeps(Rule("Simple_List", <<"Simple", "Simple_Comma">>))
<1> DEFINE rhs == <<"Simple", "Simple_Comma">>
<1> SUFFICES ASSUME NEW v, Typed(rhs, v) PROVE Made("Simple_List", rhs, v)
  BY DEF Keeps, Rule
<1> DEFINE F == FrameRow(rhs, v)
<1>1. ReadTwo("Simple", "Simple_Comma", v)
  BY TwoRead
<1>2. Len(v) = 2 /\ HasType("Simple", v[1]) /\ HasType("Simple_Comma", v[2])
  BY <1>1 DEF ReadTwo
<1>3. F = Items("Simple", v[1]) \o Items("Simple_Comma", v[2])
  BY <1>1 DEF ReadTwo
<1> HIDE DEF F, rhs
<1>5. Items("Simple", v[1]) = <<v[1]>>
  BY PlainItems DEF Lists
<1>6. Items("Simple_Comma", v[2]) = Preceded(Reverse(v[2]), ",")
  BY DEF Items
<1>7. F = <<v[1]>> \o Preceded(Reverse(v[2]), ",")
  BY <1>3, <1>5, <1>6
<1>8. Len(v) = 2
  BY <1>2
<1>9. Value("Simple_List", v) = Reverse(Append(v[2], v[1]))
  <2>1. v # <<>>
    BY <1>8, NotEmpty
  <2> QED
    BY <2>1 DEF Value, SimpleList
<1> DEFINE C == Classes("Simple_List")
<1>10. HasElements(v[2], C) /\ v[1].node \in C
  <2>1. HasElements(v[2], Classes("Simple_Comma")) /\ v[1].node \in Classes("Simple")
    BY <1>2, ListTypes, NodeTypes DEF Lists, Terminals, Payload
  <2>2. Classes("Simple_Comma") = C /\ Classes("Simple") \subseteq C
    BY DEF Classes
  <2> QED
    BY <2>1, <2>2
<1> HIDE DEF C
<1>11. HasElements(Reverse(Append(v[2], v[1])), C) /\ Separated(Reverse(Append(v[2], v[1])), ",") = F
  BY <1>7, <1>10, ListGrows
<1>12. HasType("Simple_List", Reverse(Append(v[2], v[1])))
  BY <1>11, ListTypes DEF Lists, C
<1>13. Items("Simple_List", Reverse(Append(v[2], v[1]))) = F
  BY <1>11 DEF Items
<1> QED
  BY <1>9, <1>12, <1>13, WhenMade DEF F

LEMMA SimpleCommaRule1 ==
  Keeps(Rule("Simple_Comma", <<>>))
<1> DEFINE rhs == <<>>
<1> SUFFICES ASSUME NEW v, Typed(rhs, v) PROVE Made("Simple_Comma", rhs, v)
  BY DEF Keeps, Rule
<1>1. v = <<>>
  BY OnlyEmpty, EmptyIsRow DEF Typed, TypedUpTo
<1>2. Value("Simple_Comma", v) = <<>>
  BY <1>1 DEF Value, SimpleComma
<1>3. HasType("Simple_Comma", <<>>)
  BY EmptyList, ListTypes DEF Lists
<1>4. Items("Simple_Comma", <<>>) = <<>>
  BY ReverseOfNone, PrecededOfNone DEF Items
<1>5. FrameRow(rhs, v) = <<>>
  BY <1>1, FrameRowOfNone
<1> HIDE DEF rhs
<1> QED
  BY <1>2, <1>3, <1>4, <1>5, WhenMade

LEMMA SimpleCommaRule2 ==
  Keeps(Rule("Simple_Comma", <<",", "Simple", "Simple_Comma">>))
<1> DEFINE rhs == <<",", "Simple", "Simple_Comma">>
<1> SUFFICES ASSUME NEW v, Typed(rhs, v) PROVE Made("Simple_Comma", rhs, v)
  BY DEF Keeps, Rule
<1> DEFINE F == FrameRow(rhs, v)
<1>1. ReadThree(",", "Simple", "Simple_Comma", v)
  BY ThreeRead
<1>2. Len(v) = 3 /\ HasType(",", v[1]) /\ HasType("Simple", v[2]) /\ HasType("Simple_Comma", v[3])
  BY <1>1 DEF ReadThree
<1>3. F = (Items(",", v[1]) \o Items("Simple", v[2])) \o Items("Simple_Comma", v[3])
  BY <1>1 DEF ReadThree
<1> HIDE DEF F, rhs
<1>4. Items(",", v[1]) = <<Word(",")>>
  BY <1>2, Words DEF Terminals, Payload
<1>5. Items("Simple", v[2]) = <<v[2]>>
  BY PlainItems DEF Lists
<1>6. Items("Simple_Comma", v[3]) = Preceded(Reverse(v[3]), ",")
  BY DEF Items
<1>7. F = (<<Word(",")>> \o <<v[2]>>) \o Preceded(Reverse(v[3]), ",")
  BY <1>3, <1>4, <1>5, <1>6
<1>8. Len(v) = 3
  BY <1>2
<1>9. Value("Simple_Comma", v) = Append(v[3], v[2])
  <2>1. v # <<>>
    BY <1>8, NotEmpty
  <2> QED
    BY <2>1 DEF Value, SimpleComma
<1> DEFINE C == Classes("Simple_Comma")
<1>10. HasElements(v[3], C) /\ v[2].node \in C
  <2>1. HasElements(v[3], Classes("Simple_Comma")) /\ v[2].node \in Classes("Simple")
    BY <1>2, ListTypes, NodeTypes DEF Lists, Terminals, Payload
  <2>2. Classes("Simple_Comma") = C /\ Classes("Simple") \subseteq C
    BY DEF Classes
  <2> QED
    BY <2>1, <2>2
<1> HIDE DEF C
<1>11. HasElements(Append(v[3], v[2]), C) /\ Preceded(Reverse(Append(v[3], v[2])), ",") = F
  BY <1>7, <1>10, ListGrows
<1>12. HasType("Simple_Comma", Append(v[3], v[2]))
  BY <1>11, ListTypes DEF Lists, C
<1>13. Items("Simple_Comma", Append(v[3], v[2])) = F
  BY <1>11 DEF Items
<1> QED
  BY <1>9, <1>12, <1>13, WhenMade DEF F

LEMMA CallRule1 ==
  Keeps(Rule("Call", <<"id", "(", ")">>))
<1> DEFINE rhs == <<"id", "(", ")">>
<1> SUFFICES ASSUME NEW v, Typed(rhs, v) PROVE Made("Call", rhs, v)
  BY DEF Keeps, Rule
<1> DEFINE F == FrameRow(rhs, v)
<1>1. ReadThree("id", "(", ")", v)
  BY ThreeRead
<1>2. Len(v) = 3 /\ HasType("id", v[1]) /\ HasType("(", v[2]) /\ HasType(")", v[3])
  BY <1>1 DEF ReadThree
<1>3. F = (Items("id", v[1]) \o Items("(", v[2])) \o Items(")", v[3])
  BY <1>1 DEF ReadThree
<1> HIDE DEF F, rhs
<1>4. Items("(", v[2]) = <<Word("(")>> /\ Items(")", v[3]) = <<Word(")")>>
  BY <1>2, Words DEF Terminals, Payload
<1>5. Items("id", v[1]) = <<v[1]>>
  BY PlainItems DEF Lists
<1>7. F = (<<v[1]>> \o <<Word("(")>>) \o <<Word(")")>>
  BY <1>3, <1>4, <1>5
<1>8. Len(v) = 3
  BY <1>2
<1> DEFINE x == [node |-> "FunctionCall", name |-> v[1], params |-> <<>>]
<1>10. Value("Call", v) = x
  BY <1>8 DEF Value, Call
<1>11. x.node = "FunctionCall" /\ x.name = v[1] /\ x.params = <<>>
  OBVIOUS
<1> HIDE DEF x
<1>12. HasType("Call", x)
  <2>1. "FunctionCall" \in Classes("Call")
    BY DEF Classes
  <2> QED
    BY <1>11, <2>1, NodeTypes DEF Lists, Terminals, Payload
<1>13. Items("Call", x) = <<x>>
  BY PlainItems DEF Lists
<1>14. Parts(x) = FunctionCallParts(v[1], <<>>)
  BY <1>11, PartsOfFunctionCall
<1>15. Parts(x) = F
  <2> DEFINE a == <<v[1]>> \o <<Word("(")>>
             e == <<Word(")")>>
  <2>1. FunctionCallParts(v[1], <<>>) = (a \o <<>>) \o e
    BY FunctionCallApart, SeparatedOfNone
  <2>2. IsRow(a)
    BY RowOfThree
  <2>3. F = a \o e
    BY <1>7
  <2> HIDE DEF a, e
  <2>4. a \o <<>> = a
    BY <2>2, NothingAround
  <2> QED
    BY <1>14, <2>1, <2>3, <2>4
<1> QED
  BY <1>10, <1>12, <1>13, <1>15, WhenTree DEF F

LEMMA CallRule2 ==
  Keeps(Rule("Call", <<"id", "(", "Expr_List", ")">>))
<1> DEFINE rhs == <<"id", "(", "Expr_List", ")">>
<1> SUFFICES ASSUME NEW v, Typed(rhs, v) PROVE Made("Call", rhs, v)
  BY DEF Keeps, Rule
<1> DEFINE F == FrameRow(rhs, v)
<1>1. ReadFour("id", "(", "Expr_List", ")", v)
  BY FourRead
<1>2. Len(v) = 4 /\ HasType("id", v[1]) /\ HasType("(", v[2]) /\ HasType("Expr_List", v[3])
        /\ HasType(")", v[4])
  BY <1>1 DEF ReadFour
<1>3. F = ((Items("id", v[1]) \o Items("(", v[2])) \o Items("Expr_List", v[3])) \o Items(")", v[4])
  BY <1>1 DEF ReadFour
<1> HIDE DEF F, rhs
<1>4. Items("(", v[2]) = <<Word("(")>> /\ Items(")", v[4]) = <<Word(")")>>
  BY <1>2, Words DEF Terminals, Payload
<1>5. Items("id", v[1]) = <<v[1]>>
  BY PlainItems DEF Lists
<1>6. Items("Expr_List", v[3]) = Separated(v[3], ",")
  BY DEF Items
<1>7. F = ((<<v[1]>> \o <<Word("(")>>) \o Separated(v[3], ",")) \o <<Word(")")>>
  BY <1>3, <1>4, <1>5, <1>6
<1>8. Len(v) = 4
  BY <1>2
<1> DEFINE x == [node |-> "FunctionCall", name |-> v[1], params |-> v[3]]
<1>10. Value("Call", v) = x
  BY <1>8 DEF Value, Call
<1>11. x.node = "FunctionCall" /\ x.name = v[1] /\ x.params = v[3]
  OBVIOUS
<1> HIDE DEF x
<1>12. HasType("Call", x)
  <2>1. "FunctionCall" \in Classes("Call")
    BY DEF Classes
  <2> QED
    BY <1>11, <2>1, NodeTypes DEF Lists, Terminals, Payload
<1>13. Items("Call", x) = <<x>>
  BY PlainItems DEF Lists
<1>14. Parts(x) = FunctionCallParts(v[1], v[3])
  BY <1>11, PartsOfFunctionCall
<1>15. Parts(x) = F
  <2>1. FunctionCallParts(v[1], v[3]) = ((<<v[1]>> \o <<Word("(")>>) \o Separated(v[3], ","))
          \o <<Word(")")>>
    BY FunctionCallApart
  <2> QED
    BY <1>7, <1>14, <2>1
<1> QED
  BY <1>10, <1>12, <1>13, <1>15, WhenTree DEF F

LEMMA ExprListRule1 ==
  Keeps(Rule("Expr_List", <<"Expr", "Expr_Comma">>))
<1> DEFINE rhs == <<"Expr", "Expr_Comma">>
<1> SUFFICES ASSUME NEW v, Typed(rhs, v) PROVE Made("Expr_List", rhs, v)
  BY DEF Keeps, Rule
<1> DEFINE F == FrameRow(rhs, v)
<1>1. ReadTwo("Expr", "Expr_Comma", v)
  BY TwoRead
<1>2. Len(v) = 2 /\ HasType("Expr", v[1]) /\ HasType("Expr_Comma", v[2])
  BY <1>1 DEF ReadTwo
<1>3. F = Items("Expr", v[1]) \o Items("Expr_Comma", v[2])
  BY <1>1 DEF ReadTwo
<1> HIDE DEF F, rhs
<1>5. Items("Expr", v[1]) = <<v[1]>>
  BY PlainItems DEF Lists
<1>6. Items("Expr_Comma", v[2]) = Preceded(Reverse(v[2]), ",")
  BY DEF Items
<1>7. F = <<v[1]>> \o Preceded(Reverse(v[2]), ",")
  BY <1>3, <1>5, <1>6
<1>8. Len(v) = 2
  BY <1>2
<1>9. Value("Expr_List", v) = Reverse(Append(v[2], v[1]))
  <2>1. v # <<>>
    BY <1>8, NotEmpty
  <2> QED
    BY <2>1 DEF Value, ExprList
<1> DEFINE C == Classes("Expr_List")
<1>10. HasElements(v[2], C) /\ v[1].node \in C
  <2>1. HasElements(v[2], Classes("Expr_Comma")) /\ v[1].node \in Classes("Expr")
    BY <1>2, ListTypes, NodeTypes DEF Lists, Terminals, Payload
  <2>2. Classes("Expr_Comma") = C /\ Classes("Expr") \subseteq C
    BY DEF Classes
  <2> QED
    BY <2>1, <2>2
<1> HIDE DEF C
<1>11. HasElements(Reverse(Append(v[2], v[1])), C) /\ Separated(Reverse(Append(v[2], v[1])), ",") = F
  BY <1>7, <1>10, ListGrows
<1>12. HasType("Expr_List", Reverse(Append(v[2], v[1])))
  BY <1>11, ListTypes DEF Lists, C
<1>13. Items("Expr_List", Reverse(Append(v[2], v[1]))) = F
  BY <1>11 DEF Items
<1> QED
  BY <1>9, <1>12, <1>13, WhenMade DEF F

LEMMA ExprCommaRule1 ==
  Keeps(Rule("Expr_Comma", <<>>))
<1> DEFINE rhs == <<>>
<1> SUFFICES ASSUME NEW v, Typed(rhs, v) PROVE Made("Expr_Comma", rhs, v)
  BY DEF Keeps, Rule
<1>1. v = <<>>
  BY OnlyEmpty, EmptyIsRow DEF Typed, TypedUpTo
<1>2. Value("Expr_Comma", v) = <<>>
  BY <1>1 DEF Value, ExprComma
<1>3. HasType("Expr_Comma", <<>>)
  BY EmptyList, ListTypes DEF Lists
<1>4. Items("Expr_Comma", <<>>) = <<>>
  BY ReverseOfNone, PrecededOfNone DEF Items
<1>5. FrameRow(rhs, v) = <<>>
  BY <1>1, FrameRowOfNone
<1> HIDE DEF rhs
<1> QED
  BY <1>2, <1>3, <1>4, <1>5, WhenMade

LEMMA ExprCommaRule2 ==
  Keeps(Rule("Expr_Comma", <<",", "Expr", "Expr_Comma">>))
<1> DEFINE rhs == <<",", "Expr", "Expr_Comma">>
<1> SUFFICES ASSUME NEW v, Typed(rhs, v) PROVE Made("Expr_Comma", rhs, v)
  BY DEF Keeps, Rule
<1> DEFINE F == FrameRow(rhs, v)
<1>1. ReadThree(",", "Expr", "Expr_Comma", v)
  BY ThreeRead
<1>2. Len(v) = 3 /\ HasType(",", v[1]) /\ HasType("Expr", v[2]) /\ HasType("Expr_Comma", v[3])
  BY <1>1 DEF ReadThree
<1>3. F = (Items(",", v[1]) \o Items("Expr", v[2])) \o Items("Expr_Comma", v[3])
  BY <1>1 DEF ReadThree
<1> HIDE DEF F, rhs
<1>4. Items(",", v[1]) = <<Word(",")>>
  BY <1>2, Words DEF Terminals, Payload
<1>5. Items("Expr", v[2]) = <<v[2]>>
  BY PlainItems DEF Lists
<1>6. Items("Expr_Comma", v[3]) = Preceded(Reverse(v[3]), ",")
  BY DEF Items
<1>7. F = (<<Word(",")>> \o <<v[2]>>) \o Preceded(Reverse(v[3]), ",")
  BY <1>3, <1>4, <1>5, <1>6
<1>8. Len(v) = 3
  BY <1>2
<1>9. Value("Expr_Comma", v) = Append(v[3], v[2])
  <2>1. v # <<>>
    BY <1>8, NotEmpty
  <2> QED
    BY <2>1 DEF Value, ExprComma
<1> DEFINE C == Classes("Expr_Comma")
<1>10. HasElements(v[3], C) /\ v[2].node \in C
  <2>1. HasElements(v[3], Classes("Expr_Comma")) /\ v[2].node \in Classes("Expr")
    BY <1>2, ListTypes, NodeTypes DEF Lists, Terminals, Payload
  <2>2. Classes("Expr_Comma") = C /\ Classes("Expr") \subseteq C
    BY DEF Classes
  <2> QED
    BY <2>1, <2>2
<1> HIDE DEF C
<1>11. HasElements(Append(v[3], v[2]), C) /\ Preceded(Reverse(Append(v[3], v[2])), ",") = F
  BY <1>7, <1>10, ListGrows
<1>12. HasType("Expr_Comma", Append(v[3], v[2]))
  BY <1>11, ListTypes DEF Lists, C
<1>13. Items("Expr_Comma", Append(v[3], v[2])) = F
  BY <1>11 DEF Items
<1> QED
  BY <1>9, <1>12, <1>13, WhenMade DEF F

LEMMA AtomRule1 ==
  Keeps(Rule("Atom", <<"id">>))
<1> DEFINE rhs == <<"id">>
<1> SUFFICES ASSUME NEW v, Typed(rhs, v) PROVE Made("Atom", rhs, v)
  BY DEF Keeps, Rule
<1> DEFINE F == FrameRow(rhs, v)
<1>1. ReadOne("id", v)
  BY OneRead
<1>2. Len(v) = 1 /\ HasType("id", v[1])
  BY <1>1 DEF ReadOne
<1>3. F = Items("id", v[1])
  BY <1>1 DEF ReadOne
<1> HIDE DEF F, rhs
<1>5. Items("id", v[1]) = <<v[1]>>
  BY PlainItems DEF Lists
<1>7. F = <<v[1]>>
  BY <1>3, <1>5
<1>8. Len(v) = 1
  BY <1>2
<1>9. v[1].node \in Classes("id")
  BY <1>2, NodeTypes DEF Lists, Terminals, Payload
<1>10. v[1].node \in Classes("Atom") /\ v[1].node \notin {"exit", "skip"}
  BY <1>9 DEF Classes
<1>11. Value("Atom", v) = v[1]
  BY <1>8, <1>10 DEF Value, Atom
<1>12. HasType("Atom", v[1])
  BY <1>10, NodeTypes DEF Lists, Terminals, Payload
<1>13. Items("Atom", v[1]) = <<v[1]>>
  BY PlainItems DEF Lists
<1> QED
  BY <1>7, <1>11, <1>12, <1>13, WhenMade DEF F

LEMMA AtomRule2 ==
  Keeps(Rule("Atom", <<"Atom", "[", "Expr", "]">>))
<1> DEFINE rhs == <<"Atom", "[", "Expr", "]">>
<1> SUFFICES ASSUME NEW v, Typed(rhs, v) PROVE Made("Atom", rhs, v)
  BY DEF Keeps, Rule
<1> DEFINE F == FrameRow(rhs, v)
<1>1. ReadFour("Atom", "[", "Expr", "]", v)
  BY FourRead
<1>2. Len(v) = 4 /\ HasType("Atom", v[1]) /\ HasType("[", v[2]) /\ HasType("Expr", v[3])
        /\ HasType("]", v[4])
  BY <1>1 DEF ReadFour
<1>3. F = ((Items("Atom", v[1]) \o Items("[", v[2])) \o Items("Expr", v[3])) \o Items("]", v[4])
  BY <1>1 DEF ReadFour
<1> HIDE DEF F, rhs
<1>4. Items("[", v[2]) = <<Word("[")>> /\ Items("]", v[4]) = <<Word("]")>>
  BY <1>2, Words DEF Terminals, Payload
<1>5. Items("Atom", v[1]) = <<v[1]>> /\ Items("Expr", v[3]) = <<v[3]>>
  BY PlainItems DEF Lists
<1>7. F = ((<<v[1]>> \o <<Word("[")>>) \o <<v[3]>>) \o <<Word("]")>>
  BY <1>3, <1>4, <1>5
<1>8. Len(v) = 4
  BY <1>2
<1> DEFINE x == [node |-> "ArrayElement", atom |-> v[1], expr |-> v[3]]
<1>10. Value("Atom", v) = x
  BY <1>8 DEF Value, Atom
<1>11. x.node = "ArrayElement" /\ x.atom = v[1] /\ x.expr = v[3]
  OBVIOUS
<1> HIDE DEF x
<1>12. HasType("Atom", x)
  <2>1. "ArrayElement" \in Classes("Atom")
    BY DEF Classes
  <2> QED
    BY <1>11, <2>1, NodeTypes DEF Lists, Terminals, Payload
<1>13. Items("Atom", x) = <<x>>
  BY PlainItems DEF Lists
<1>14. Parts(x) = ArrayElementParts(v[1], v[3])
  BY <1>11, PartsOfArrayElement
<1>15. Parts(x) = F
  <2>1. ArrayElementParts(v[1], v[3]) = ((<<v[1]>> \o <<Word("[")>>) \o <<v[3]>>) \o <<Word("]")>>
    BY ArrayElementApart
  <2> QED
    BY <1>7, <1>14, <2>1
<1> QED
  BY <1>10, <1>12, <1>13, <1>15, WhenTree DEF F

LEMMA AtomRule3 ==
  Keeps(Rule("Atom", <<"Call">>))
<1> DEFINE rhs == <<"Call">>
<1> SUFFICES ASSUME NEW v, Typed(rhs, v) PROVE Made("Atom", rhs, v)
  BY DEF Keeps, Rule
<1> DEFINE F == FrameRow(rhs, v)
<1>1. ReadOne("Call", v)
  BY OneRead
<1>2. Len(v) = 1 /\ HasType("Call", v[1])
  BY <1>1 DEF ReadOne
<1>3. F = Items("Call", v[1])
  BY <1>1 DEF ReadOne
<1> HIDE DEF F, rhs
<1>5. Items("Call", v[1]) = <<v[1]>>
  BY PlainItems DEF Lists
<1>7. F = <<v[1]>>
  BY <1>3, <1>5
<1>8. Len(v) = 1
  BY <1>2
<1>9. v[1].node \in Classes("Call")
  BY <1>2, NodeTypes DEF Lists, Terminals, Payload
<1>10. v[1].node \in Classes("Atom") /\ v[1].node \notin {"exit", "skip"}
  BY <1>9 DEF Classes
<1>11. Value("Atom", v) = v[1]
  BY <1>8, <1>10 DEF Value, Atom
<1>12. HasType("Atom", v[1])
  BY <1>10, NodeTypes DEF Lists, Terminals, Payload
<1>13. Items("Atom", v[1]) = <<v[1]>>
  BY PlainItems DEF Lists
<1> QED
  BY <1>7, <1>11, <1>12, <1>13, WhenMade DEF F

LEMMA ExprRule1 ==
  Keeps(Rule("Expr", <<"const">>))
<1> DEFINE rhs == <<"const">>
<1> SUFFICES ASSUME NEW v, Typed(rhs, v) PROVE Made("Expr", rhs, v)
  BY DEF Keeps, Rule
<1> DEFINE F == FrameRow(rhs, v)
<1>1. ReadOne("const", v)
  BY OneRead
<1>2. Len(v) = 1 /\ HasType("const", v[1])
  BY <1>1 DEF ReadOne
<1>3. F = Items("const", v[1])
  BY <1>1 DEF ReadOne
<1> HIDE DEF F, rhs
<1>5. Items("const", v[1]) = <<v[1]>>
  BY PlainItems DEF Lists
<1>7. F = <<v[1]>>
  BY <1>3, <1>5
<1>8. Len(v) = 1
  BY <1>2
<1>9. v[1].node \in Classes("const")
  BY <1>2, NodeTypes DEF Lists, Terminals, Payload
<1>10. v[1].node \in Classes("Expr") /\ v[1].node \notin {"exit", "skip"}
  BY <1>9 DEF Classes
<1>11. Value("Expr", v) = v[1]
  BY <1>8, <1>10 DEF Value, Expr
<1>12. HasType("Expr", v[1])
  BY <1>10, NodeTypes DEF Lists, Terminals, Payload
<1>13. Items("Expr", v[1]) = <<v[1]>>
  BY PlainItems DEF Lists
<1> QED
  BY <1>7, <1>11, <1>12, <1>13, WhenMade DEF F

LEMMA ExprRule2 ==
  Keeps(Rule("Expr", <<"Atom">>))
<1> DEFINE rhs == <<"Atom">>
<1> SUFFICES ASSUME NEW v, Typed(rhs, v) PROVE Made("Expr", rhs, v)
  BY DEF Keeps, Rule
<1> DEFINE F == FrameRow(rhs, v)
<1>1. ReadOne("Atom", v)
  BY OneRead
<1>2. Len(v) = 1 /\ HasType("Atom", v[1])
  BY <1>1 DEF ReadOne
<1>3. F = Items("Atom", v[1])
  BY <1>1 DEF ReadOne
<1> HIDE DEF F, rhs
<1>5. Items("Atom", v[1]) = <<v[1]>>
  BY PlainItems DEF Lists
<1>7. F = <<v[1]>>
  BY <1>3, <1>5
<1>8. Len(v) = 1
  BY <1>2
<1>9. v[1].node \in Classes("Atom")
  BY <1>2, NodeTypes DEF Lists, Terminals, Payload
<1>10. v[1].node \in Classes("Expr") /\ v[1].node \notin {"exit", "skip"}
  BY <1>9 DEF Classes
<1>11. Value("Expr", v) = v[1]
  BY <1>8, <1>10 DEF Value, Expr
<1>12. HasType("Expr", v[1])
  BY <1>10, NodeTypes DEF Lists, Terminals, Payload
<1>13. Items("Expr", v[1]) = <<v[1]>>
  BY PlainItems DEF Lists
<1> QED
  BY <1>7, <1>11, <1>12, <1>13, WhenMade DEF F

LEMMA EveryRule ==
  ASSUME NEW rule \in Grammar, rule.lhs # "Program"
  PROVE  Keeps(rule)
<1>1. Rule("Program", <<"Func_def">>).lhs = "Program"
  BY DEF Rule
<1>2. rule \in Grammar \ {Rule("Program", <<"Func_def">>)}
  BY <1>1
<1> QED
  BY <1>2, ZenonT(100), FuncDefRule1, FuncDefDecRule1, FuncDefDecRule2, FuncDefDecRule3, FuncDefDecRule4,
       HeaderRule1, HeaderRule2,
     HeaderRule3, HeaderRule4, FuncDeclRule1, ParRule1, ParRule2, FormalRule1, FormalRule2,
     VarDefRule1, VarCommaRule1, VarCommaRule2, TypeRule1, TypeRule2, TypeRule3, StmtRule1,
     StmtRule2, StmtRule3, StmtRule4, StmtRule5, StmtBodyRule1, StmtFullRule1, StmtFullRule2,
     IfClauseRule1, ElsifClauseRule1, ElsifClauseRule2, ElseClauseRule1, ElseClauseRule2, ForClauseRule1,
       SimpleRule1,
     SimpleRule2, SimpleRule3, SimpleListRule1, SimpleCommaRule1, SimpleCommaRule2, CallRule1, CallRule2,
     ExprListRule1, ExprCommaRule1, ExprCommaRule2, AtomRule1, AtomRule2, AtomRule3, ExprRule1,
     ExprRule2
     DEF Grammar
-----------------------------------------------------------------------------
(* What every production has: no right side has the start symbol.            *)

Proper(rule) ==
  /\ IsRow(rule.rhs) /\ \A j \in 1 .. Len(rule.rhs) : rule.rhs[j] # "Program"
  /\ rule.lhs = "Program" => rule.rhs = <<"Func_def">>

LEMMA WhenProper ==
  ASSUME NEW l, l # "Program", NEW S, "Program" \notin S, NEW r \in Seq(S)
  PROVE  Proper(Rule(l, r))
<1>1. IsRow(r) /\ \A j \in 1 .. Len(r) : r[j] \in S
  BY RowIf, ElementOfSeq
<1>2. Rule(l, r).lhs = l /\ Rule(l, r).rhs = r
  BY DEF Rule
<1> QED
  BY <1>1, <1>2 DEF Proper

ProperNone(l) == l # "Program" => Proper(Rule(l, <<>>))
LEMMA NoneProper == \A l : ProperNone(l)
<1> SUFFICES ASSUME NEW l, l # "Program" PROVE Proper(Rule(l, <<>>))
  BY DEF ProperNone
<1> DEFINE S == {}
           r == <<>>
<1>1. r \in Seq(S)
  OBVIOUS
<1>2. "Program" \notin S
  OBVIOUS
<1> HIDE DEF r, S
<1>3. Proper(Rule(l, r))
  BY <1>1, <1>2, WhenProper
<1> QED
  BY <1>3 DEF r

ProperOne(l, s1) == l # "Program" /\ s1 # "Program" => Proper(Rule(l, <<s1>>))
LEMMA OneProper == \A l, s1 : ProperOne(l, s1)
<1> SUFFICES ASSUME NEW l, NEW s1, l # "Program", s1 # "Program" PROVE Proper(Rule(l, <<s1>>))
  BY DEF ProperOne
<1> DEFINE S == {s1}
           r == <<s1>>
<1>1. r \in Seq(S)
  OBVIOUS
<1>2. "Program" \notin S
  OBVIOUS
<1> HIDE DEF r, S
<1>3. Proper(Rule(l, r))
  BY <1>1, <1>2, WhenProper
<1> QED
  BY <1>3 DEF r

ProperTwo(l, s1, s2) == l # "Program" /\ s1 # "Program" /\ s2 # "Program" => Proper(Rule(l, <<s1, s2>>))
LEMMA TwoProper == \A l, s1, s2 : ProperTwo(l, s1, s2)
<1> SUFFICES ASSUME NEW l, NEW s1, NEW s2, l # "Program", s1 # "Program", s2 # "Program"
                      PROVE Proper(Rule(l, <<s1, s2>>))
  BY DEF ProperTwo
<1> DEFINE S == {s1, s2}
           r == <<s1, s2>>
<1>1. r \in Seq(S)
  OBVIOUS
<1>2. "Program" \notin S
  OBVIOUS
<1> HIDE DEF r, S
<1>3. Proper(Rule(l, r))
  BY <1>1, <1>2, WhenProper
<1> QED
  BY <1>3 DEF r

ProperThree(l, s1, s2, s3) ==
  l # "Program" /\ s1 # "Program" /\ s2 # "Program" /\ s3 # "Program" => Proper(Rule(l, <<s1, s2, s3>>))
LEMMA ThreeProper == \A l, s1, s2, s3 : ProperThree(l, s1, s2, s3)
<1> SUFFICES ASSUME NEW l, NEW s1, NEW s2, NEW s3, l # "Program", s1 # "Program", s2 # "Program",
                      s3 # "Program" PROVE Proper(Rule(l, <<s1, s2, s3>>))
  BY DEF ProperThree
<1> DEFINE S == {s1, s2, s3}
           r == <<s1, s2, s3>>
<1>1. r \in Seq(S)
  OBVIOUS
<1>2. "Program" \notin S
  OBVIOUS
<1> HIDE DEF r, S
<1>3. Proper(Rule(l, r))
  BY <1>1, <1>2, WhenProper
<1> QED
  BY <1>3 DEF r

ProperFour(l, s1, s2, s3, s4) ==
  l # "Program" /\ s1 # "Program" /\ s2 # "Program" /\ s3 # "Program" /\ s4 # "Program"
    => Proper(Rule(l, <<s1, s2, s3, s4>>))
LEMMA FourProper == \A l, s1, s2, s3, s4 : ProperFour(l, s1, s2, s3, s4)
<1> SUFFICES ASSUME NEW l, NEW s1, NEW s2, NEW s3, NEW s4, l # "Program", s1 # "Program", s2 # "Program",
                      s3 # "Program", s4 # "Program" PROVE Proper(Rule(l, <<s1, s2, s3, s4>>))
  BY DEF ProperFour
<1> DEFINE S == {s1, s2, s3, s4}
           r == <<s1, s2, s3, s4>>
<1>1. r \in Seq(S)
  OBVIOUS
<1>2. "Program" \notin S
  OBVIOUS
<1> HIDE DEF r, S
<1>3. Proper(Rule(l, r))
  BY <1>1, <1>2, WhenProper
<1> QED
  BY <1>3 DEF r

ProperFive(l, s1, s2, s3, s4, s5) ==
  l # "Program" /\ s1 # "Program" /\ s2 # "Program" /\ s3 # "Program" /\ s4 # "Program" /\ s5 # "Program"
    => Proper(Rule(l, <<s1, s2, s3, s4, s5>>))
LEMMA FiveProper == \A l, s1, s2, s3, s4, s5 : ProperFive(l, s1, s2, s3, s4, s5)
<1> SUFFICES ASSUME NEW l, NEW s1, NEW s2, NEW s3, NEW s4, NEW s5, l # "Program", s1 # "Program",
                      s2 # "Program", s3 # "Program", s4 # "Program", s5 # "Program"
                        PROVE Proper(Rule(l, <<s1, s2, s3, s4, s5>>))
  BY DEF ProperFive
<1> DEFINE S == {s1, s2, s3, s4, s5}
           r == <<s1, s2, s3, s4, s5>>
<1>1. r \in Seq(S)
  OBVIOUS
<1>2. "Program" \notin S
  OBVIOUS
<1> HIDE DEF r, S
<1>3. Proper(Rule(l, r))
  BY <1>1, <1>2, WhenProper
<1> QED
  BY <1>3 DEF r

ProperSix(l, s1, s2, s3, s4, s5, s6) ==
  l # "Program" /\ s1 # "Program" /\ s2 # "Program" /\ s3 # "Program" /\ s4 # "Program" /\ s5 # "Program"
    /\ s6 # "Program" => Proper(Rule(l, <<s1, s2, s3, s4, s5, s6>>))
LEMMA SixProper == \A l, s1, s2, s3, s4, s5, s6 : ProperSix(l, s1, s2, s3, s4, s5, s6)
<1> SUFFICES ASSUME NEW l, NEW s1, NEW s2, NEW s3, NEW s4, NEW s5, NEW s6, l # "Program", s1 # "Program",
                      s2 # "Program", s3 # "Program", s4 # "Program", s5 # "Program", s6 # "Program"
                        PROVE Proper(Rule(l, <<s1, s2, s3, s4, s5, s6>>))
  BY DEF ProperSix
<1> DEFINE S == {s1, s2, s3, s4, s5, s6}
           r == <<s1, s2, s3, s4, s5, s6>>
<1>1. r \in Seq(S)
  OBVIOUS
<1>2. "Program" \notin S
  OBVIOUS
<1> HIDE DEF r, S
<1>3. Proper(Rule(l, r))
  BY <1>1, <1>2, WhenProper
<1> QED
  BY <1>3 DEF r

ProperNine(l, s1, s2, s3, s4, s5, s6, s7, s8, s9) ==
  l # "Program" /\ s1 # "Program" /\ s2 # "Program" /\ s3 # "Program" /\ s4 # "Program" /\ s5 # "Program"
    /\ s6 # "Program" /\ s7 # "Program" /\ s8 # "Program" /\ s9 # "Program"
         => Proper(Rule(l, <<s1, s2, s3, s4, s5, s6, s7, s8, s9>>))
LEMMA NineProper ==
  \A l, s1, s2, s3, s4, s5, s6, s7, s8, s9 : ProperNine(l, s1, s2, s3, s4, s5, s6, s7, s8, s9)
<1> SUFFICES ASSUME NEW l, NEW s1, NEW s2, NEW s3, NEW s4, NEW s5, NEW s6, NEW s7, NEW s8, NEW s9,
                      l # "Program", s1 # "Program", s2 # "Program", s3 # "Program", s4 # "Program",
                        s5 # "Program", s6 # "Program", s7 # "Program", s8 # "Program", s9 # "Program"
                          PROVE Proper(Rule(l, <<s1, s2, s3, s4, s5, s6, s7, s8, s9>>))
  BY DEF ProperNine
<1> DEFINE S == {s1, s2, s3, s4, s5, s6, s7, s8, s9}
           r == <<s1, s2, s3, s4, s5, s6, s7, s8, s9>>
<1>1. r \in Seq(S)
  OBVIOUS
<1>2. "Program" \notin S
  OBVIOUS
<1> HIDE DEF r, S
<1>3. Proper(Rule(l, r))
  BY <1>1, <1>2, WhenProper
<1> QED
  BY <1>3 DEF r

LEMMA EveryRuleProper ==
  ASSUME NEW rule \in Grammar
  PROVE  Proper(rule)
<1>1. Proper(Rule("Program", <<"Func_def">>))
  <2> DEFINE r == <<"Func_def">>
  <2>1. IsRow(r) /\ \A j \in 1 .. Len(r) : r[j] # "Program"
    BY OneIsRow
  <2>2. Rule("Program", r).lhs = "Program" /\ Rule("Program", r).rhs = r
    BY DEF Rule
  <2> QED
    BY <2>1, <2>2 DEF Proper
<1>2. Proper(Rule("Func_def", <<"def", "Header", ":", "Func_def_dec", "Stmt_Body", "end">>))
  <2>1. ProperSix("Func_def", "def", "Header", ":", "Func_def_dec", "Stmt_Body", "end")
    BY SixProper
  <2> QED
    BY <2>1 DEF ProperSix
<1>3. Proper(Rule("Func_def_dec", <<"Func_def", "Func_def_dec">>))
  <2>1. ProperTwo("Func_def_dec", "Func_def", "Func_def_dec")
    BY TwoProper
  <2> QED
    BY <2>1 DEF ProperTwo
<1>4. Proper(Rule("Func_def_dec", <<"Func_Decl", "Func_def_dec">>))
  <2>1. ProperTwo("Func_def_dec", "Func_Decl", "Func_def_dec")
    BY TwoProper
  <2> QED
    BY <2>1 DEF ProperTwo
<1>5. Proper(Rule("Func_def_dec", <<"Var_Def", "Func_def_dec">>))
  <2>1. ProperTwo("Func_def_dec", "Var_Def", "Func_def_dec")
    BY TwoProper
  <2> QED
    BY <2>1 DEF ProperTwo
<1>6. Proper(Rule("Func_def_dec", <<>>))
  <2>1. ProperNone("Func_def_dec")
    BY NoneProper
  <2> QED
    BY <2>1 DEF ProperNone
<1>7. Proper(Rule("Header", <<"Type", "id", "(", ")">>))
  <2>1. ProperFour("Header", "Type", "id", "(", ")")
    BY FourProper
  <2> QED
    BY <2>1 DEF ProperFour
<1>8. Proper(Rule("Header", <<"Type", "id", "(", "Formal", "Par", ")">>))
  <2>1. ProperSix("Header", "Type", "id", "(", "Formal", "Par", ")")
    BY SixProper
  <2> QED
    BY <2>1 DEF ProperSix
<1>9. Proper(Rule("Header", <<"id", "(", ")">>))
  <2>1. ProperThree("Header", "id", "(", ")")
    BY ThreeProper
  <2> QED
    BY <2>1 DEF ProperThree
<1>10. Proper(Rule("Header", <<"id", "(", "Formal", "Par", ")">>))
  <2>1. ProperFive("Header", "id", "(", "Formal", "Par", ")")
    BY FiveProper
  <2> QED
    BY <2>1 DEF ProperFive
<1>11. Proper(Rule("Func_Decl", <<"decl", "Header">>))
  <2>1. ProperTwo("Func_Decl", "decl", "Header")
    BY TwoProper
  <2> QED
    BY <2>1 DEF ProperTwo
<1>12. Proper(Rule("Par", <<";", "Formal", "Par">>))
  <2>1. ProperThree("Par", ";", "Formal", "Par")
    BY ThreeProper
  <2> QED
    BY <2>1 DEF ProperThree
<1>13. Proper(Rule("Par", <<>>))
  <2>1. ProperNone("Par")
    BY NoneProper
  <2> QED
    BY <2>1 DEF ProperNone
<1>14. Proper(Rule("Formal", <<"ref", "Var_Def">>))
  <2>1. ProperTwo("Formal", "ref", "Var_Def")
    BY TwoProper
  <2> QED
    BY <2>1 DEF ProperTwo
<1>15. Proper(Rule("Formal", <<"Var_Def">>))
  <2>1. ProperOne("Formal", "Var_Def")
    BY OneProper
  <2> QED
    BY <2>1 DEF ProperOne
<1>16. Proper(Rule("Var_Def", <<"Type", "id", "Var_Comma">>))
  <2>1. ProperThree("Var_Def", "Type", "id", "Var_Comma")
    BY ThreeProper
  <2> QED
    BY <2>1 DEF ProperThree
<1>17. Proper(Rule("Var_Comma", <<>>))
  <2>1. ProperNone("Var_Comma")
    BY NoneProper
  <2> QED
    BY <2>1 DEF ProperNone
<1>18. Proper(Rule("Var_Comma", <<",", "id", "Var_Comma">>))
  <2>1. ProperThree("Var_Comma", ",", "id", "Var_Comma")
    BY ThreeProper
  <2> QED
    BY <2>1 DEF ProperThree
<1>19. Proper(Rule("Type", <<"int">>))
  <2>1. ProperOne("Type", "int")
    BY OneProper
  <2> QED
    BY <2>1 DEF ProperOne
<1>20. Proper(Rule("Type", <<"Type", "[", "]">>))
  <2>1. ProperThree("Type", "Type", "[", "]")
    BY ThreeProper
  <2> QED
    BY <2>1 DEF ProperThree
<1>21. Proper(Rule("Type", <<"list", "[", "Type", "]">>))
  <2>1. ProperFour("Type", "list", "[", "Type", "]")
    BY FourProper
  <2> QED
    BY <2>1 DEF ProperFour
<1>22. Proper(Rule("Stmt", <<"Simple">>))
  <2>1. ProperOne("Stmt", "Simple")
    BY OneProper
  <2> QED
    BY <2>1 DEF ProperOne
<1>23. Proper(Rule("Stmt", <<"exit">>))
  <2>1. ProperOne("Stmt", "exit")
    BY OneProper
  <2> QED
    BY <2>1 DEF ProperOne
<1>24. Proper(Rule("Stmt", <<"return", "Expr">>))
  <2>1. ProperTwo("Stmt", "return", "Expr")
    BY TwoProper
  <2> QED
    BY <2>1 DEF ProperTwo
<1>25. Proper(Rule("Stmt", <<"If_Clause">>))
  <2>1. ProperOne("Stmt", "If_Clause")
    BY OneProper
  <2> QED
    BY <2>1 DEF ProperOne
<1>26. Proper(Rule("Stmt", <<"For_Clause">>))
  <2>1. ProperOne("Stmt", "For_Clause")
    BY OneProper
  <2> QED
    BY <2>1 DEF ProperOne
<1>27. Proper(Rule("Stmt_Body", <<"Stmt", "Stmt_Full">>))
  <2>1. ProperTwo("Stmt_Body", "Stmt", "Stmt_Full")
    BY TwoProper
  <2> QED
    BY <2>1 DEF ProperTwo
<1>28. Proper(Rule("Stmt_Full", <<"Stmt", "Stmt_Full">>))
  <2>1. ProperTwo("Stmt_Full", "Stmt", "Stmt_Full")
    BY TwoProper
  <2> QED
    BY <2>1 DEF ProperTwo
<1>29. Proper(Rule("Stmt_Full", <<>>))
  <2>1. ProperNone("Stmt_Full")
    BY NoneProper
  <2> QED
    BY <2>1 DEF ProperNone
<1>30. Proper(Rule("If_Clause", <<"if", "Expr", ":", "Stmt_Body", "Elsif_Clause", "end">>))
  <2>1. ProperSix("If_Clause", "if", "Expr", ":", "Stmt_Body", "Elsif_Clause", "end")
    BY SixProper
  <2> QED
    BY <2>1 DEF ProperSix
<1>31. Proper(Rule("Elsif_Clause", <<"elsif", "Expr", ":", "Stmt_Body", "Elsif_Clause">>))
  <2>1. ProperFive("Elsif_Clause", "elsif", "Expr", ":", "Stmt_Body", "Elsif_Clause")
    BY FiveProper
  <2> QED
    BY <2>1 DEF ProperFive
<1>32. Proper(Rule("Elsif_Clause", <<"Else_Clause">>))
  <2>1. ProperOne("Elsif_Clause", "Else_Clause")
    BY OneProper
  <2> QED
    BY <2>1 DEF ProperOne
<1>33. Proper(Rule("Else_Clause", <<"else", ":", "Stmt_Body">>))
  <2>1. ProperThree("Else_Clause", "else", ":", "Stmt_Body")
    BY ThreeProper
  <2> QED
    BY <2>1 DEF ProperThree
<1>34. Proper(Rule("Else_Clause", <<>>))
  <2>1. ProperNone("Else_Clause")
    BY NoneProper
  <2> QED
    BY <2>1 DEF ProperNone
<1>35. Proper(Rule("For_Clause", <<"for", "Simple_List", ";", "Expr", ";", "Simple_List", ":", "Stmt_Body",
         "end">>))
  <2>1. ProperNine("For_Clause", "for", "Simple_List", ";", "Expr", ";", "Simple_List", ":", "Stmt_Body",
          "end")
    BY NineProper
  <2> QED
    BY <2>1 DEF ProperNine
<1>36. Proper(Rule("Simple", <<"skip">>))
  <2>1. ProperOne("Simple", "skip")
    BY OneProper
  <2> QED
    BY <2>1 DEF ProperOne
<1>37. Proper(Rule("Simple", <<"Atom", ":=", "Expr">>))
  <2>1. ProperThree("Simple", "Atom", ":=", "Expr")
    BY ThreeProper
  <2> QED
    BY <2>1 DEF ProperThree
<1>38. Proper(Rule("Simple", <<"Call">>))
  <2>1. ProperOne("Simple", "Call")
    BY OneProper
  <2> QED
    BY <2>1 DEF ProperOne
<1>39. Proper(Rule("Simple_List", <<"Simple", "Simple_Comma">>))
  <2>1. ProperTwo("Simple_List", "Simple", "Simple_Comma")
    BY TwoProper
  <2> QED
    BY <2>1 DEF ProperTwo
<1>40. Proper(Rule("Simple_Comma", <<>>))
  <2>1. ProperNone("Simple_Comma")
    BY NoneProper
  <2> QED
    BY <2>1 DEF ProperNone
<1>41. Proper(Rule("Simple_Comma", <<",", "Simple", "Simple_Comma">>))
  <2>1. ProperThree("Simple_Comma", ",", "Simple", "Simple_Comma")
    BY ThreeProper
  <2> QED
    BY <2>1 DEF ProperThree
<1>42. Proper(Rule("Call", <<"id", "(", ")">>))
  <2>1. ProperThree("Call", "id", "(", ")")
    BY ThreeProper
  <2> QED
    BY <2>1 DEF ProperThree
<1>43. Proper(Rule("Call", <<"id", "(", "Expr_List", ")">>))
  <2>1. ProperFour("Call", "id", "(", "Expr_List", ")")
    BY FourProper
  <2> QED
    BY <2>1 DEF ProperFour
<1>44. Proper(Rule("Expr_List", <<"Expr", "Expr_Comma">>))
  <2>1. ProperTwo("Expr_List", "Expr", "Expr_Comma")
    BY TwoProper
  <2> QED
    BY <2>1 DEF ProperTwo
<1>45. Proper(Rule("Expr_Comma", <<>>))
  <2>1. ProperNone("Expr_Comma")
    BY NoneProper
  <2> QED
    BY <2>1 DEF ProperNone
<1>46. Proper(Rule("Expr_Comma", <<",", "Expr", "Expr_Comma">>))
  <2>1. ProperThree("Expr_Comma", ",", "Expr", "Expr_Comma")
    BY ThreeProper
  <2> QED
    BY <2>1 DEF ProperThree
<1>47. Proper(Rule("Atom", <<"id">>))
  <2>1. ProperOne("Atom", "id")
    BY OneProper
  <2> QED
    BY <2>1 DEF ProperOne
<1>48. Proper(Rule("Atom", <<"Atom", "[", "Expr", "]">>))
  <2>1. ProperFour("Atom", "Atom", "[", "Expr", "]")
    BY FourProper
  <2> QED
    BY <2>1 DEF ProperFour
<1>49. Proper(Rule("Atom", <<"Call">>))
  <2>1. ProperOne("Atom", "Call")
    BY OneProper
  <2> QED
    BY <2>1 DEF ProperOne
<1>50. Proper(Rule("Expr", <<"const">>))
  <2>1. ProperOne("Expr", "const")
    BY OneProper
  <2> QED
    BY <2>1 DEF ProperOne
<1>51. Proper(Rule("Expr", <<"Atom">>))
  <2>1. ProperOne("Expr", "Atom")
    BY OneProper
  <2> QED
    BY <2>1 DEF ProperOne
<1> QED
  BY ZenonT(100), <1>1, <1>2, <1>3, <1>4, <1>5, <1>6, <1>7, <1>8, <1>9, <1>10, <1>11, <1>12, <1>13,
     <1>14, <1>15, <1>16, <1>17, <1>18, <1>19, <1>20, <1>21, <1>22, <1>23, <1>24, <1>25, <1>26,
     <1>27, <1>28, <1>29, <1>30, <1>31, <1>32, <1>33, <1>34, <1>35, <1>36, <1>37, <1>38, <1>39,
     <1>40, <1>41, <1>42, <1>43, <1>44, <1>45, <1>46, <1>47, <1>48, <1>49, <1>50, <1>51
     DEF Grammar

LEMMA RightSides ==
  ASSUME NEW rule \in Grammar
  PROVE  /\ IsRow(rule.rhs) /\ Len(rule.rhs) \in Nat
         /\ \A j \in 1 .. Len(rule.rhs) : rule.rhs[j] # "Program"
         /\ rule.lhs = "Program" => rule.rhs = <<"Func_def">>
BY EveryRuleProper, RowLength DEF Proper

-----------------------------------------------------------------------------
(* The stack of productions, and the row it has read so far.                 *)

GoodFrame(f) ==
  /\ f = [rule |-> f.rule, values |-> f.values]
  /\ f.rule \in Grammar
  /\ TypedUpTo(f.rule.rhs, f.values) /\ Len(f.values) <= Len(f.rule.rhs)

GoodFrames(fs) == IsRow(fs) /\ \A i \in 1 .. Len(fs) : GoodFrame(fs[i])

Read(f)      == FrameRow(f.rule.rhs, f.values)
Reads(fs)    == [i \in DOMAIN fs |-> Read(fs[i])]
StackRow(fs) == FlattenSeq(Reads(fs))

LEMMA ReadIsRow ==
  ASSUME NEW f, GoodFrame(f)
  PROVE  IsRow(Read(f))
BY FrameRowIs DEF GoodFrame, Read

LEMMA ReadsOfRow ==
  ASSUME NEW fs, GoodFrames(fs)
  PROVE  /\ AllRows(Reads(fs)) /\ Len(Reads(fs)) = Len(fs)
         /\ \A i \in 1 .. Len(fs) : Reads(fs)[i] = Read(fs[i])
<1>1. Len(fs) \in Nat /\ DOMAIN fs = 1 .. Len(fs)
  BY RowLength DEF GoodFrames
<1> DEFINE S == {Read(fs[i]) : i \in 1 .. Len(fs)}
<1>2. Reads(fs) \in [1 .. Len(fs) -> S] /\ \A i \in 1 .. Len(fs) : Reads(fs)[i] = Read(fs[i])
  BY <1>1 DEF Reads
<1> HIDE DEF S
<1>3. Reads(fs) \in Seq(S) /\ DOMAIN Reads(fs) = 1 .. Len(fs)
  BY <1>1, <1>2
<1>4. Len(Reads(fs)) = Len(fs)
  BY <1>1, <1>3, LenProperties
<1>5. IsRow(Reads(fs))
  BY <1>3, RowIf
<1>6. \A i \in 1 .. Len(fs) : IsRow(Read(fs[i]))
  BY ReadIsRow DEF GoodFrames
<1> QED
  BY <1>2, <1>4, <1>5, <1>6 DEF AllRows

LEMMA FramesOfMore ==
  ASSUME NEW lo, NEW f, IsRow(lo)
  PROVE  GoodFrames(Append(lo, f)) <=> GoodFrames(lo) /\ GoodFrame(f)
<1> DEFINE w == Append(lo, f)
           n == Len(lo)
<1>1. /\ IsRow(w) /\ Len(w) = n + 1 /\ n \in Nat
      /\ \A i \in 1 .. n : w[i] = lo[i]
      /\ w[n + 1] = f
  BY AppendToRow, RowLength
<1> HIDE DEF w, n
<1>2. ASSUME GoodFrames(w) PROVE (\A i \in 1 .. n : GoodFrame(lo[i])) /\ GoodFrame(f)
  BY <1>1, <1>2 DEF GoodFrames
<1>3. ASSUME \A i \in 1 .. n : GoodFrame(lo[i]), GoodFrame(f) PROVE \A i \in 1 .. Len(w) : GoodFrame(w[i])
  <2> TAKE i \in 1 .. Len(w)
  <2>1. i \in 1 .. n \/ i = n + 1
    BY <1>1
  <2> QED
    BY <1>1, <1>3, <2>1
<1>4. GoodFrames(w) <=> (\A i \in 1 .. n : GoodFrame(lo[i])) /\ GoodFrame(f)
  BY <1>1, <1>2, <1>3 DEF GoodFrames
<1> QED
  BY <1>4 DEF w, n, GoodFrames

LEMMA StackRowOfNone == StackRow(<<>>) = <<>>
<1>1. GoodFrames(<<>>)
  BY EmptyIsRow DEF GoodFrames
<1>2. Len(Reads(<<>>)) = 0 /\ IsRow(Reads(<<>>))
  BY <1>1, ReadsOfRow, EmptyIsRow DEF AllRows
<1>3. Reads(<<>>) = <<>>
  BY <1>2, OnlyEmpty
<1> QED
  BY <1>3, FlattenOfNone DEF StackRow

LEMMA StackRowOfMore ==
  ASSUME NEW lo, NEW f, GoodFrames(lo), GoodFrame(f)
  PROVE  StackRow(Append(lo, f)) = StackRow(lo) \o Read(f) /\ IsRow(StackRow(lo)) /\ IsRow(Read(f))
<1> DEFINE w == Append(lo, f)
           n == Len(lo)
           r == Reads(w)
           t == Append(Reads(lo), Read(f))
<1>1. /\ IsRow(w) /\ Len(w) = n + 1 /\ n \in Nat
      /\ \A i \in 1 .. n : w[i] = lo[i]
      /\ w[n + 1] = f
  BY AppendToRow, RowLength DEF GoodFrames
<1>2. GoodFrames(w)
  BY FramesOfMore DEF GoodFrames
<1> HIDE DEF w
<1>3. AllRows(r) /\ Len(r) = n + 1 /\ \A i \in 1 .. n + 1 : r[i] = Read(w[i])
  BY <1>1, <1>2, ReadsOfRow
<1>4. AllRows(Reads(lo)) /\ Len(Reads(lo)) = n /\ \A i \in 1 .. n : Reads(lo)[i] = Read(lo[i])
  BY ReadsOfRow
<1>5. /\ IsRow(t) /\ Len(t) = n + 1
      /\ \A i \in 1 .. n : t[i] = Reads(lo)[i]
      /\ t[n + 1] = Read(f)
  <2> DEFINE q == Reads(lo)
  <2>1. IsRow(q) /\ Len(q) = n
    BY <1>4 DEF AllRows
  <2> HIDE DEF q, n
  <2> QED
    BY <2>1, AppendToRow DEF q
<1> HIDE DEF r, t, n
<1>6. ASSUME NEW i \in 1 .. Len(r) PROVE r[i] = t[i]
  <2>1. i \in 1 .. n \/ i = n + 1
    BY <1>1, <1>3
  <2>2. r[i] = Read(w[i])
    BY <1>3
  <2>3. CASE i \in 1 .. n
    BY <1>1, <1>4, <1>5, <2>2, <2>3
  <2>4. CASE i = n + 1
    BY <1>1, <1>5, <2>2, <2>4
  <2> QED
    BY <2>1, <2>3, <2>4
<1>7. r = t
  <2>1. IsRow(r) /\ Len(r) = Len(t)
    BY <1>3, <1>5 DEF AllRows
  <2> QED
    BY <1>5, <1>6, <2>1, RowsEqual
<1>8. IsRow(Read(f))
  BY ReadIsRow
<1>9. FlattenSeq(t) = FlattenSeq(Reads(lo)) \o Read(f)
  BY <1>4, <1>8, FlattenOfMore DEF t
<1>10. IsRow(FlattenSeq(Reads(lo)))
  BY <1>4, FlattenIsRow
<1> QED
  BY <1>7, <1>8, <1>9, <1>10 DEF StackRow, r, w

\* A stack is its top on what lies below.
LEMMA StackEnds ==
  ASSUME NEW fs, IsRow(fs), fs # <<>>
  PROVE  /\ IsRow(Front(fs)) /\ fs = Append(Front(fs), Last(fs)) /\ Len(fs) = Len(Front(fs)) + 1
         /\ Len(Front(fs)) \in Nat
<1>1. PICK r, x : IsRow(r) /\ fs = Append(r, x) /\ Len(fs) = Len(r) + 1
  BY RowEnds
<1>2. Last(fs) = x
  BY <1>1, AppendToRow DEF Last
<1>3. Front(fs) = r
  <2> DEFINE g == Front(fs)
             S == Range(fs)
  <2>1. fs \in Seq(S) /\ Len(r) \in Nat /\ \A i \in 1 .. Len(r) : fs[i] = r[i]
    BY <1>1, AppendToRow, RowLength DEF IsRow
  <2> HIDE DEF S
  <2>2. g = SubSeq(fs, 1, Len(fs) - 1)
    BY DEF Front
  <2>3. g = SubSeq(fs, 1, Len(r))
    BY <1>1, <2>1, <2>2
  <2> HIDE DEF g
  <2>4. g \in Seq(S) /\ Len(g) = Len(r) /\ \A i \in 1 .. Len(r) : g[i] = fs[i]
    BY <1>1, <2>1, <2>3
  <2>5. IsRow(g)
    BY <2>4, RowIf
  <2>6. \A i \in 1 .. Len(g) : g[i] = r[i]
    BY <2>1, <2>4
  <2>7. g = r
    BY <1>1, <2>4, <2>5, <2>6, RowsEqual
  <2> QED
    BY <2>7 DEF g
<1> QED
  BY <1>1, <1>2, <1>3, RowLength
-----------------------------------------------------------------------------
(* The three moves on the stack.                                             *)

\* Every production but the first is there for the symbol the one below it
\* waits for.
StackOK(fs) ==
  /\ GoodFrames(fs) /\ fs # <<>> /\ fs[1].rule.lhs = "Program"
  /\ \A i \in 2 .. Len(fs) : /\ ~Complete(fs[i - 1]) /\ fs[i].rule.lhs = Expected(fs[i - 1])
                             /\ fs[i].rule.lhs # "Program"

LEMMA ExpectedIs ==
  ASSUME NEW f, GoodFrame(f), ~Complete(f)
  PROVE  /\ Expected(f) = f.rule.rhs[Len(f.values) + 1] /\ Expected(f) # "Program"
         /\ Len(f.values) \in Nat /\ Len(f.values) + 1 <= Len(f.rule.rhs)
<1>1. /\ Len(f.rule.rhs) \in Nat
      /\ \A j \in 1 .. Len(f.rule.rhs) : f.rule.rhs[j] # "Program"
  BY RightSides DEF GoodFrame
<1>2. Len(f.values) \in Nat /\ Len(f.values) <= Len(f.rule.rhs)
  BY RowLength DEF GoodFrame, TypedUpTo
<1>3. Len(f.values) + 1 \in 1 .. Len(f.rule.rhs)
  BY <1>1, <1>2 DEF Complete
<1> QED
  BY <1>1, <1>2, <1>3 DEF Expected

LEMMA HandOf ==
  ASSUME NEW lo, NEW f, IsRow(lo), f = [rule |-> f.rule, values |-> f.values], NEW x
  PROVE  Hand(Append(lo, f), x) = Append(lo, [rule |-> f.rule, values |-> Append(f.values, x)])
<1> DEFINE w == Append(lo, f)
           n == Len(lo)
           m == n + 1
           h == [rule |-> f.rule, values |-> Append(f.values, x)]
           u == Append(lo, h)
           S == Range(w) \cup {h}
           v == [w EXCEPT ![m] = h]
<1>1. /\ IsRow(w) /\ Len(w) = m /\ n \in Nat /\ m = n + 1
      /\ \A i \in 1 .. n : w[i] = lo[i]
      /\ w[m] = f
  BY AppendToRow, RowLength
<1>2. /\ IsRow(u) /\ Len(u) = m
      /\ \A i \in 1 .. n : u[i] = lo[i]
      /\ u[m] = h
  <2> HIDE DEF h
  <2> QED
    BY AppendToRow
<1>3. [f EXCEPT !.values = Append(@, x)] = h
  OBVIOUS
<1> HIDE DEF w, h, u, n
<1>4. Hand(w, x) = v
  <2>1. Hand(w, x) = [w EXCEPT ![Len(w)] = [w[Len(w)] EXCEPT !.values = Append(@, x)]]
    BY DEF Hand
  <2> QED
    BY <1>1, <1>3, <2>1
<1>5. w \in Seq(S) /\ h \in S
  BY <1>1, LongerIn
<1> HIDE DEF S, m
<1>6. m \in 1 .. Len(w)
  BY <1>1
<1>7. v \in Seq(S) /\ Len(v) = m /\ \A j \in 1 .. m : v[j] = IF j = m THEN h ELSE w[j]
  BY <1>1, <1>5, <1>6, ExceptSeq
<1> HIDE DEF v
<1>8. \A j \in 1 .. Len(v) : v[j] = u[j]
  <2> TAKE j \in 1 .. Len(v)
  <2>1. CASE j = m
    BY <1>1, <1>2, <1>6, <1>7, <2>1
  <2>2. CASE j # m
    <3>1. j \in 1 .. n /\ j \in 1 .. m
      BY <1>1, <1>7, <2>2
    <3> QED
      BY <1>1, <1>2, <1>7, <2>2, <3>1
  <2> QED
    BY <2>1, <2>2
<1>9. IsRow(v)
  BY <1>7, RowIf
<1>10. v = u
  BY <1>2, <1>7, <1>8, <1>9, RowsEqual
<1> QED
  BY <1>4, <1>10 DEF w, u, h

LEMMA StackTop ==
  ASSUME NEW fs, StackOK(fs)
  PROVE  /\ fs = Append(Front(fs), Last(fs)) /\ Len(fs) = Len(Front(fs)) + 1 /\ Len(Front(fs)) \in Nat
         /\ GoodFrames(Front(fs)) /\ GoodFrame(Last(fs))
         /\ \A i \in 1 .. Len(Front(fs)) : fs[i] = Front(fs)[i]
         /\ fs[Len(fs)] = Last(fs)
<1> DEFINE lo == Front(fs)
           f == Last(fs)
<1>1. IsRow(fs) /\ fs # <<>> /\ GoodFrames(fs)
  BY DEF StackOK, GoodFrames
<1>2. IsRow(lo) /\ fs = Append(lo, f) /\ Len(fs) = Len(lo) + 1 /\ Len(lo) \in Nat
  BY <1>1, StackEnds
<1>3. f = fs[Len(fs)]
  BY DEF Last
<1> HIDE DEF lo, f
<1>4. GoodFrames(lo) /\ GoodFrame(f)
  BY <1>1, <1>2, FramesOfMore
<1>5. \A i \in 1 .. Len(lo) : fs[i] = lo[i]
  BY <1>2, AppendToRow
<1> QED
  BY <1>2, <1>3, <1>4, <1>5 DEF lo, f

LEMMA StackGrows ==
  ASSUME NEW fs, StackOK(fs), ~Complete(Last(fs)),
         NEW rule \in Grammar, rule.lhs = Expected(Last(fs))
  PROVE  StackOK(Append(fs, Frame(rule))) /\ StackRow(Append(fs, Frame(rule))) = StackRow(fs)
<1> DEFINE e == Frame(rule)
           w == Append(fs, e)
           n == Len(fs)
<1>1. GoodFrames(fs) /\ IsRow(fs) /\ n \in Nat /\ n # 0 /\ GoodFrame(Last(fs)) /\ Last(fs) = fs[n]
  BY StackTop, RowLength DEF StackOK, GoodFrames
<1>2. /\ e = [rule |-> e.rule, values |-> e.values] /\ e.rule = rule /\ e.values = <<>>
  BY DEF Frame
<1> HIDE DEF e
<1>3. FrameRow(rule.rhs, <<>>) = <<>> /\ TypedUpTo(rule.rhs, <<>>)
  BY FrameRowOfNone
<1>4. GoodFrame(e) /\ Read(e) = <<>>
  <2>1. Len(<<>>) <= Len(rule.rhs)
    BY EmptyIsRow, RightSides
  <2> QED
    BY <1>2, <1>3, <2>1 DEF GoodFrame, Read
<1>5. /\ IsRow(w) /\ Len(w) = n + 1
      /\ \A i \in 1 .. n : w[i] = fs[i]
      /\ w[n + 1] = e
  BY <1>1, AppendToRow
<1>6. GoodFrames(w)
  BY <1>1, <1>4, FramesOfMore
<1>7. StackRow(w) = StackRow(fs) \o <<>> /\ IsRow(StackRow(fs))
  BY <1>1, <1>4, StackRowOfMore
<1>8. StackRow(w) = StackRow(fs)
  BY <1>7, NothingAround
<1> HIDE DEF w, n
<1>9. ASSUME NEW i \in 2 .. Len(w)
      PROVE  ~Complete(w[i - 1]) /\ w[i].rule.lhs = Expected(w[i - 1]) /\ w[i].rule.lhs # "Program"
  <2>1. CASE i \in 2 .. n
    <3>1. i - 1 \in 1 .. n /\ i \in 1 .. n
      BY <1>1, <2>1
    <3>2. w[i] = fs[i] /\ w[i - 1] = fs[i - 1]
      BY <1>5, <3>1
    <3> QED
      BY <2>1, <3>2 DEF StackOK, n
  <2>2. CASE i \notin 2 .. n
    <3>1. i = n + 1 /\ i - 1 = n /\ n \in 1 .. n
      BY <1>1, <1>5, <2>2
    <3>2. w[i] = e /\ w[i - 1] = Last(fs)
      BY <1>1, <1>5, <3>1
    <3> QED
      BY <1>1, <1>2, <3>2, ExpectedIs
  <2> QED
    BY <2>1, <2>2
<1>10. w[1] = fs[1] /\ w # <<>>
  <2>1. 1 \in 1 .. n /\ Len(w) # 0
    BY <1>1, <1>5
  <2> QED
    BY <1>5, <2>1, NotEmpty
<1>11. StackOK(w)
  BY <1>6, <1>9, <1>10 DEF StackOK
<1> QED
  BY <1>8, <1>11 DEF w, e

LEMMA StackHands ==
  ASSUME NEW fs, StackOK(fs), ~Complete(Last(fs)), NEW x, HasType(Expected(Last(fs)), x)
  PROVE  /\ StackOK(Hand(fs, x)) /\ Len(Hand(fs, x)) = Len(fs)
         /\ StackRow(Hand(fs, x)) = StackRow(fs) \o Items(Expected(Last(fs)), x)
         /\ IsRow(StackRow(fs)) /\ IsRow(Items(Expected(Last(fs)), x))
<1> DEFINE lo == Front(fs)
           f == Last(fs)
           s == Expected(f)
           h == [rule |-> f.rule, values |-> Append(f.values, x)]
           w == Append(lo, h)
           n == Len(lo)
<1>1. /\ fs = Append(lo, f) /\ Len(fs) = n + 1 /\ n \in Nat /\ GoodFrames(lo) /\ GoodFrame(f)
      /\ \A i \in 1 .. n : fs[i] = lo[i]
      /\ fs[n + 1] = f
  BY StackTop
<1>2. HasType(s, x) /\ ~Complete(f)
  OBVIOUS
<1>3. h.rule = f.rule /\ h.values = Append(f.values, x) /\ h = [rule |-> h.rule, values |-> h.values]
  OBVIOUS
<1> HIDE DEF lo, f, h
<1>4. Hand(fs, x) = w
  BY <1>1, HandOf DEF GoodFrame, GoodFrames, h
<1>5. s = f.rule.rhs[Len(f.values) + 1] /\ Len(f.values) \in Nat /\ Len(f.values) + 1 <= Len(f.rule.rhs)
  BY <1>1, <1>2, ExpectedIs
<1>6. /\ TypedUpTo(f.rule.rhs, Append(f.values, x))
      /\ FrameRow(f.rule.rhs, Append(f.values, x)) = FrameRow(f.rule.rhs, f.values) \o Items(s, x)
  <2> DEFINE rhs == f.rule.rhs
             v == f.values
  <2>1. TypedUpTo(rhs, v) /\ HasType(rhs[Len(v) + 1], x) /\ s = rhs[Len(v) + 1]
    BY <1>1, <1>2, <1>5 DEF GoodFrame
  <2> HIDE DEF rhs, v, s
  <2>2. TypedUpTo(rhs, Append(v, x)) /\ FrameRow(rhs, Append(v, x)) = FrameRow(rhs, v) \o Items(s, x)
    BY <2>1, FrameRowOfMore
  <2> QED
    BY <2>2 DEF rhs, v
<1>7. Len(Append(f.values, x)) = Len(f.values) + 1
  BY <1>1, AppendToRow DEF GoodFrame, TypedUpTo
<1>8. GoodFrame(h) /\ Read(h) = Read(f) \o Items(s, x)
  BY <1>1, <1>3, <1>5, <1>6, <1>7 DEF GoodFrame, Read
<1> HIDE DEF s, w, n
<1>9. GoodFrames(w)
  BY <1>1, <1>8, FramesOfMore DEF GoodFrames, w
<1>10. /\ StackRow(w) = StackRow(lo) \o Read(h) /\ StackRow(fs) = StackRow(lo) \o Read(f)
       /\ IsRow(StackRow(lo)) /\ IsRow(Read(f))
  BY <1>1, <1>8, StackRowOfMore DEF w
<1>11. IsRow(Items(s, x))
  BY <1>2, ItemsIsRow
<1>12. StackRow(w) = StackRow(fs) \o Items(s, x) /\ IsRow(StackRow(fs))
  <2>1. (StackRow(lo) \o Read(f)) \o Items(s, x) = StackRow(lo) \o (Read(f) \o Items(s, x))
    BY <1>10, <1>11, Associative
  <2>2. IsRow(StackRow(lo) \o Read(f))
    BY <1>10, ConcatOfRows
  <2> QED
    BY <1>8, <1>10, <2>1, <2>2
<1>13. /\ IsRow(w) /\ Len(w) = n + 1
       /\ \A i \in 1 .. n : w[i] = lo[i]
       /\ w[n + 1] = h
  BY <1>1, AppendToRow DEF w, n, GoodFrames
<1>14. \A i \in 1 .. n + 1 : w[i].rule = fs[i].rule
  <2> TAKE i \in 1 .. n + 1
  <2>1. i \in 1 .. n \/ i = n + 1
    BY <1>1
  <2> QED
    BY <1>1, <1>3, <1>13, <2>1
<1>15. ASSUME NEW i \in 2 .. Len(w)
       PROVE  ~Complete(w[i - 1]) /\ w[i].rule.lhs = Expected(w[i - 1]) /\ w[i].rule.lhs # "Program"
  <2>1. i \in 2 .. Len(fs) /\ i - 1 \in 1 .. n /\ i \in 1 .. n + 1
    BY <1>1, <1>13
  <2>2. w[i - 1] = fs[i - 1] /\ w[i].rule = fs[i].rule
    BY <1>1, <1>13, <1>14, <2>1
  <2> QED
    BY <2>1, <2>2 DEF StackOK
<1>16. w[1].rule.lhs = "Program" /\ w # <<>>
  <2>1. 1 \in 1 .. n + 1 /\ Len(w) # 0
    BY <1>1, <1>13
  <2>2. w[1].rule = fs[1].rule
    BY <1>14, <2>1
  <2> QED
    BY <2>1, <2>2, NotEmpty DEF StackOK
<1>17. StackOK(w)
  BY <1>9, <1>15, <1>16 DEF StackOK
<1> QED
  BY <1>1, <1>4, <1>11, <1>12, <1>13, <1>17 DEF s, f

LEMMA StackShrinks ==
  ASSUME NEW fs, StackOK(fs), Len(fs) > 1
  PROVE  /\ StackOK(Front(fs)) /\ ~Complete(Last(Front(fs))) /\ Len(Front(fs)) = Len(fs) - 1
         /\ Last(fs).rule.lhs = Expected(Last(Front(fs))) /\ Last(fs).rule.lhs # "Program"
         /\ GoodFrame(Last(fs))
         /\ StackRow(fs) = StackRow(Front(fs)) \o Read(Last(fs))
         /\ IsRow(StackRow(Front(fs))) /\ IsRow(Read(Last(fs)))
<1> DEFINE lo == Front(fs)
           f == Last(fs)
           n == Len(lo)
<1>1. /\ fs = Append(lo, f) /\ Len(fs) = n + 1 /\ n \in Nat /\ GoodFrames(lo) /\ GoodFrame(f)
      /\ \A i \in 1 .. n : fs[i] = lo[i]
      /\ fs[n + 1] = f
  BY StackTop
<1>2. Last(lo) = lo[n]
  BY DEF Last
<1> HIDE DEF lo, f, n
<1>3. StackRow(fs) = StackRow(lo) \o Read(f) /\ IsRow(StackRow(lo)) /\ IsRow(Read(f))
  BY <1>1, StackRowOfMore
<1>4. n \in 1 .. n /\ n + 1 \in 2 .. Len(fs) /\ (n + 1) - 1 = n /\ 1 \in 1 .. n
  BY <1>1
<1>5. ~Complete(fs[n]) /\ f.rule.lhs = Expected(fs[n]) /\ f.rule.lhs # "Program"
  <2> DEFINE m == n + 1
  <2>1. m \in 2 .. Len(fs) /\ m - 1 = n /\ fs[m] = f
    BY <1>1, <1>4
  <2> HIDE DEF m
  <2> QED
    BY <2>1 DEF StackOK
<1>6. fs[n] = Last(lo) /\ lo[1] = fs[1]
  BY <1>1, <1>2, <1>4
<1>7. ASSUME NEW i \in 2 .. Len(lo)
      PROVE  ~Complete(lo[i - 1]) /\ lo[i].rule.lhs = Expected(lo[i - 1]) /\ lo[i].rule.lhs # "Program"
  <2>1. i \in 2 .. Len(fs) /\ i - 1 \in 1 .. n /\ i \in 1 .. n
    BY <1>1 DEF n
  <2>2. lo[i - 1] = fs[i - 1] /\ lo[i] = fs[i]
    BY <1>1, <2>1
  <2> QED
    BY <2>1, <2>2 DEF StackOK
<1>8. lo # <<>>
  <2>1. Len(lo) # 0
    BY <1>1, <1>4 DEF n
  <2> QED
    BY <2>1, NotEmpty
<1>9. lo[1].rule.lhs = "Program"
  BY <1>6 DEF StackOK
<1>10. StackOK(lo)
  BY <1>1, <1>7, <1>8, <1>9 DEF StackOK
<1>11. Len(lo) = Len(fs) - 1
  BY <1>1 DEF n
<1> QED
  BY <1>1, <1>3, <1>5, <1>6, <1>10, <1>11 DEF lo, f
-----------------------------------------------------------------------------
(* The invariant: the values of the productions on the stack spell the       *)
(* program that has been read.                                               *)

ParserInv ==
  /\ terminals \subseteq Terminals
  /\ StackOK(frames)
  /\ AllTokens(tokens) /\ \A i \in 1 .. Len(tokens) : tokens[i].node \in terminals
  /\ reductions \in Nat
  /\ Spells(StackRow(frames), reductions, tokens)
  /\ root # NULL => Len(frames) = 1 /\ Complete(frames[1]) /\ root = frames[1].values[1]

\* A value is put in the place of what it was made of: a round more is needed
\* where the value is a tree.
LEMMA RowMade ==
  ASSUME NEW a, NEW b, NEW c, IsRow(a), IsRow(b), NEW n \in Nat, NEW out,
         AllTokens(out), Spells(a \o b, n, out),
         c = b \/ \E y : c = <<y>> /\ Parts(y) = b
  PROVE  Spells(a \o c, n + 1, out)
<1>1. CASE c = b
  BY <1>1, SpellOnceMore
<1>2. ASSUME NEW y, c = <<y>>, Parts(y) = b PROVE Spells(a \o c, n + 1, out)
  <2>1. PICK p, q : out = p \o q /\ Spells(a, n, p) /\ Spells(b, n, q)
    BY SpellApart
  <2>2. IsRow(p) /\ IsRow(q)
    <3>1. n \in 0 .. n
      OBVIOUS
    <3> QED
      BY <2>1, <3>1 DEF Spells, Expandable
  <2>3. AllTokens(p)
    BY <2>1, <2>2, TokensApart
  <2>4. Spells(a, n + 1, p)
    BY <2>1, <2>3, SpellOnceMore
  <2>5. Spells(Parts(y), n, q) /\ IsRow(Parts(y))
    BY <1>2, <2>1
  <2>6. Spells(<<y>>, n + 1, q)
    BY <2>5, SpellParts
  <2>7. Spells(c, n + 1, q)
    BY <1>2, <2>6
  <2>8. n + 1 \in Nat
    OBVIOUS
  <2> QED
    BY <2>1, <2>4, <2>7, <2>8, SpellTogether
<1> QED
  BY <1>1, <1>2

\* A token is a value of its symbol, and stands for itself.
LEMMA TokenFits ==
  ASSUME NEW s \in Terminals
  PROVE  /\ HasType(s, Token(s)) /\ Items(s, Token(s)) = <<Token(s)>> /\ Parts(Token(s)) = <<Token(s)>>
         /\ Token(s).node = s
<1>1. Token(s).node = s
  BY DEF Token
<1>2. Parts(Token(s)) = <<Token(s)>>
  BY <1>1 DEF Parts, Terminals, Payload
<1>3. s \notin Lists /\ s \notin {"Elsif_Clause", "Else_Clause"}
  BY DEF Terminals, Payload, Lists
<1>4. Items(s, Token(s)) = <<Token(s)>>
  BY <1>3, PlainItems
<1>5. CASE s \in Payload
  <2>1. s \in Classes(s)
    BY <1>5 DEF Classes, Payload
  <2>2. s \notin Terminals \ Payload
    BY <1>5
  <2> QED
    BY <1>1, <1>2, <1>3, <1>4, <2>1, <2>2, NodeTypes
<1>6. CASE s \notin Payload
  <2>1. Token(s) = Word(s)
    BY <1>6 DEF Token, Word
  <2> QED
    BY <1>1, <1>2, <1>4, <1>6, <2>1, WordTypes
<1> QED
  BY <1>5, <1>6

LEMMA NoRoot ==
  ASSUME ParserInv, ~Complete(Last(frames))
  PROVE  root = NULL
<1>1. ASSUME root # NULL PROVE FALSE
  <2>1. Len(frames) = 1 /\ Complete(frames[1])
    BY <1>1 DEF ParserInv
  <2>2. Last(frames) = frames[1]
    BY <2>1 DEF Last
  <2> QED
    BY <2>1, <2>2
<1> QED
  BY <1>1

LEMMA ParserStarts == Init => ParserInv
<1> SUFFICES ASSUME Init PROVE ParserInv
  OBVIOUS
<1> DEFINE P == Rule("Program", <<"Func_def">>)
           f == Frame(P)
<1>1. P \in Grammar /\ P.lhs = "Program"
  <2>1. P \in Grammar
    BY Zenon DEF Grammar
  <2>2. P.lhs = "Program"
    BY DEF Rule
  <2> QED
    BY <2>1, <2>2
<1>2. frames = <<f>> /\ tokens = <<>> /\ root = NULL /\ reductions = 0 /\ terminals \in Vocabularies
  BY DEF Init
<1> HIDE DEF P
<1>3. f = [rule |-> f.rule, values |-> f.values] /\ f.rule = P /\ f.values = <<>>
  BY DEF Frame
<1> HIDE DEF f
<1>4. GoodFrame(f) /\ Read(f) = <<>>
  <2>1. FrameRow(P.rhs, <<>>) = <<>> /\ TypedUpTo(P.rhs, <<>>)
    BY FrameRowOfNone
  <2>2. Len(<<>>) <= Len(P.rhs)
    BY <1>1, EmptyIsRow, RightSides
  <2> QED
    BY <1>1, <1>3, <2>1, <2>2 DEF GoodFrame, Read
<1>5. IsRow(<<f>>) /\ Len(<<f>>) = 1 /\ <<f>>[1] = f
  BY OneIsRow
<1> DEFINE w == <<f>>
<1>6. frames = w /\ IsRow(w) /\ Len(w) = 1 /\ w[1] = f
  BY <1>2, <1>5
<1>7. w = Append(<<>>, f)
  BY EmptyIsRow, AppendToRow, OneIsRow, NothingAround
<1> HIDE DEF w
<1>8. GoodFrames(w)
  BY <1>4, <1>6 DEF GoodFrames
<1>9. w # <<>>
  BY <1>6, NotEmpty
<1>10. StackOK(w)
  BY <1>1, <1>3, <1>6, <1>8, <1>9 DEF StackOK
<1>11. StackRow(w) = <<>>
  <2>1. GoodFrames(<<>>)
    BY EmptyIsRow DEF GoodFrames
  <2>2. StackRow(w) = StackRow(<<>>) \o Read(f)
    BY <1>4, <1>7, <2>1, StackRowOfMore
  <2>3. <<>> \o <<>> = <<>>
    BY EmptyIsRow, NothingAround
  <2> QED
    BY <1>4, <2>2, <2>3, StackRowOfNone
<1>12. AllTokens(<<>>) /\ Len(<<>>) = 0
  BY EmptyIsRow DEF AllTokens
<1>13. Spells(<<>>, 0, <<>>)
  BY <1>12, TokensSpell
<1>14. terminals \subseteq Terminals
  BY <1>2, ParserAssumption
<1> QED
  BY <1>2, <1>6, <1>10, <1>11, <1>12, <1>13, <1>14 DEF ParserInv

LEMMA ParserDerives == ParserInv /\ Derive => ParserInv'
<1> SUFFICES ASSUME ParserInv, Derive PROVE ParserInv'
  OBVIOUS
<1>1. PICK rule \in Grammar : rule.lhs = Expected(Last(frames)) /\ frames' = Append(frames, Frame(rule))
  BY DEF Derive
<1>2. /\ ~Complete(Last(frames))
      /\ terminals' = terminals /\ tokens' = tokens /\ root' = root /\ reductions' = reductions
  BY DEF Derive
<1>3. StackOK(frames') /\ StackRow(frames') = StackRow(frames)
  BY <1>1, <1>2, StackGrows DEF ParserInv
<1>4. root = NULL
  BY <1>2, NoRoot
<1> QED
  BY <1>2, <1>3, <1>4 DEF ParserInv

LEMMA ParserShifts == ParserInv /\ Shift => ParserInv'
<1> SUFFICES ASSUME ParserInv, Shift PROVE ParserInv'
  OBVIOUS
<1> DEFINE s == Expected(Last(frames))
           t == Token(s)
           q == <<t>>
<1>1. /\ ~Complete(Last(frames)) /\ s \in terminals
      /\ tokens' = Append(tokens, t) /\ frames' = Hand(frames, t)
      /\ terminals' = terminals /\ root' = root /\ reductions' = reductions
  BY DEF Shift
<1>2. s \in Terminals
  BY <1>1 DEF ParserInv
<1>3. HasType(s, t) /\ Items(s, t) = q /\ Parts(t) = q /\ t.node = s
  BY <1>2, TokenFits
<1>4. StackOK(frames') /\ StackRow(frames') = StackRow(frames) \o Items(s, t)
  BY <1>1, <1>3, StackHands DEF ParserInv
<1>5. root = NULL
  BY <1>1, NoRoot
<1>6. AllTokens(q)
  BY <1>3, OneToken
<1>7. AllTokens(tokens) /\ IsRow(tokens) /\ Len(tokens) \in Nat
  BY RowLength DEF ParserInv, AllTokens
<1>8. /\ tokens' = tokens \o q /\ Len(tokens') = Len(tokens) + 1
      /\ \A i \in 1 .. Len(tokens) : tokens'[i] = tokens[i]
      /\ tokens'[Len(tokens) + 1] = t
  BY <1>1, <1>7, AppendToRow
<1> HIDE DEF s, t, q
<1>9. AllTokens(tokens')
  BY <1>6, <1>7, <1>8, TokensTogether
<1>10. Spells(StackRow(frames'), reductions', tokens')
  <2>1. Spells(q, reductions, q) /\ reductions \in Nat
    BY <1>6, TokensSpell DEF ParserInv
  <2>2. Spells(StackRow(frames) \o q, reductions, tokens \o q)
    BY <2>1, SpellTogether DEF ParserInv
  <2> QED
    BY <1>1, <1>3, <1>4, <1>8, <2>2
<1>11. \A i \in 1 .. Len(tokens') : tokens'[i].node \in terminals'
  <2> TAKE i \in 1 .. Len(tokens')
  <2>1. i \in 1 .. Len(tokens) \/ i = Len(tokens) + 1
    BY <1>7, <1>8
  <2>2. CASE i \in 1 .. Len(tokens)
    BY <1>1, <1>8, <2>2 DEF ParserInv
  <2>3. CASE i = Len(tokens) + 1
    BY <1>1, <1>3, <1>8, <2>3
  <2> QED
    BY <2>1, <2>2, <2>3
<1> QED
  BY <1>1, <1>4, <1>5, <1>9, <1>10, <1>11 DEF ParserInv

LEMMA ParserReduces == ParserInv /\ Reduce => ParserInv'
<1> SUFFICES ASSUME ParserInv, Reduce PROVE ParserInv'
  OBVIOUS
<1> DEFINE lo == Front(frames)
           f == Last(frames)
           rhs == f.rule.rhs
           lhs == f.rule.lhs
           v == f.values
           x == Value(lhs, v)
           s == Expected(Last(lo))
           a == StackRow(lo)
           c == Items(lhs, x)
<1>1. /\ Len(frames) > 1 /\ Complete(f) /\ frames' = Hand(lo, x) /\ reductions' = reductions + 1
      /\ terminals' = terminals /\ tokens' = tokens /\ root' = root
  BY DEF Reduce
<1>2. /\ StackOK(lo) /\ ~Complete(Last(lo)) /\ lhs = s /\ lhs # "Program" /\ GoodFrame(f)
      /\ StackRow(frames) = a \o Read(f) /\ IsRow(a) /\ IsRow(Read(f))
  BY <1>1, StackShrinks DEF ParserInv
<1>3. Typed(rhs, v)
  BY <1>1, <1>2 DEF GoodFrame, Complete, Typed
<1>4. Read(f) = FrameRow(rhs, v) /\ f.rule \in Grammar
  BY <1>2 DEF Read, GoodFrame
<1>5. Made(lhs, rhs, v)
  <2>1. Keeps(f.rule)
    BY <1>2, <1>4, EveryRule
  <2> QED
    BY <1>3, <2>1 DEF Keeps
<1>6. HasType(lhs, x) /\ (c = Read(f) \/ \E y : c = <<y>> /\ Parts(y) = Read(f))
  BY <1>4, <1>5 DEF Made
<1> HIDE DEF lo, f, rhs, lhs, v, x, s, a, c
<1>7. StackOK(frames') /\ StackRow(frames') = a \o c
  BY <1>1, <1>2, <1>6, StackHands DEF s, a, c
<1>8. AllTokens(tokens) /\ reductions \in Nat /\ Spells(a \o Read(f), reductions, tokens)
  BY <1>2 DEF ParserInv
<1>9. Spells(a \o c, reductions + 1, tokens)
  BY <1>2, <1>6, <1>8, RowMade
<1>10. root = NULL
  <2>1. Len(frames) # 1
    <3>1. Len(frames) \in Nat
      BY RowLength DEF ParserInv, StackOK, GoodFrames
    <3>2. Len(frames) > 1
      BY <1>1
    <3> DEFINE m == Len(frames)
    <3>3. m \in Nat /\ m > 1
      BY <3>1, <3>2
    <3> HIDE DEF m
    <3>4. m # 1
      BY <3>3
    <3> QED
      BY <3>4 DEF m
  <2> QED
    BY <2>1 DEF ParserInv
<1>11. reductions + 1 \in Nat
  BY <1>8
<1> QED
  BY <1>1, <1>7, <1>9, <1>10, <1>11 DEF ParserInv

LEMMA ParserAccepts == ParserInv /\ Accept => ParserInv'
<1> SUFFICES ASSUME ParserInv, Accept PROVE ParserInv'
  OBVIOUS
<1> QED
  BY DEF ParserInv, Accept

LEMMA ParserInvariant == Spec => []ParserInv
<1>1. Init => ParserInv
  BY ParserStarts
<1>2. ParserInv /\ [Next]_vars => ParserInv'
  <2>1. ASSUME ParserInv, UNCHANGED vars PROVE ParserInv'
    BY <2>1 DEF ParserInv, vars
  <2> QED
    BY <2>1, ParserDerives, ParserShifts, ParserReduces, ParserAccepts DEF Next
<1> QED
  BY <1>1, <1>2, PTL DEF Spec

-----------------------------------------------------------------------------
(* The theorems.                                                             *)

\* The root: the value of the one production of the start symbol.
LEMMA RootIs ==
  ASSUME ParserInv, root # NULL
  PROVE  HasType("Func_def", root) /\ StackRow(frames) = <<root>>
<1> DEFINE f == frames[1]
           v == f.values
           r == <<"Func_def">>
           w == frames
<1>1. Len(w) = 1 /\ Complete(f) /\ root = v[1] /\ StackOK(w)
  BY DEF ParserInv
<1>2. f.rule.lhs = "Program" /\ GoodFrames(w) /\ IsRow(w) /\ GoodFrame(f)
  BY <1>1 DEF StackOK, GoodFrames
<1>3. f.rule.rhs = r
  BY <1>2, RightSides DEF GoodFrame
<1>4. Typed(r, v)
  BY <1>1, <1>2, <1>3 DEF GoodFrame, Complete, Typed
<1>5. HasType("Func_def", v[1]) /\ FrameRow(r, v) = Items("Func_def", v[1])
  <2>1. ReadOne("Func_def", v)
    BY OneRead
  <2> QED
    BY <1>4, <2>1 DEF ReadOne
<1>6. Items("Func_def", v[1]) = <<v[1]>>
  BY PlainItems DEF Lists
<1>7. Read(f) = <<v[1]>>
  BY <1>3, <1>5, <1>6 DEF Read
<1> HIDE DEF w, f, v, r
<1>8. w = Append(<<>>, f)
  <2> DEFINE u == Append(<<>>, f)
  <2>1. IsRow(u) /\ Len(u) = 1 /\ u[1] = f
    <3> DEFINE e == <<>>
    <3>1. IsRow(e) /\ Len(e) = 0
      BY EmptyIsRow
    <3> HIDE DEF e
    <3>2. IsRow(Append(e, f)) /\ Len(Append(e, f)) = Len(e) + 1 /\ Append(e, f)[Len(e) + 1] = f
      BY <3>1, AppendToRow
    <3> QED
      BY <3>1, <3>2 DEF e
  <2>2. w[1] = f
    BY DEF w, f
  <2> HIDE DEF u
  <2>3. \A i \in 1 .. Len(w) : w[i] = u[i]
    BY <1>1, <2>1, <2>2
  <2>4. w = u
    BY <1>1, <1>2, <2>1, <2>3, RowsEqual
  <2> QED
    BY <2>4 DEF u
<1>9. StackRow(w) = StackRow(<<>>) \o Read(f)
  <2>1. GoodFrames(<<>>)
    BY EmptyIsRow DEF GoodFrames
  <2> QED
    BY <1>2, <1>8, <2>1, StackRowOfMore
<1>10. <<>> \o Read(f) = Read(f)
  BY <1>2, ReadIsRow, NothingAround
<1> QED
  BY <1>1, <1>5, <1>7, <1>9, <1>10, StackRowOfNone DEF w

\* Every value has the type its symbol has in the grammar, and the root is a
\* function.
THEOREM ValuesHaveTheirTypes == Spec => []ParserTypeOK
<1>1. ParserInv => ParserTypeOK
  <2> SUFFICES ASSUME ParserInv PROVE ParserTypeOK
    OBVIOUS
  <2>1. /\ StackOK(frames) /\ IsRow(frames) /\ DOMAIN frames = 1 .. Len(frames) /\ Len(frames) \in Nat
    BY RowLength DEF ParserInv, StackOK, GoodFrames
  <2>2. DOMAIN tokens = 1 .. Len(tokens)
    BY RowLength DEF ParserInv, AllTokens
  <2>3. \A i \in DOMAIN tokens : tokens[i].node \in terminals
    BY <2>2 DEF ParserInv
  <2>4. ASSUME NEW i \in DOMAIN frames
        PROVE  /\ frames[i].rule \in Grammar /\ Len(frames[i].values) <= Len(frames[i].rule.rhs)
               /\ \A j \in DOMAIN frames[i].values : HasType(frames[i].rule.rhs[j], frames[i].values[j])
               /\ i > 1 => ~Complete(frames[i - 1]) /\ frames[i].rule.lhs = Expected(frames[i - 1])
    <3> DEFINE f == frames[i]
    <3>1. GoodFrame(f)
      BY <2>1 DEF StackOK, GoodFrames
    <3>2. i > 1 => ~Complete(frames[i - 1]) /\ f.rule.lhs = Expected(frames[i - 1])
      <4>1. i > 1 => i \in 2 .. Len(frames)
        BY <2>1
      <4> QED
        BY <2>1, <4>1 DEF StackOK
    <3> HIDE DEF f
    <3>3. DOMAIN f.values = 1 .. Len(f.values)
      BY <3>1, RowLength DEF GoodFrame, TypedUpTo
    <3>4. /\ f.rule \in Grammar /\ Len(f.values) <= Len(f.rule.rhs)
          /\ \A j \in DOMAIN f.values : HasType(f.rule.rhs[j], f.values[j])
      BY <3>1, <3>3 DEF GoodFrame, TypedUpTo
    <3> QED
      BY <3>2, <3>4 DEF f
  <2>5. root = NULL \/ HasType("Func_def", root)
    BY RootIs
  <2>6. frames # <<>> /\ frames[1].rule.lhs = "Program"
    BY <2>1 DEF StackOK
  <2> QED
    BY <2>3, <2>4, <2>5, <2>6 DEF ParserTypeOK
<1> QED
  BY <1>1, ParserInvariant, PTL

\* The tree is the program, for programs of any length and depth.
THEOREM TheTreeIsTheProgram == Spec => []TreeIsTheProgram
<1>1. ParserInv => TreeIsTheProgram
  <2> SUFFICES ASSUME ParserInv, root # NULL PROVE Text(<<root>>, reductions) = tokens
    BY DEF TreeIsTheProgram
  <2>1. StackRow(frames) = <<root>>
    BY RootIs
  <2> QED
    BY <2>1 DEF ParserInv, Spells
<1> QED
  BY <1>1, ParserInvariant, PTL
=============================================================================
