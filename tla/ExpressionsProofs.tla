---------------------- MODULE ExpressionsProofs ----------------------
(* Proofs about Expressions: what variables and operands hold, for programs  *)
(* of any size and over any declared types.                                  *)
(*                                                                           *)
(* Equality of types is not transitive, because of `any`, so a value may     *)
(* come to a type it does not have.  The proof rests on two things: which    *)
(* types have an `any` in them at all (lists of lists of nothing), and what  *)
(* a value of such a type can be.                                            *)
EXTENDS Expressions, LeastNumbers, SequenceTheorems, FiniteSetTheorems

-----------------------------------------------------------------------------
(* What a value holds, level by level.                                       *)

\* What the lists of S hold.
Elements(S) == UNION {Range(w.elems) : w \in {u \in S : u.tag = "list"}}

\* f are the levels of v, down to the n-th.
Levels(f, v, n) == f = [k \in 0 .. n |-> IF k = 0 THEN {v} ELSE Elements(f[k - 1])]

LEMMA OneMoreLevel ==
  ASSUME NEW v, NEW n \in Nat, NEW f, Levels(f, v, n)
  PROVE  \E g : Levels(g, v, n + 1)
<1> DEFINE g == [k \in 0 .. n + 1 |-> IF k = n + 1 THEN Elements(f[n]) ELSE f[k]]
<1>1. \A k \in 0 .. n : f[k] = IF k = 0 THEN {v} ELSE Elements(f[k - 1])
  BY DEF Levels
<1>2. /\ \A k \in 0 .. n : g[k] = f[k]
      /\ g[n + 1] = Elements(f[n])
      /\ g = [k \in 0 .. n + 1 |-> g[k]]
  OBVIOUS
<1> HIDE DEF g
<1>3. ASSUME NEW k \in 0 .. n + 1
      PROVE  g[k] = IF k = 0 THEN {v} ELSE Elements(g[k - 1])
  <2>1. CASE k = n + 1
    <3>1. k - 1 = n /\ n \in 0 .. n /\ k # 0
      BY <2>1
    <3> QED
      BY <1>2, <2>1, <3>1
  <2>2. CASE k # n + 1
    <3>1. k \in 0 .. n /\ (k # 0 => k - 1 \in 0 .. n)
      BY <2>2
    <3> QED
      BY <1>1, <1>2, <3>1
  <2> QED
    BY <2>1, <2>2
<1>4. Levels(g, v, n + 1)
  BY <1>2, <1>3 DEF Levels
<1> QED
  BY <1>4

LEMMA LevelsExist ==
  ASSUME NEW v, NEW n \in Nat
  PROVE  \E f : Levels(f, v, n)
<1> DEFINE fails == {k \in Nat : ~\E f : Levels(f, v, k)}
<1>1. 0 \notin fails
  <2> DEFINE f == [k \in 0 .. 0 |-> {v}]
  <2>1. Levels(f, v, 0)
    BY DEF Levels
  <2> QED
    BY <2>1
<1>2. ASSUME fails # {} PROVE FALSE
  <2>1. PICK k \in fails : \A x \in fails : k <= x
    <3>1. fails \subseteq Nat
      OBVIOUS
    <3> HIDE DEF fails
    <3> QED
      BY <1>2, <3>1, LeastNumber
  <2>2. k \in Nat /\ k # 0
    BY <1>1
  <2>3. k - 1 \in Nat /\ ~(k <= k - 1) /\ (k - 1) + 1 = k
    BY <2>2
  <2>4. PICK f : Levels(f, v, k - 1)
    BY <2>1, <2>3
  <2>5. \E g : Levels(g, v, (k - 1) + 1)
    BY <2>3, <2>4, OneMoreLevel
  <2> QED
    BY <2>3, <2>5
<1> QED
  BY <1>2

LEMMA LevelsAgree ==
  ASSUME NEW v, NEW n \in Nat, NEW m \in Nat, NEW f, Levels(f, v, n), NEW g, Levels(g, v, m),
         NEW j \in 0 .. n, j \in 0 .. m
  PROVE  f[j] = g[j]
<1> DEFINE fails == {k \in Nat : k \in 0 .. n /\ k \in 0 .. m /\ f[k] # g[k]}
<1>1. /\ \A k \in 0 .. n : f[k] = IF k = 0 THEN {v} ELSE Elements(f[k - 1])
      /\ \A k \in 0 .. m : g[k] = IF k = 0 THEN {v} ELSE Elements(g[k - 1])
  BY DEF Levels
<1>2. ASSUME fails # {} PROVE FALSE
  <2>1. PICK k \in fails : \A x \in fails : k <= x
    <3>1. fails \subseteq Nat
      OBVIOUS
    <3> HIDE DEF fails
    <3> QED
      BY <1>2, <3>1, LeastNumber
  <2>2. k \in Nat /\ k \in 0 .. n /\ k \in 0 .. m /\ f[k] # g[k]
    OBVIOUS
  <2>3. k # 0
    BY <1>1, <2>2
  <2>4. k - 1 \in Nat /\ k - 1 \in 0 .. n /\ k - 1 \in 0 .. m /\ ~(k <= k - 1)
    BY <2>2, <2>3
  <2>5. f[k - 1] = g[k - 1]
    BY <2>1, <2>4
  <2> QED
    BY <1>1, <2>2, <2>3, <2>5
<1> QED
  BY <1>2

LEMMA InsideLevels ==
  ASSUME NEW v, NEW n \in Nat
  PROVE  \E f : Levels(f, v, n) /\ Inside(v, n) = f[n]
<1> DEFINE f == CHOOSE g : g = [k \in 0 .. n |-> IF k = 0 THEN {v} ELSE Elements(g[k - 1])]
<1>1. f = [k \in 0 .. n |-> IF k = 0 THEN {v} ELSE Elements(f[k - 1])]
  <2>1. \E g : g = [k \in 0 .. n |-> IF k = 0 THEN {v} ELSE Elements(g[k - 1])]
    BY LevelsExist DEF Levels
  <2> QED
    BY <2>1, Zenon
<1>2. Inside(v, n) = f[n]
  BY Zenon DEF Inside, Elements
<1> HIDE DEF f
<1> QED
  BY <1>1, <1>2 DEF Levels

\* What is inside v: v, and one level down what the lists of this level hold.
LEMMA InsideStep ==
  ASSUME NEW v
  PROVE  /\ Inside(v, 0) = {v}
         /\ \A n \in Nat : Inside(v, n + 1) = Elements(Inside(v, n))
<1>1. Inside(v, 0) = {v}
  <2>1. PICK f : Levels(f, v, 0) /\ Inside(v, 0) = f[0]
    BY InsideLevels
  <2>2. 0 \in 0 .. 0
    OBVIOUS
  <2> QED
    BY <2>1, <2>2 DEF Levels
<1>2. ASSUME NEW n \in Nat PROVE Inside(v, n + 1) = Elements(Inside(v, n))
  <2>1. PICK f : Levels(f, v, n) /\ Inside(v, n) = f[n]
    BY InsideLevels
  <2> DEFINE m == n + 1
  <2>2. m \in Nat /\ m \in 0 .. m /\ m # 0 /\ m - 1 = n /\ n \in 0 .. n /\ n \in 0 .. m
    OBVIOUS
  <2> HIDE DEF m
  <2>3. PICK g : Levels(g, v, m) /\ Inside(v, m) = g[m]
    BY <2>2, InsideLevels
  <2>4. f[n] = g[n]
    BY <2>1, <2>2, <2>3, LevelsAgree
  <2>5. g[m] = Elements(g[n])
    BY <2>2, <2>3 DEF Levels
  <2> QED
    BY <2>1, <2>3, <2>4, <2>5 DEF m
<1> QED
  BY <1>1, <1>2

LEMMA ElementsOfUnion ==
  ASSUME NEW U
  PROVE  Elements(UNION U) = UNION {Elements(S) : S \in U}
<1>1. \A S, x : x \in Elements(S) <=> \E w \in S : w.tag = "list" /\ x \in Range(w.elems)
  BY DEF Elements
<1>2. ASSUME NEW x
      PROVE  x \in Elements(UNION U) <=> \E S \in U : x \in Elements(S)
  BY <1>1
<1> QED
  BY <1>2

\* The same, the other way round: what is inside the elements of v.
LEMMA InsideElements ==
  ASSUME NEW v, NEW n \in Nat
  PROVE  Inside(v, n + 1) = UNION {Inside(e, n) : e \in Elements({v})}
<1> DEFINE fails == {k \in Nat : Inside(v, k + 1) # UNION {Inside(e, k) : e \in Elements({v})}}
<1>1. 0 \notin fails
  <2>1. Inside(v, 0 + 1) = Elements({v})
    BY InsideStep
  <2>2. \A e : Inside(e, 0) = {e}
    BY InsideStep
  <2> QED
    BY <2>1, <2>2
<1>2. ASSUME fails # {} PROVE FALSE
  <2>1. PICK k \in fails : \A x \in fails : k <= x
    <3>1. fails \subseteq Nat
      OBVIOUS
    <3> HIDE DEF fails
    <3> QED
      BY <1>2, <3>1, LeastNumber
  <2>2. k \in Nat /\ k # 0
    BY <1>1
  <2> DEFINE j == k - 1
  <2>3. j \in Nat /\ ~(k <= j) /\ j + 1 = k
    BY <2>2
  <2> HIDE DEF j
  <2>4. Inside(v, k) = UNION {Inside(e, j) : e \in Elements({v})}
    BY <2>1, <2>3
  <2>5. Inside(v, k + 1) = Elements(Inside(v, k))
    BY <2>2, InsideStep
  <2>6. \A e : Inside(e, k) = Elements(Inside(e, j))
    <3>1. \A e : Inside(e, j + 1) = Elements(Inside(e, j))
      BY <2>3, InsideStep
    <3> QED
      BY <2>3, <3>1
  <2> DEFINE E == Elements({v})
  <2>7. Elements(UNION {Inside(e, j) : e \in E}) = UNION {Elements(Inside(e, j)) : e \in E}
    <3> DEFINE U == {Inside(e, j) : e \in E}
    <3>1. UNION {Elements(S) : S \in U} = UNION {Elements(Inside(e, j)) : e \in E}
      <4> HIDE DEF E
      <4> QED
        OBVIOUS
    <3> HIDE DEF U
    <3>2. Elements(UNION U) = UNION {Elements(S) : S \in U}
      BY ElementsOfUnion
    <3> QED
      BY <3>1, <3>2 DEF U
  <2>8. UNION {Elements(Inside(e, j)) : e \in E} = UNION {Inside(e, k) : e \in E}
    BY <2>6
  <2> HIDE DEF E
  <2> QED
    BY <2>1, <2>4, <2>5, <2>7, <2>8 DEF E
<1> QED
  BY <1>2

-----------------------------------------------------------------------------
(* Types.                                                                    *)

\* The types of expressions: lists and arrays of a scalar, and lists of lists
\* of nothing known.
Word(t) ==
  /\ t \in Seq(ValueLetters) /\ Len(t) > 0
  /\ \A i \in 1 .. Len(t) : t[i] \in Scalars \cup {"any"} <=> i = Len(t)
  /\ \A i \in 1 .. Len(t) : t[i] = "any" => Len(t) > 1 /\ \A j \in 1 .. Len(t) - 1 : t[j] = "list"

Plain(t) == Word(t) /\ \A i \in 1 .. Len(t) : t[i] # "any"

Suffix(t, n) == SubSeq(t, n, Len(t))

LEMMA WordBasics ==
  ASSUME NEW t, Word(t)
  PROVE  /\ Len(t) \in Nat /\ Len(t) > 0 /\ DOMAIN t = 1 .. Len(t)
         /\ 1 \in 1 .. Len(t) /\ t # <<>>
         /\ \A i \in 1 .. Len(t) : t[i] \in ValueLetters
<1>1. t \in Seq(ValueLetters)
  BY DEF Word
<1>2. Len(t) \in Nat /\ DOMAIN t = 1 .. Len(t)
  BY <1>1, LenProperties
<1>3. \A i \in 1 .. Len(t) : t[i] \in ValueLetters
  BY <1>1, ElementOfSeq
<1>4. t # <<>>
  <2>1. Len(<<>>) = 0 /\ Len(t) > 0
    BY DEF Word
  <2> QED
    BY <1>2, <2>1
<1>5. Len(t) > 0
  BY DEF Word
<1> QED
  BY <1>2, <1>3, <1>4, <1>5

LEMMA DeclaredPlain ==
  ASSUME NEW t \in DeclTypes
  PROVE  Plain(t)
<1> DEFINE S == ValueLetters \ {"any", "sized"}
<1>1. t \in Seq(S) /\ t # <<>>
  BY ExpressionsAssumption
<1>2. \A i \in DOMAIN t : t[i] \in Scalars <=> i = Len(t)
  BY ExpressionsAssumption
<1> HIDE DEF S
<1>3. Len(t) \in Nat /\ Len(t) > 0 /\ DOMAIN t = 1 .. Len(t) /\ \A i \in 1 .. Len(t) : t[i] \in S
  BY <1>1, LenProperties, EmptySeq, ElementOfSeq
<1>4. \A i \in 1 .. Len(t) : t[i] \in ValueLetters /\ t[i] # "any"
  BY <1>3 DEF S
<1>5. t \in Seq(ValueLetters)
  <2>1. S \subseteq ValueLetters
    BY DEF S
  <2> QED
    BY <1>1, <2>1
<1>6. ASSUME NEW i \in 1 .. Len(t) PROVE t[i] \in Scalars \cup {"any"} <=> i = Len(t)
  <2>1. t[i] # "any" /\ i \in DOMAIN t
    BY <1>3, <1>4
  <2>2. t[i] \in Scalars <=> i = Len(t)
    BY <1>2, <2>1
  <2> QED
    BY <2>1, <2>2
<1>7. Word(t)
  BY <1>3, <1>4, <1>5, <1>6 DEF Word
<1> QED
  BY <1>4, <1>7 DEF Plain

LEMMA ScalarPlain ==
  ASSUME NEW l \in Scalars
  PROVE  Plain(<<l>>)
<1> DEFINE t == <<l>>
<1>1. t \in Seq(ValueLetters) /\ Len(t) = 1 /\ t[1] = l /\ 1 .. 1 = {1}
  BY DEF ValueLetters
<1>2. l # "any"
  BY DEF Scalars
<1> HIDE DEF t
<1>3. Plain(t)
  BY <1>1, <1>2 DEF Word, Plain
<1> QED
  BY <1>3 DEF t

LEMMA NilWord == Word(<<"list", "any">>)
<1> DEFINE t == <<"list", "any">>
<1>1. t \in Seq(ValueLetters) /\ Len(t) = 2 /\ t[1] = "list" /\ t[2] = "any" /\ 1 .. 2 = {1, 2}
  BY DEF ValueLetters
<1>2. 1 .. 2 - 1 = {1}
  OBVIOUS
<1> HIDE DEF t
<1>3. Word(t)
  BY <1>1, <1>2 DEF Word, Scalars
<1> QED
  BY <1>3 DEF t

\* A letter in front of a word.
LEMMA LongerWord ==
  ASSUME NEW a \in {"list", "array", "sized"}, NEW t, Word(t), a = "list" \/ Plain(t)
  PROVE  /\ Word(<<a>> \o t)
         /\ Plain(t) => Plain(<<a>> \o t)
         /\ Len(<<a>> \o t) = Len(t) + 1 /\ (<<a>> \o t)[1] = a
         /\ \A i \in 1 .. Len(t) : (<<a>> \o t)[i + 1] = t[i]
<1> DEFINE u == <<a>> \o t
<1>1. Len(t) \in Nat /\ Len(t) > 0 /\ \A i \in 1 .. Len(t) : t[i] \in ValueLetters
  BY WordBasics
<1>2. a \in ValueLetters /\ a \notin Scalars \cup {"any"}
  BY DEF ValueLetters, Scalars
<1>3. /\ u \in Seq(ValueLetters) /\ Len(u) = Len(t) + 1 /\ u[1] = a
      /\ \A i \in 1 .. Len(t) : u[i + 1] = t[i]
  <2>1. t \in Seq(ValueLetters) /\ <<a>> \in Seq(ValueLetters) /\ Len(<<a>>) = 1 /\ <<a>>[1] = a
    BY <1>2 DEF Word
  <2>2. u \in Seq(ValueLetters) /\ Len(u) = 1 + Len(t)
    BY <1>1, <2>1, ConcatProperties
  <2>3. \A i \in 1 .. Len(u) : u[i] = IF i <= 1 THEN <<a>>[i] ELSE t[i - 1]
    BY <1>1, <2>1, <2>2, ConcatProperties
  <2>4. \A i \in 1 .. Len(t) : i + 1 \in 1 .. Len(u) /\ ~(i + 1 <= 1) /\ (i + 1) - 1 = i
    BY <1>1, <2>2
  <2>5. 1 \in 1 .. Len(u)
    BY <1>1, <2>2
  <2> HIDE DEF u
  <2> QED
    BY <1>1, <2>1, <2>2, <2>3, <2>4, <2>5
<1> HIDE DEF u
<1>4. \A i \in 1 .. Len(u) : i = 1 \/ (i - 1 \in 1 .. Len(t) /\ (i - 1) + 1 = i)
  BY <1>1, <1>3
<1>5. ASSUME NEW i \in 1 .. Len(u) PROVE u[i] \in Scalars \cup {"any"} <=> i = Len(u)
  <2>1. CASE i = 1
    BY <1>1, <1>2, <1>3, <2>1
  <2>2. CASE i # 1
    <3>1. i - 1 \in 1 .. Len(t) /\ u[i] = t[i - 1]
      BY <1>3, <1>4, <2>2
    <3>2. t[i - 1] \in Scalars \cup {"any"} <=> i - 1 = Len(t)
      BY <3>1 DEF Word
    <3>3. i - 1 = Len(t) <=> i = Len(u)
      BY <1>1, <1>3
    <3> QED
      BY <3>1, <3>2, <3>3
  <2> QED
    BY <2>1, <2>2
<1>6. ASSUME NEW i \in 1 .. Len(u), u[i] = "any"
      PROVE  Len(u) > 1 /\ \A j \in 1 .. Len(u) - 1 : u[j] = "list"
  <2>1. i # 1
    BY <1>2, <1>3, <1>6
  <2>2. i - 1 \in 1 .. Len(t) /\ t[i - 1] = "any"
    BY <1>3, <1>4, <1>6, <2>1
  <2>3. a = "list" /\ \A j \in 1 .. Len(t) - 1 : t[j] = "list"
    BY <2>2 DEF Word, Plain
  <2>4. ASSUME NEW j \in 1 .. Len(u) - 1 PROVE u[j] = "list"
    <3>1. CASE j = 1
      BY <1>3, <2>3, <3>1
    <3>2. CASE j # 1
      <4>1. j - 1 \in 1 .. Len(t) - 1 /\ j - 1 \in 1 .. Len(t) /\ (j - 1) + 1 = j
        BY <1>1, <1>3, <3>2
      <4> QED
        BY <1>3, <2>3, <4>1
    <3> QED
      BY <3>1, <3>2
  <2> QED
    BY <1>1, <1>3, <2>4
<1>7. Word(u)
  BY <1>1, <1>3, <1>5, <1>6 DEF Word
<1>8. Plain(t) => Plain(u)
  <2> SUFFICES ASSUME Plain(t), NEW i \in 1 .. Len(u) PROVE u[i] # "any"
    BY <1>7 DEF Plain
  <2> QED
    BY <1>2, <1>3, <1>4 DEF Plain
<1> QED
  BY <1>3, <1>7, <1>8 DEF u

\* What a list that is not nil's, or an array, is of.
LEMMA NestedWord ==
  ASSUME NEW t, Word(t), Current(t) \in {"list", "array"}
  PROVE  /\ Len(t) > 1 /\ Len(Nested(t)) = Len(t) - 1 /\ Nested(t) \in Seq(ValueLetters)
         /\ \A i \in 1 .. Len(t) - 1 : Nested(t)[i] = t[i + 1]
         /\ Current(t) = "array" => Plain(t)
         /\ Plain(t) => Plain(Nested(t))
         /\ ~IsNilConstant(t) => Word(Nested(t))
<1> DEFINE u == Nested(t)
<1>1. Len(t) \in Nat /\ Len(t) > 0 /\ t \in Seq(ValueLetters) /\ 1 \in 1 .. Len(t) /\ t # <<>>
  BY WordBasics DEF Word
<1>2. t[1] \notin Scalars \cup {"any"}
  BY DEF Current, Kind, Scalars
<1>3. Len(t) > 1
  BY <1>1, <1>2 DEF Word
<1>4. u \in Seq(ValueLetters) /\ Len(u) = Len(t) - 1 /\ \A i \in 1 .. Len(t) - 1 : u[i] = t[i + 1]
  BY <1>1, HeadTailProperties DEF Nested
<1> HIDE DEF u
<1>5. Current(t) = "array" => Plain(t)
  <2> SUFFICES ASSUME Current(t) = "array", NEW i \in 1 .. Len(t) PROVE t[i] # "any"
    BY DEF Plain
  <2>1. t[1] # "list" /\ 1 \in 1 .. Len(t) - 1
    BY <1>1, <1>3 DEF Current, Kind
  <2> QED
    BY <2>1 DEF Word
<1>6. \A i \in 1 .. Len(u) : i + 1 \in 1 .. Len(t) /\ u[i] = t[i + 1]
  BY <1>1, <1>4
<1>7. Len(u) \in Nat /\ Len(u) > 0
  BY <1>1, <1>3, <1>4
<1>8. ASSUME NEW i \in 1 .. Len(u) PROVE u[i] \in Scalars \cup {"any"} <=> i = Len(u)
  <2>1. t[i + 1] \in Scalars \cup {"any"} <=> i + 1 = Len(t)
    BY <1>6 DEF Word
  <2>2. i + 1 = Len(t) <=> i = Len(u)
    BY <1>1, <1>4
  <2> QED
    BY <1>6, <2>1, <2>2
<1>9. ASSUME Plain(t) PROVE Plain(u)
  <2>1. \A i \in 1 .. Len(u) : u[i] # "any"
    BY <1>6, <1>9 DEF Plain
  <2> QED
    BY <1>4, <1>7, <1>8, <2>1 DEF Word, Plain
<1>10. ASSUME ~IsNilConstant(t), NEW i \in 1 .. Len(u), u[i] = "any"
       PROVE  Len(u) > 1 /\ \A j \in 1 .. Len(u) - 1 : u[j] = "list"
  <2>1. t[i + 1] = "any" /\ i + 1 \in 1 .. Len(t)
    BY <1>6, <1>10
  <2>2. \A j \in 1 .. Len(t) - 1 : t[j] = "list"
    BY <2>1 DEF Word
  <2>3. i + 1 = Len(t)
    BY <2>1 DEF Word
  <2>4. Len(t) # 2
    <3> SUFFICES ASSUME Len(t) = 2 PROVE FALSE
      OBVIOUS
    <3>1. t[2] = "any" /\ t[1] = "list"
      BY <1>3, <2>1, <2>2, <2>3
    <3>2. t = <<t[1], t[2]>>
      BY <1>1
    <3>3. SubSeq(t, 1, 2) = <<"list", "any">>
      <4>1. SubSeq(t, 1, Len(t)) = t
        BY <1>1, SubSeqFull
      <4>2. <<t[1], t[2]>> = <<"list", "any">>
        BY <3>1
      <4> QED
        BY <3>2, <4>1, <4>2
    <3> QED
      BY <1>3, <1>10, <3>3 DEF IsNilConstant, Prefix
  <2>5. Len(u) > 1
    BY <1>1, <1>3, <1>4, <2>4
  <2>6. \A j \in 1 .. Len(u) - 1 : j \in 1 .. Len(u) /\ j + 1 \in 1 .. Len(t) - 1
    BY <1>1, <1>4
  <2> QED
    BY <1>6, <2>2, <2>5, <2>6
<1>11. ~IsNilConstant(t) => Word(u)
  BY <1>4, <1>7, <1>8, <1>10 DEF Word
<1> QED
  BY <1>3, <1>4, <1>5, <1>9, <1>11 DEF u

\* The suffixes of a type.
LEMMA SuffixProperties ==
  ASSUME NEW t \in Seq(ValueLetters), NEW n \in 1 .. Len(t)
  PROVE  /\ Suffix(t, n) \in Seq(ValueLetters) /\ Len(Suffix(t, n)) = Len(t) - n + 1
         /\ \A i \in 1 .. Len(t) - n + 1 : Suffix(t, n)[i] = t[n + i - 1]
         /\ Current(Suffix(t, n)) = Kind(t[n])
         /\ Nested(Suffix(t, n)) = SubSeq(t, n + 1, Len(t))
<1> DEFINE L == Len(t)
           s == SubSeq(t, n, L)
<1>1. L \in Nat /\ n \in Int /\ L \in Int /\ n <= L /\ \A i \in n .. L : t[i] \in ValueLetters
  BY LenProperties, ElementOfSeq
<1>2. n \in 1 .. L /\ L \in n .. L
  BY <1>1
<1>3. Tail(s) = SubSeq(t, n + 1, L)
  BY <1>2, HeadTailOfSubSeq
<1> HIDE DEF L
<1>4. /\ s \in Seq(ValueLetters) /\ Len(s) = L - n + 1
      /\ \A i \in 1 .. L - n + 1 : s[i] = t[n + i - 1]
  BY <1>1, SubSeqProperties
<1>5. 1 \in 1 .. L - n + 1 /\ n + 1 - 1 = n
  BY <1>1, <1>2
<1>6. s[1] = t[n]
  BY <1>4, <1>5
<1> QED
  BY <1>3, <1>4, <1>6 DEF Suffix, L, Current, Nested

-----------------------------------------------------------------------------
(* Equality of types.                                                        *)

LEMMA EqualIsSymmetric ==
  ASSUME NEW s \in Seq(ValueLetters), NEW t \in Seq(ValueLetters), EqualTypes(s, t)
  PROVE  EqualTypes(t, s)
<1>1. Len(s) \in Nat /\ Len(t) \in Nat
  BY LenProperties
<1>2. PICK n \in 0 .. Len(s) :
        /\ n <= Len(t) /\ \A i \in 1 .. n : Kind(s[i]) = Kind(t[i])
        /\ \/ n = Len(s) /\ n = Len(t)
           \/ n < Len(s) /\ n < Len(t) /\ "any" \in {s[n + 1], t[n + 1]}
  BY DEF EqualTypes
<1>3. n \in 0 .. Len(t) /\ n <= Len(s)
  BY <1>1, <1>2
<1>4. "any" \in {s[n + 1], t[n + 1]} => "any" \in {t[n + 1], s[n + 1]}
  OBVIOUS
<1> QED
  BY <1>2, <1>3, <1>4 DEF EqualTypes

\* The same letters, the sizes of arrays aside.
SameKinds(s, t) == Len(s) = Len(t) /\ \A i \in 1 .. Len(s) : Kind(s[i]) = Kind(t[i])

LEMMA SameIsEqual ==
  ASSUME NEW s \in Seq(ValueLetters), NEW t \in Seq(ValueLetters), SameKinds(s, t)
  PROVE  EqualTypes(s, t)
<1>1. Len(s) \in Nat /\ Len(s) \in 0 .. Len(s) /\ Len(s) <= Len(t)
  BY LenProperties DEF SameKinds
<1> QED
  BY <1>1 DEF EqualTypes, SameKinds

LEMMA PlainAreSame ==
  ASSUME NEW s \in Seq(ValueLetters), NEW t \in Seq(ValueLetters), EqualTypes(s, t),
         \A i \in 1 .. Len(s) : s[i] # "any", \A i \in 1 .. Len(t) : t[i] # "any"
  PROVE  SameKinds(s, t)
<1>1. Len(s) \in Nat /\ Len(t) \in Nat
  BY LenProperties
<1>2. PICK n \in 0 .. Len(s) :
        /\ n <= Len(t) /\ \A i \in 1 .. n : Kind(s[i]) = Kind(t[i])
        /\ \/ n = Len(s) /\ n = Len(t)
           \/ n < Len(s) /\ n < Len(t) /\ "any" \in {s[n + 1], t[n + 1]}
  BY DEF EqualTypes
<1>3. n < Len(s) /\ n < Len(t) => n + 1 \in 1 .. Len(s) /\ n + 1 \in 1 .. Len(t)
  BY <1>1, <1>2
<1>4. n = Len(s) /\ n = Len(t)
  BY <1>2, <1>3
<1> QED
  BY <1>2, <1>4 DEF SameKinds

-----------------------------------------------------------------------------
(* Values and types.                                                         *)

\* No value is of type `any`, and arrays are of declared types.
WellMade(w) ==
  /\ w.tag # "any"
  /\ w.elems \in Seq(Range(w.elems))
  /\ w.tag = "array" => w.of \in Seq(ValueLetters) /\ \A i \in 1 .. Len(w.of) : w.of[i] # "any"

Sound(v) == \A n \in Nat : \A w \in Inside(v, n) : WellMade(w)

LEMMA NothingInside ==
  ASSUME NEW v, NEW n \in Nat, Inside(v, n) \subseteq {Undefined}, NEW m \in Nat, n < m
  PROVE  Inside(v, m) = {}
<1> DEFINE fails == {k \in Nat : n < k /\ Inside(v, k) # {}}
<1>1. Elements(Inside(v, n)) = {} /\ Elements({}) = {}
  BY DEF Elements, Undefined, Value
<1>2. ASSUME fails # {} PROVE FALSE
  <2>1. PICK k \in fails : \A x \in fails : k <= x
    <3>1. fails \subseteq Nat
      OBVIOUS
    <3> HIDE DEF fails
    <3> QED
      BY <1>2, <3>1, LeastNumber
  <2> DEFINE j == k - 1
  <2>2. j \in Nat /\ j + 1 = k /\ ~(k <= j) /\ n <= j
    OBVIOUS
  <2>3. j = n \/ Inside(v, j) = {}
    BY <2>1, <2>2
  <2>4. Inside(v, j + 1) = Elements(Inside(v, j))
    BY <2>2, InsideStep
  <2> HIDE DEF j
  <2>5. Inside(v, j + 1) = {}
    BY <1>1, <2>3, <2>4
  <2> QED
    BY <2>2, <2>5
<1> QED
  BY <1>2

\* A value keeps its type when it is taken for an equal one that names no `any`.
LEMMA TypeTransfers ==
  ASSUME NEW s, NEW t, NEW v, Word(s), Plain(t), EqualTypes(t, s), Sound(v), Conforms(v, s)
  PROVE  Conforms(v, t)
<1>1. /\ s \in Seq(ValueLetters) /\ t \in Seq(ValueLetters) /\ Word(t)
      /\ Len(s) \in Nat /\ Len(t) \in Nat /\ DOMAIN s = 1 .. Len(s) /\ DOMAIN t = 1 .. Len(t)
  BY WordBasics DEF Word, Plain
<1>2. PICK N \in 0 .. Len(t) :
        /\ N <= Len(s) /\ \A i \in 1 .. N : Kind(t[i]) = Kind(s[i])
        /\ \/ N = Len(t) /\ N = Len(s)
           \/ N < Len(t) /\ N < Len(s) /\ "any" \in {t[N + 1], s[N + 1]}
  BY DEF EqualTypes
<1>3. \A n \in 1 .. Len(s) : \A w \in Inside(v, n - 1) : HasKind(w, Suffix(s, n))
  BY <1>1 DEF Conforms, Suffix
<1> SUFFICES ASSUME NEW n \in 1 .. Len(t), NEW w \in Inside(v, n - 1), w # Undefined
             PROVE  HasKind(w, Suffix(t, n))
  BY <1>1 DEF Conforms, HasKind, Suffix
<1>4. n - 1 \in Nat
  OBVIOUS
<1>5. WellMade(w)
  BY <1>4 DEF Sound
<1>6. CASE n <= N
  <2>1. n \in 1 .. Len(s) /\ Kind(t[n]) = Kind(s[n])
    <3> DEFINE S == Len(s)
               T == Len(t)
    <3>1. S \in Nat /\ T \in Nat /\ n \in 1 .. T /\ n <= N /\ N <= S /\ N \in 0 .. T
      BY <1>1, <1>2, <1>6
    <3> HIDE DEF S, T
    <3>2. n \in 1 .. S /\ n \in 1 .. N
      BY <3>1
    <3> QED
      BY <1>2, <3>2 DEF S
  <2>2. HasKind(w, Suffix(s, n))
    BY <1>3, <2>1
  <2>3. w.tag = Kind(s[n]) /\ (w.tag = "array" => EqualTypes(w.of, SubSeq(s, n + 1, Len(s))))
    BY <1>1, <2>1, <2>2, SuffixProperties DEF HasKind
  <2>4. ASSUME w.tag = "array"
        PROVE  EqualTypes(w.of, SubSeq(t, n + 1, Len(t)))
    <3>1. s[n] \notin Scalars \cup {"any", "list"}
      BY <2>3, <2>4 DEF Kind, Scalars
    <3>2. n # Len(s)
      BY <2>1, <3>1 DEF Word
    <3>3. n \in 1 .. Len(s) - 1
      <4> DEFINE S == Len(s)
      <4>1. S \in Nat /\ n \in 1 .. S /\ n # S
        BY <1>1, <2>1, <3>2
      <4> HIDE DEF S
      <4>2. n \in 1 .. S - 1
        BY <4>1
      <4> QED
        BY <4>2 DEF S
    <3>4. \A i \in 1 .. Len(s) : s[i] # "any"
      BY <3>1, <3>3 DEF Word
    <3>5. \A i \in 1 .. Len(t) : t[i] # "any"
      BY DEF Plain
    <3>6. SameKinds(t, s)
      BY <1>1, <3>4, <3>5, PlainAreSame
    <3> DEFINE m == n + 1
               a == Suffix(s, m)
               b == Suffix(t, m)
               o == w.of
    <3>7. m \in 1 .. Len(s) /\ m \in 1 .. Len(t) /\ Len(s) = Len(t)
      BY <1>1, <3>3, <3>6 DEF SameKinds
    <3>8. EqualTypes(o, a)
      BY <2>3, <2>4 DEF Suffix
    <3>9. o \in Seq(ValueLetters) /\ \A i \in 1 .. Len(o) : o[i] # "any"
      BY <1>5, <2>4 DEF WellMade
    <3> HIDE DEF m, o
    <3>10. /\ a \in Seq(ValueLetters) /\ b \in Seq(ValueLetters)
           /\ Len(a) = Len(s) - m + 1 /\ Len(b) = Len(a)
           /\ \A i \in 1 .. Len(s) - m + 1 : a[i] = s[m + i - 1] /\ b[i] = t[m + i - 1]
      BY <1>1, <3>7, SuffixProperties
    <3>11. \A i \in 1 .. Len(s) - m + 1 : m + i - 1 \in 1 .. Len(s)
      BY <1>1, <3>7
    <3> HIDE DEF a, b
    <3>12. SameKinds(a, b) /\ \A i \in 1 .. Len(a) : a[i] # "any"
      BY <3>4, <3>6, <3>10, <3>11 DEF SameKinds
    <3>13. SameKinds(o, a)
      BY <3>8, <3>9, <3>10, <3>12, PlainAreSame
    <3>14. SameKinds(o, b)
      BY <3>12, <3>13 DEF SameKinds
    <3>15. EqualTypes(o, b)
      BY <3>9, <3>10, <3>14, SameIsEqual
    <3> QED
      BY <3>15 DEF o, b, m, Suffix
  <2> QED
    BY <1>1, <2>1, <2>3, <2>4, SuffixProperties DEF HasKind
<1>7. CASE ~(n <= N)
  <2>1. N < Len(t) /\ N < Len(s) /\ N < n /\ N \in Nat /\ N + 1 \in 1 .. Len(t) /\ N + 1 \in 1 .. Len(s)
        /\ N + 1 - 1 = N
    <3> DEFINE S == Len(s)
               T == Len(t)
    <3>1. /\ S \in Nat /\ T \in Nat /\ n \in 1 .. T /\ ~(n <= N) /\ N \in 0 .. T
          /\ (N = T /\ N = S) \/ (N < T /\ N < S)
      BY <1>1, <1>2, <1>7
    <3> HIDE DEF S, T
    <3>2. N < T /\ N < S /\ N < n /\ N \in Nat /\ N + 1 \in 1 .. T /\ N + 1 \in 1 .. S /\ N + 1 - 1 = N
      BY <3>1
    <3> QED
      BY <3>2 DEF S, T
  <2>2. s[N + 1] = "any"
    BY <1>2, <2>1 DEF Plain
  <2>3. ASSUME NEW u \in Inside(v, N) PROVE u = Undefined
    <3>1. HasKind(u, Suffix(s, N + 1))
      BY <1>3, <2>1, <2>3
    <3>2. Current(Suffix(s, N + 1)) = "any"
      BY <1>1, <2>1, <2>2, SuffixProperties DEF Kind
    <3>3. u.tag # "any"
      BY <2>1, <2>3 DEF Sound, WellMade
    <3> QED
      BY <3>1, <3>2, <3>3 DEF HasKind
  <2>4. N < n - 1
    <3> SUFFICES ASSUME N = n - 1 PROVE FALSE
      BY <1>2, <2>1
    <3> QED
      BY <2>3
  <2>5. Inside(v, n - 1) = {}
    BY <1>4, <2>1, <2>3, <2>4, NothingInside
  <2> QED
    BY <2>5
<1> QED
  BY <1>6, <1>7

\* Types and soundness, from a value to its elements.
LEMMA ConformsStep ==
  ASSUME NEW v, NEW t \in Seq(ValueLetters), Len(t) > 0
  PROVE  Conforms(v, t) <=> HasKind(v, t) /\ \A e \in Elements({v}) : Conforms(e, Nested(t))
<1> DEFINE L == Len(t)
           u == Nested(t)
<1>1. L \in Nat /\ DOMAIN t = 1 .. L /\ 1 \in 1 .. L /\ t # <<>>
  <2>1. L \in Nat /\ DOMAIN t = 1 .. L
    BY LenProperties
  <2>2. Len(<<>>) = 0
    OBVIOUS
  <2> QED
    BY <2>1, <2>2
<1>2. /\ u \in Seq(ValueLetters) /\ Len(u) = L - 1 /\ DOMAIN u = 1 .. L - 1
      /\ \A i \in 1 .. L - 1 : u[i] = t[i + 1]
  <2>1. u \in Seq(ValueLetters) /\ Len(u) = L - 1 /\ \A i \in 1 .. Len(u) : u[i] = t[i + 1]
    BY <1>1, HeadTailProperties DEF Nested
  <2>2. DOMAIN u = 1 .. Len(u)
    BY <2>1, LenProperties
  <2> QED
    BY <2>1, <2>2
<1>3. Suffix(t, 1) = t
  BY SubSeqFull DEF Suffix
<1>4. ASSUME NEW n \in 1 .. L - 1 PROVE Suffix(u, n) = Suffix(t, n + 1)
  <2> DEFINE a == Suffix(u, n)
             b == Suffix(t, n + 1)
             m == n + 1
  <2>1. m \in 1 .. L /\ n \in 1 .. Len(u) /\ (L - 1) - n + 1 = L - m + 1
    BY <1>1, <1>2
  <2> HIDE DEF u
  <2>2. /\ a \in Seq(ValueLetters) /\ Len(a) = (L - 1) - n + 1
        /\ \A i \in 1 .. (L - 1) - n + 1 : a[i] = u[n + i - 1]
    BY <1>2, <2>1, SuffixProperties
  <2> HIDE DEF L, m
  <2>3. /\ Suffix(t, m) \in Seq(ValueLetters) /\ Len(Suffix(t, m)) = L - m + 1
        /\ \A i \in 1 .. L - m + 1 : Suffix(t, m)[i] = t[m + i - 1]
    BY <2>1, SuffixProperties DEF L
  <2>4. \A i \in 1 .. L - m + 1 : n + i - 1 \in 1 .. L - 1 /\ (n + i - 1) + 1 = m + i - 1
    BY <1>1, <2>1 DEF m
  <2> HIDE DEF a
  <2>5. ASSUME NEW i \in 1 .. Len(a) PROVE a[i] = Suffix(t, m)[i]
    <3>1. i \in 1 .. L - m + 1 /\ i \in 1 .. (L - 1) - n + 1
      BY <2>1, <2>2
    <3>2. u[n + i - 1] = t[(n + i - 1) + 1]
      BY <1>2, <2>4, <3>1 DEF L
    <3>3. (n + i - 1) + 1 = m + i - 1
      BY <2>4, <3>1
    <3> HIDE DEF m
    <3>4. Suffix(t, m)[i] = t[m + i - 1] /\ a[i] = u[n + i - 1]
      BY <2>2, <2>3, <3>1
    <3> QED
      BY <3>2, <3>3, <3>4
  <2>6. a = Suffix(t, m)
    BY <2>1, <2>2, <2>3, <2>5, SeqEqual
  <2> QED
    BY <2>6 DEF a, m
<1>5. Inside(v, 1 - 1) = {v}
  <2>1. 1 - 1 = 0
    OBVIOUS
  <2> QED
    BY <2>1, InsideStep
<1>6. ASSUME NEW n \in 1 .. L - 1
      PROVE  Inside(v, (n + 1) - 1) = UNION {Inside(e, n - 1) : e \in Elements({v})}
  <2> DEFINE k == n - 1
  <2>1. k \in Nat /\ k + 1 = (n + 1) - 1
    BY <1>1
  <2> HIDE DEF k
  <2>2. Inside(v, k + 1) = UNION {Inside(e, k) : e \in Elements({v})}
    BY <2>1, InsideElements
  <2> QED
    BY <2>1, <2>2 DEF k
<1>7. Conforms(v, t) <=> \A n \in 1 .. L : \A w \in Inside(v, n - 1) : HasKind(w, Suffix(t, n))
  BY <1>1 DEF Conforms, Suffix
<1>8. ASSUME NEW e
      PROVE  Conforms(e, u) <=>
               \A n \in 1 .. L - 1 : \A w \in Inside(e, n - 1) : HasKind(w, Suffix(t, n + 1))
  <2>1. Conforms(e, u) <=> \A n \in 1 .. L - 1 : \A w \in Inside(e, n - 1) : HasKind(w, Suffix(u, n))
    BY <1>2 DEF Conforms, Suffix
  <2> QED
    BY <1>4, <2>1
<1>9. (\A n \in 1 .. L : \A w \in Inside(v, n - 1) : HasKind(w, Suffix(t, n)))
      <=> /\ HasKind(v, t)
          /\ \A n \in 1 .. L - 1 : \A w \in Inside(v, (n + 1) - 1) : HasKind(w, Suffix(t, n + 1))
  <2> DEFINE P(n) == \A w \in Inside(v, n - 1) : HasKind(w, Suffix(t, n))
  <2>1. P(1) <=> HasKind(v, t)
    BY <1>3, <1>5
  <2> HIDE DEF P
  <2>2. \A n \in 1 .. L : n = 1 \/ (n - 1 \in 1 .. L - 1 /\ (n - 1) + 1 = n)
    BY <1>1
  <2>3. \A n \in 1 .. L - 1 : n + 1 \in 1 .. L
    BY <1>1
  <2>4. (\A n \in 1 .. L : P(n)) <=> P(1) /\ \A n \in 1 .. L - 1 : P(n + 1)
    BY <1>1, <2>2, <2>3
  <2> QED
    BY <2>1, <2>4 DEF P
<1> DEFINE Fits(w, n) == HasKind(w, Suffix(t, n))
<1> HIDE DEF L, u, Fits
<1>10. (\A n \in 1 .. L - 1 : \A w \in Inside(v, (n + 1) - 1) : Fits(w, n + 1))
       <=> \A e \in Elements({v}) : \A n \in 1 .. L - 1 : \A w \in Inside(e, n - 1) : Fits(w, n + 1)
  <2>1. ASSUME NEW n \in 1 .. L - 1, NEW w
        PROVE  w \in Inside(v, (n + 1) - 1) <=> \E e \in Elements({v}) : w \in Inside(e, n - 1)
    <3>1. Inside(v, (n + 1) - 1) = UNION {Inside(e, n - 1) : e \in Elements({v})}
      BY <1>6
    <3> QED
      BY <3>1
  <2> QED
    BY <2>1
<1> QED
  BY <1>7, <1>8, <1>9, <1>10 DEF u, Fits

LEMMA SoundStep ==
  ASSUME NEW v
  PROVE  Sound(v) <=> WellMade(v) /\ \A e \in Elements({v}) : Sound(e)
<1>1. Inside(v, 0) = {v} /\ 0 \in Nat
  BY InsideStep
<1>2. \A n \in Nat : Inside(v, n + 1) = UNION {Inside(e, n) : e \in Elements({v})}
  BY InsideElements
<1>3. \A n \in Nat : n + 1 \in Nat /\ (n = 0 \/ (n - 1 \in Nat /\ (n - 1) + 1 = n))
  OBVIOUS
<1>4. Sound(v) <=> WellMade(v) /\ \A n \in Nat : \A w \in Inside(v, n + 1) : WellMade(w)
  BY <1>1, <1>3 DEF Sound
<1>5. (\A n \in Nat : \A w \in Inside(v, n + 1) : WellMade(w)) <=> \A e \in Elements({v}) : Sound(e)
  <2>1. ASSUME NEW n \in Nat, NEW w
        PROVE  w \in Inside(v, n + 1) <=> \E e \in Elements({v}) : w \in Inside(e, n)
    <3>1. Inside(v, n + 1) = UNION {Inside(e, n) : e \in Elements({v})}
      BY <1>2
    <3> QED
      BY <3>1
  <2> QED
    BY <2>1 DEF Sound
<1> QED
  BY <1>4, <1>5

-----------------------------------------------------------------------------
(* The values that expressions make.                                         *)

\* v has the type t, through and through.
Has(v, t) == Sound(v) /\ Conforms(v, t)

LEMMA NoElements ==
  ASSUME NEW v, v.tag # "list" \/ v.elems = <<>>
  PROVE  Elements({v}) = {}
<1>1. Range(<<>>) = {}
  BY DEF Range
<1> QED
  BY <1>1 DEF Elements

LEMMA ListElements ==
  ASSUME NEW v, v.tag = "list"
  PROVE  Elements({v}) = Range(v.elems)
BY DEF Elements

\* A value without elements.
LEMMA LeafHas ==
  ASSUME NEW v, NEW t, Word(t), WellMade(v), v.tag # "list" \/ v.elems = <<>>, HasKind(v, t)
  PROVE  Has(v, t)
<1>1. Elements({v}) = {}
  BY NoElements
<1>2. t \in Seq(ValueLetters) /\ Len(t) > 0
  BY DEF Word
<1>3. Sound(v)
  BY <1>1, SoundStep
<1>4. Conforms(v, t)
  BY <1>1, <1>2, ConformsStep
<1> QED
  BY <1>3, <1>4 DEF Has

LEMMA EmptyRow == <<>> \in Seq(Range(<<>>))
OBVIOUS

LEMMA UndefinedHas ==
  ASSUME NEW t, Word(t)
  PROVE  Has(Undefined, t)
<1> DEFINE v == Undefined
<1>1. v.tag = "undefined" /\ v.elems = <<>>
  BY DEF Undefined, Value
<1>2. HasKind(v, t)
  BY DEF HasKind
<1> HIDE DEF v
<1>3. WellMade(v)
  BY <1>1, EmptyRow DEF WellMade
<1>4. Has(v, t)
  BY <1>1, <1>2, <1>3, LeafHas
<1> QED
  BY <1>4 DEF v

\* Of one letter, whatever it is.
LEMMA UndefinedConforms ==
  ASSUME NEW l
  PROVE  Conforms(Undefined, <<l>>)
<1> DEFINE t == <<l>>
<1>1. DOMAIN t = {1} /\ Inside(Undefined, 0) = {Undefined}
  BY InsideStep
<1> HIDE DEF t
<1>2. \A w \in Inside(Undefined, 1 - 1) : w = Undefined
  BY <1>1
<1>3. Conforms(Undefined, t)
  BY <1>1, <1>2 DEF Conforms, HasKind
<1> QED
  BY <1>3 DEF t

LEMMA ScalarHas ==
  ASSUME NEW l \in Scalars
  PROVE  Has(ScalarValue(l), <<l>>)
<1> DEFINE v == ScalarValue(l)
           t == <<l>>
<1>1. v.tag = l /\ v.elems = <<>> /\ l # "any" /\ l # "array" /\ l # "sized"
  BY DEF ScalarValue, Value, Scalars
<1>2. t[1] = l /\ Word(t)
  BY ScalarPlain DEF Plain
<1> HIDE DEF v, t
<1>3. HasKind(v, t)
  BY <1>1, <1>2 DEF HasKind, Current, Kind
<1>4. WellMade(v)
  BY <1>1, EmptyRow DEF WellMade
<1>5. Has(v, t)
  BY <1>1, <1>2, <1>3, <1>4, LeafHas
<1> QED
  BY <1>5 DEF v, t

LEMMA ArrayHas ==
  ASSUME NEW t, Plain(t), NEW a \in {"array", "sized"}
  PROVE  Has(ArrayValue(t), <<a>> \o t) /\ Plain(<<a>> \o t)
<1> DEFINE v == ArrayValue(t)
           u == <<a>> \o t
<1>1. v.tag = "array" /\ v.of = t /\ v.elems = <<>>
  BY DEF ArrayValue, Value
<1>2. t \in Seq(ValueLetters) /\ Word(t) /\ \A i \in 1 .. Len(t) : t[i] # "any"
  BY DEF Plain, Word
<1>3. Word(u) /\ Plain(u) /\ Len(u) = Len(t) + 1 /\ u[1] = a /\ \A i \in 1 .. Len(t) : u[i + 1] = t[i]
  BY <1>2, LongerWord
<1> HIDE DEF v, u
<1>4. Current(u) = "array"
  BY <1>3 DEF Current, Kind
<1>5. SameKinds(t, Nested(u)) /\ Nested(u) \in Seq(ValueLetters)
  <2>1. /\ Len(Nested(u)) = Len(u) - 1 /\ Nested(u) \in Seq(ValueLetters)
        /\ \A i \in 1 .. Len(u) - 1 : Nested(u)[i] = u[i + 1]
    BY <1>3, <1>4, NestedWord
  <2>2. Len(t) \in Nat
    BY <1>2, LenProperties
  <2> DEFINE L == Len(t)
             w == Nested(u)
  <2>3. L \in Nat /\ Len(u) = L + 1 /\ Len(w) = Len(u) - 1
    BY <1>3, <2>1, <2>2
  <2> HIDE DEF L, w
  <2>4. Len(w) = L /\ Len(u) - 1 = L
    BY <2>3
  <2> QED
    BY <1>3, <2>1, <2>4 DEF SameKinds, L, w
<1>6. EqualTypes(t, Nested(u))
  BY <1>2, <1>5, SameIsEqual
<1>7. HasKind(v, u)
  BY <1>1, <1>4, <1>6 DEF HasKind
<1>8. WellMade(v)
  BY <1>1, <1>2, EmptyRow DEF WellMade
<1>9. Has(v, u)
  BY <1>1, <1>3, <1>7, <1>8, LeafHas
<1> QED
  BY <1>3, <1>9 DEF v, u

LEMMA NilHas ==
  ASSUME NEW t, Word(t), Current(t) = "list"
  PROVE  Has(ListValue(<<>>), t)
<1> DEFINE v == ListValue(<<>>)
<1>1. v.tag = "list" /\ v.elems = <<>>
  BY DEF ListValue, Value
<1> HIDE DEF v
<1>2. WellMade(v)
  BY <1>1, EmptyRow DEF WellMade
<1>3. HasKind(v, t)
  BY <1>1 DEF HasKind
<1>4. Has(v, t)
  BY <1>1, <1>2, <1>3, LeafHas
<1> QED
  BY <1>4 DEF v

\* What an element of an array may hold.
LEMMA SampleHas ==
  ASSUME NEW t, Plain(t)
  PROVE  Has(Sample(t), t)
<1>1. Word(t) /\ t \in Seq(ValueLetters) /\ 1 \in 1 .. Len(t) /\ t[1] \in ValueLetters /\ t[1] # "any"
  BY WordBasics DEF Plain, Word
<1>2. CASE Current(t) = "list"
  BY <1>1, <1>2, NilHas DEF Sample
<1>3. CASE Current(t) = "array"
  <2> DEFINE u == Nested(t)
             v == ArrayValue(u)
  <2>1. Plain(u)
    BY <1>1, <1>3, NestedWord
  <2>2. u \in Seq(ValueLetters) /\ \A i \in 1 .. Len(u) : u[i] # "any"
    BY <2>1 DEF Plain, Word
  <2>3. v.tag = "array" /\ v.of = u /\ v.elems = <<>>
    BY DEF ArrayValue, Value
  <2>4. EqualTypes(u, u)
    <3>1. SameKinds(u, u)
      BY DEF SameKinds
    <3> HIDE DEF u
    <3> QED
      BY <2>2, <3>1, SameIsEqual
  <2> HIDE DEF v
  <2>5. HasKind(v, t)
    BY <1>3, <2>3, <2>4 DEF HasKind
  <2> HIDE DEF u
  <2>6. WellMade(v)
    BY <2>2, <2>3, EmptyRow DEF WellMade
  <2>7. Has(v, t)
    BY <1>1, <2>3, <2>5, <2>6, LeafHas
  <2>8. Sample(t) = v
    BY <1>3 DEF Sample, v, u
  <2> QED
    BY <2>7, <2>8
<1>4. CASE Current(t) \notin {"list", "array"}
  <2>1. t[1] \in Scalars
    BY <1>1, <1>4 DEF Current, Kind, ValueLetters
  <2>2. Len(t) = 1
    BY <1>1, <2>1 DEF Word
  <2>3. t = <<t[1]>>
    BY <1>1, <2>2
  <2>4. Sample(t) = ScalarValue(t[1])
    BY <1>4 DEF Sample
  <2>5. Has(ScalarValue(t[1]), <<t[1]>>)
    BY <2>1, ScalarHas
  <2> QED
    BY <2>3, <2>4, <2>5
<1> QED
  BY <1>2, <1>3, <1>4

\* A value that has a type has every equal one that names no `any`.
LEMMA HasTransfers ==
  ASSUME NEW s, NEW t, NEW v, Word(s), Plain(t), EqualTypes(t, s) \/ EqualTypes(s, t), Has(v, s)
  PROVE  Has(v, t)
<1>1. s \in Seq(ValueLetters) /\ t \in Seq(ValueLetters)
  BY DEF Word, Plain
<1>2. EqualTypes(t, s)
  BY <1>1, EqualIsSymmetric
<1> QED
  BY <1>2, TypeTransfers DEF Has

LEMMA HasStep ==
  ASSUME NEW v, NEW t, Word(t)
  PROVE  /\ Has(v, t) => \A e \in Elements({v}) : Sound(e) /\ Conforms(e, Nested(t))
         /\ WellMade(v) /\ HasKind(v, t) /\ (\A e \in Elements({v}) : Has(e, Nested(t))) => Has(v, t)
         /\ Has(v, t) => WellMade(v) /\ HasKind(v, t)
<1>1. t \in Seq(ValueLetters) /\ Len(t) > 0
  BY DEF Word
<1>2. Conforms(v, t) <=> HasKind(v, t) /\ \A e \in Elements({v}) : Conforms(e, Nested(t))
  BY <1>1, ConformsStep
<1>3. Sound(v) <=> WellMade(v) /\ \A e \in Elements({v}) : Sound(e)
  BY SoundStep
<1> QED
  BY <1>2, <1>3 DEF Has

\* A list of a type is a list, or nothing is known of it.
LEMMA ListOrUndefined ==
  ASSUME NEW v, NEW t, Word(t), Current(t) = "list", Has(v, t)
  PROVE  /\ v = Undefined \/ v.tag = "list"
         /\ v.elems \in Seq(Range(v.elems))
         /\ \A e \in Range(v.elems) : Has(e, Nested(t))
<1>1. WellMade(v) /\ HasKind(v, t) /\ \A e \in Elements({v}) : Has(e, Nested(t))
  BY HasStep DEF Has
<1>2. v = Undefined \/ v.tag = "list"
  BY <1>1 DEF HasKind
<1>3. v.elems \in Seq(Range(v.elems))
  BY <1>1 DEF WellMade
<1>4. CASE v = Undefined
  <2>1. Range(v.elems) = {}
    BY <1>4 DEF Undefined, Value, Range
  <2> QED
    BY <1>2, <1>3, <2>1
<1>5. CASE v.tag = "list"
  BY <1>1, <1>2, <1>3, <1>5, ListElements
<1> QED
  BY <1>2, <1>4, <1>5

\* v # list, in a list of v's type.
LEMMA LinkHas ==
  ASSUME NEW v, NEW l, NEW t, Plain(t), Has(v, t), Has(l, List(t))
  PROVE  Has(Link(v, l), List(t)) /\ Plain(List(t))
<1> DEFINE u == List(t)
<1>1. Word(t) /\ Len(t) \in Nat /\ Len(t) > 0
  BY WordBasics DEF Plain
<1>2. Word(u) /\ Plain(u) /\ Len(u) = Len(t) + 1 /\ u[1] = "list" /\ \A i \in 1 .. Len(t) : u[i + 1] = t[i]
  BY <1>1, LongerWord DEF List
<1>3. Current(u) = "list"
  BY <1>2 DEF Current, Kind
<1>4. Nested(u) = t
  <2>1. /\ Len(Nested(u)) = Len(u) - 1 /\ Nested(u) \in Seq(ValueLetters)
        /\ \A i \in 1 .. Len(u) - 1 : Nested(u)[i] = u[i + 1]
    BY <1>2, <1>3, NestedWord
  <2>2. t \in Seq(ValueLetters)
    BY <1>1 DEF Word
  <2> DEFINE L == Len(t)
             w == Nested(u)
  <2>3. L \in Nat /\ Len(u) = L + 1 /\ Len(w) = Len(u) - 1 /\ w \in Seq(ValueLetters)
        /\ \A i \in 1 .. Len(u) - 1 : w[i] = u[i + 1]
    BY <1>1, <1>2, <2>1
  <2> HIDE DEF w, u
  <2>4. Len(w) = Len(t) /\ Len(u) - 1 = Len(t)
    BY <2>3
  <2>5. \A i \in 1 .. Len(w) : w[i] = t[i]
    BY <1>2, <2>3, <2>4
  <2>6. w = t
    BY <2>2, <2>3, <2>4, <2>5, SeqEqual
  <2> QED
    BY <2>6 DEF w
<1> HIDE DEF u
<1>5. /\ l = Undefined \/ l.tag = "list"
      /\ l.elems \in Seq(Range(l.elems))
      /\ \A e \in Range(l.elems) : Has(e, t)
  BY <1>2, <1>3, <1>4, ListOrUndefined DEF u
<1>6. CASE l = Undefined
  BY <1>2, <1>6, UndefinedHas DEF Link, u
<1>7. CASE l # Undefined
  <2> DEFINE es == l.elems
             fs == <<v>> \o es
             n == ListValue(fs)
             S == {v} \cup Range(es)
  <2>1. es \in Seq(S)
    <3> DEFINE R == Range(l.elems)
    <3>1. es \in Seq(R) /\ R \subseteq S
      BY <1>5
    <3> HIDE DEF es, R, S
    <3> QED
      BY <3>1
  <2> HIDE DEF es
  <2>2. fs \in Seq(S)
    <3>1. <<v>> \in Seq(S)
      OBVIOUS
    <3> HIDE DEF S
    <3> QED
      BY <2>1, <3>1, ConcatProperties
  <2> HIDE DEF fs
  <2>3. Range(fs) \subseteq S
    <3> HIDE DEF S
    <3> QED
      BY <2>2, LenProperties, ElementOfSeq DEF Range
  <2>4. fs \in Seq(Range(fs))
    <3>1. Len(fs) \in Nat /\ fs \in [1 .. Len(fs) -> S] /\ DOMAIN fs = 1 .. Len(fs)
      <4> HIDE DEF S
      <4> QED
        BY <2>2, LenProperties
    <3> HIDE DEF S
    <3>2. fs \in [1 .. Len(fs) -> Range(fs)]
      BY <3>1 DEF Range
    <3> QED
      BY <3>1, <3>2
  <2>5. n.tag = "list" /\ n.elems = fs
    BY DEF ListValue, Value
  <2> HIDE DEF n
  <2>6. WellMade(n)
    BY <2>4, <2>5 DEF WellMade
  <2>7. HasKind(n, u)
    BY <1>3, <2>5 DEF HasKind
  <2>8. \A e \in Elements({n}) : Has(e, Nested(u))
    <3>1. Elements({n}) = Range(fs)
      BY <2>5, ListElements
    <3> QED
      BY <1>4, <1>5, <2>3, <3>1 DEF S, es
  <2>9. Has(n, u)
    BY <1>2, <2>6, <2>7, <2>8, HasStep
  <2> QED
    BY <1>2, <1>7, <2>9 DEF Link, n, fs, es, u
<1> QED
  BY <1>6, <1>7

\* The right operand of # is a list of the left operand's type.
LEMMA EqualLists ==
  ASSUME NEW t, NEW s, Plain(t), Word(s), Current(s) = "list", EqualTypes(t, Nested(s))
  PROVE  EqualTypes(List(t), s)
<1> DEFINE u == List(t)
           w == Nested(s)
           T == Len(t)
           W == Len(w)
<1>1. Word(t) /\ T \in Nat
  BY WordBasics DEF Plain
<1>2. /\ Len(u) = T + 1 /\ u[1] = "list"
      /\ \A i \in 1 .. T : u[i + 1] = t[i]
  BY <1>1, LongerWord DEF List
<1>3. /\ W = Len(s) - 1 /\ \A i \in 1 .. Len(s) - 1 : w[i] = s[i + 1]
  BY NestedWord
<1>4. Len(s) \in Nat /\ Len(s) > 0
  BY WordBasics
<1>5. PICK n \in 0 .. T :
        /\ n <= W /\ \A i \in 1 .. n : Kind(t[i]) = Kind(w[i])
        /\ \/ n = T /\ n = W
           \/ n < T /\ n < W /\ "any" \in {t[n + 1], w[n + 1]}
  BY DEF EqualTypes
<1>6. s[1] = "list"
  <2>1. s[1] \in ValueLetters
    BY WordBasics
  <2> QED
    BY <2>1 DEF Current, Kind, ValueLetters
<1> DEFINE S == Len(s)
           U == Len(u)
<1>7. S \in Nat /\ S > 0 /\ W = S - 1 /\ U = T + 1
  BY <1>2, <1>3, <1>4
<1>8. /\ \A i \in 1 .. T : u[i + 1] = t[i]
      /\ \A i \in 1 .. S - 1 : w[i] = s[i + 1]
  BY <1>2, <1>3
<1> HIDE DEF u, w, T, W, S, U
<1>9. n + 1 \in 0 .. U /\ n + 1 <= S
  BY <1>1, <1>5, <1>7
<1>10. ASSUME NEW i \in 1 .. n + 1 PROVE Kind(u[i]) = Kind(s[i])
  <2>1. CASE i = 1
    BY <1>2, <1>6, <2>1
  <2>2. CASE i # 1
    <3>1. i - 1 \in 1 .. n /\ i - 1 \in 1 .. T /\ i - 1 \in 1 .. S - 1 /\ (i - 1) + 1 = i
      BY <1>1, <1>5, <1>7, <2>2
    <3> QED
      BY <1>5, <1>8, <3>1
  <2> QED
    BY <2>1, <2>2
<1>11. \/ n + 1 = U /\ n + 1 = S
       \/ n + 1 < U /\ n + 1 < S /\ "any" \in {u[(n + 1) + 1], s[(n + 1) + 1]}
  <2>1. CASE n = T /\ n = W
    BY <1>1, <1>7, <2>1
  <2>2. CASE n < T /\ n < W /\ "any" \in {t[n + 1], w[n + 1]}
    <3>1. n + 1 \in 1 .. T /\ n + 1 \in 1 .. S - 1
      BY <1>1, <1>5, <1>7, <2>2
    <3>2. u[(n + 1) + 1] = t[n + 1] /\ s[(n + 1) + 1] = w[n + 1]
      BY <1>8, <3>1
    <3>3. n + 1 < U /\ n + 1 < S
      BY <1>1, <1>5, <1>7, <2>2
    <3> QED
      BY <2>2, <3>2, <3>3
  <2> QED
    BY <1>5, <2>1, <2>2
<1> DEFINE k == n + 1
<1>12. k \in 0 .. U /\ k <= S /\ (\A i \in 1 .. k : Kind(u[i]) = Kind(s[i]))
       /\ (\/ k = U /\ k = S
           \/ k < U /\ k < S /\ "any" \in {u[k + 1], s[k + 1]})
  BY <1>9, <1>10, <1>11
<1> HIDE DEF k
<1>13. EqualTypes(u, s)
  BY <1>12 DEF EqualTypes, U, S
<1> QED
  BY <1>13 DEF u

\* Head and tail.
LEMMA PartsHave ==
  ASSUME NEW v, NEW t, Word(t), Current(t) = "list", Has(v, t)
  PROVE  /\ Has(Rest(v), t)
         /\ ~IsNilConstant(t) => Has(First(v), Nested(t))
<1>1. /\ v = Undefined \/ v.tag = "list"
      /\ v.elems \in Seq(Range(v.elems))
      /\ \A e \in Range(v.elems) : Has(e, Nested(t))
  BY ListOrUndefined
<1>2. CASE v.elems = <<>>
  <2>1. ~IsNilConstant(t) => Word(Nested(t))
    BY NestedWord
  <2>2. ~IsNilConstant(t) => Has(Undefined, Nested(t))
    BY <2>1, UndefinedHas
  <2>3. Has(Undefined, t)
    BY UndefinedHas
  <2> QED
    BY <1>2, <2>2, <2>3 DEF First, Rest
<1>3. CASE v.elems # <<>>
  <2> DEFINE es == v.elems
             fs == Tail(es)
             R == Range(es)
             n == ListValue(fs)
  <2>1. es \in Seq(R) /\ es # <<>> /\ \A e \in R : Has(e, Nested(t))
    BY <1>1, <1>3
  <2> HIDE DEF es, R
  <2>2. Head(es) \in R /\ fs \in Seq(R)
    BY <2>1, HeadTailProperties
  <2> HIDE DEF fs
  <2>3. Range(fs) \subseteq R
    BY <2>2, LenProperties, ElementOfSeq DEF Range
  <2>4. fs \in Seq(Range(fs))
    <3>1. Len(fs) \in Nat /\ fs \in [1 .. Len(fs) -> R] /\ DOMAIN fs = 1 .. Len(fs)
      BY <2>2, LenProperties
    <3>2. fs \in [1 .. Len(fs) -> Range(fs)]
      BY <3>1 DEF Range
    <3> QED
      BY <3>1, <3>2
  <2>5. n.tag = "list" /\ n.elems = fs
    BY DEF ListValue, Value
  <2> HIDE DEF n
  <2>6. WellMade(n) /\ HasKind(n, t)
    BY <2>4, <2>5 DEF WellMade, HasKind
  <2>7. Elements({n}) = Range(fs)
    BY <2>5, ListElements
  <2>8. Has(n, t)
    BY <2>1, <2>3, <2>6, <2>7, HasStep
  <2>9. Rest(v) = n /\ First(v) = Head(es)
    BY <1>3 DEF Rest, First, n, fs, es
  <2> QED
    BY <2>1, <2>2, <2>8, <2>9
<1> QED
  BY <1>2, <1>3

-----------------------------------------------------------------------------
(* The inductive invariant: the types of operands are words, and until a     *)
(* `nil` was pushed what variables and operands hold has their type.         *)

OperandFits(e, p)  == IF HasValue(e) THEN Word(e.type) /\ (~p => Has(e.val, e.type)) ELSE e.val = Undefined
VariableFits(r, p) == r.type \in DeclTypes /\ (~p => Has(r.val, r.type))

VarsFit(vs, p)  == DOMAIN vs \subseteq Vars /\ \A x \in DOMAIN vs : VariableFits(vs[x], p)
StackFits(s, p) == \E S : s \in Seq(S) /\ \A e \in S : OperandFits(e, p)

ExpressionsInv ==
  /\ pushed \in BOOLEAN
  /\ VarsFit(vars, pushed)
  /\ StackFits(stack, pushed)

\* Functions and their void calls have no value.
LEMMA WordsHaveValues ==
  ASSUME NEW e, Word(e.type)
  PROVE  HasValue(e)
<1>1. e.type[1] \in ValueLetters
  BY WordBasics
<1>2. <<"void">>[1] \notin ValueLetters /\ <<"function">>[1] \notin ValueLetters
  BY DEF ValueLetters, Scalars
<1> QED
  BY <1>1, <1>2 DEF HasValue

LEMMA ValuesFit ==
  ASSUME NEW e, NEW p, Word(e.type), ~p => Has(e.val, e.type)
  PROVE  OperandFits(e, p)
BY WordsHaveValues DEF OperandFits

LEMMA OthersFit ==
  ASSUME NEW t \in {<<"void">>, <<"function">>}, NEW op, NEW ir, NEW p
  PROVE  OperandFits(Expression(op, t, ir, Undefined), p)
<1> DEFINE e == Expression(op, t, ir, Undefined)
<1>1. e.type = t /\ e.val = Undefined
  BY DEF Expression
<1> HIDE DEF e
<1>2. OperandFits(e, p)
  BY <1>1 DEF OperandFits, HasValue
<1> QED
  BY <1>2 DEF e

LEMMA CurrentOfOthers ==
  ASSUME NEW e, ~HasValue(e)
  PROVE  Current(e.type) \notin {"list", "array"} /\ e.type[1] \in {"void", "function"}
<1> DEFINE t == e.type
<1>1. t[1] \in {"void", "function"}
  BY DEF HasValue
<1> HIDE DEF t
<1>2. Current(t) \notin {"list", "array"}
  BY <1>1 DEF Current, Kind
<1> QED
  BY <1>1, <1>2 DEF t

\* They are of no declared type.
LEMMA OthersAreUnequal ==
  ASSUME NEW e, ~HasValue(e), NEW t, Plain(t)
  PROVE  ~EqualTypes(e.type, t) /\ ~EqualTypes(t, e.type)
<1> DEFINE u == e.type
<1>1. Len(u) = 1 /\ u[1] \in {"void", "function"}
  BY DEF HasValue
<1>2. /\ Len(t) \in Nat /\ Len(t) > 0 /\ 1 \in 1 .. Len(t) /\ t[1] \in ValueLetters /\ t[1] # "any"
  BY WordBasics DEF Plain
<1> HIDE DEF u
<1>3. Kind(u[1]) # Kind(t[1]) /\ "any" \notin {u[1], t[1]}
  BY <1>1, <1>2 DEF Kind, ValueLetters, Scalars
<1>4. ASSUME NEW a, NEW b, Len(a) \in Nat, Len(a) > 0, Kind(a[1]) # Kind(b[1]), "any" \notin {a[1], b[1]}
      PROVE  ~EqualTypes(a, b)
  <2> SUFFICES ASSUME EqualTypes(a, b) PROVE FALSE
    OBVIOUS
  <2>1. PICK n \in 0 .. Len(a) :
          /\ n <= Len(b) /\ \A i \in 1 .. n : Kind(a[i]) = Kind(b[i])
          /\ \/ n = Len(a) /\ n = Len(b)
             \/ n < Len(a) /\ n < Len(b) /\ "any" \in {a[n + 1], b[n + 1]}
    BY DEF EqualTypes
  <2>2. n # 0
    BY <1>4, <2>1
  <2>3. 1 \in 1 .. n
    BY <2>1, <2>2
  <2> QED
    BY <1>4, <2>1, <2>3
<1>5. ~EqualTypes(u, t) /\ ~EqualTypes(t, u)
  BY <1>1, <1>2, <1>3, <1>4
<1> QED
  BY <1>5 DEF u

LEMMA VoidHasNoKey == ~HasKey(List(<<"void">>))
<1> DEFINE S == {"list", "void"}
           a == <<"list">>
           b == <<"void">>
           u == a \o b
<1>1. a \in Seq(S) /\ Len(a) = 1 /\ b \in Seq(S) /\ Len(b) = 1 /\ b[1] = "void"
  OBVIOUS
<1> HIDE DEF S, a, b
<1>2. /\ Len(u) = Len(a) + Len(b)
      /\ \A i \in 1 .. Len(a) + Len(b) : u[i] = IF i <= Len(a) THEN a[i] ELSE b[i - Len(a)]
  BY <1>1, ConcatProperties
<1> HIDE DEF u
<1>3. Len(u) = 2 /\ u[2] = b[2 - 1]
  BY <1>1, <1>2
<1>31. u[Len(u)] = "void"
  BY <1>1, <1>2, <1>3
<1>4. ~HasKey(u)
  BY <1>31 DEF HasKey
<1> QED
  BY <1>4 DEF u, a, b, List

LEMMA EmptyStack ==
  ASSUME NEW p
  PROVE  StackFits(<<>>, p)
<1> DEFINE S == {e \in {0} : FALSE}
<1>1. <<>> \in Seq(S)
  OBVIOUS
<1>2. \A e \in S : OperandFits(e, p)
  OBVIOUS
<1> HIDE DEF S
<1> QED
  BY <1>1, <1>2 DEF StackFits

LEMMA StackOperand ==
  ASSUME NEW s, NEW p, StackFits(s, p), NEW n \in Nat, n < Len(s)
  PROVE  OperandFits(s[Len(s) - n], p)
<1>1. PICK S : s \in Seq(S) /\ \A e \in S : OperandFits(e, p)
  BY DEF StackFits
<1>2. Len(s) \in Nat
  BY <1>1, LenProperties
<1>3. Len(s) - n \in 1 .. Len(s)
  BY <1>2
<1>4. s[Len(s) - n] \in S
  BY <1>1, <1>3, ElementOfSeq
<1> QED
  BY <1>1, <1>4

LEMMA StackReplace ==
  ASSUME NEW s, NEW p, StackFits(s, p), NEW n \in Nat, n <= Len(s), NEW e, OperandFits(e, p)
  PROVE  StackFits(Append(SubSeq(s, 1, Len(s) - n), e), p)
<1>1. PICK S : s \in Seq(S) /\ \A o \in S : OperandFits(o, p)
  BY DEF StackFits
<1> DEFINE T == S \cup {e}
           m == Len(s) - n
           r == SubSeq(s, 1, m)
<1>2. Len(s) \in Nat
  BY <1>1, LenProperties
<1>3. m \in 0 .. Len(s)
  BY <1>2
<1> HIDE DEF m
<1>4. r \in Seq(S)
  <2>1. \A i \in 1 .. m : i \in 1 .. Len(s)
    BY <1>2, <1>3
  <2> QED
    BY <1>1, <1>2, <1>3, <2>1, SubSeqProperties
<1> HIDE DEF r
<1>5. Append(r, e) \in Seq(T)
  <2>1. r \in Seq(T)
    BY <1>4
  <2>2. e \in T
    OBVIOUS
  <2> HIDE DEF T
  <2> QED
    BY <2>1, <2>2, AppendProperties
<1>6. \A o \in T : OperandFits(o, p)
  BY <1>1
<1> QED
  BY <1>5, <1>6 DEF StackFits, r, m

LEMMA StackPush ==
  ASSUME NEW s, NEW p, StackFits(s, p), NEW e, OperandFits(e, p)
  PROVE  StackFits(Append(s, e), p)
<1>1. PICK S : s \in Seq(S) /\ \A o \in S : OperandFits(o, p)
  BY DEF StackFits
<1> DEFINE T == S \cup {e}
<1>2. Append(s, e) \in Seq(T)
  <2>1. s \in Seq(T) /\ e \in T
    BY <1>1
  <2> HIDE DEF T
  <2> QED
    BY <2>1, AppendProperties
<1>3. \A o \in T : OperandFits(o, p)
  BY <1>1
<1> QED
  BY <1>2, <1>3 DEF StackFits

\* After a `nil` was pushed nothing is said of the values any more.
LEMMA FitsAfterPush ==
  ASSUME NEW p, NEW q, p => q
  PROVE  /\ \A vs : VarsFit(vs, p) => VarsFit(vs, q)
         /\ \A s : StackFits(s, p) => StackFits(s, q)
<1>1. \A vs : VarsFit(vs, p) => VarsFit(vs, q)
  BY DEF VarsFit, VariableFits
<1>2. \A e : OperandFits(e, p) => OperandFits(e, q)
  BY DEF OperandFits
<1>3. ASSUME NEW s, StackFits(s, p) PROVE StackFits(s, q)
  <2>1. PICK S : s \in Seq(S) /\ \A o \in S : OperandFits(o, p)
    BY <1>3 DEF StackFits
  <2> QED
    BY <1>2, <2>1 DEF StackFits
<1> QED
  BY <1>1, <1>3

\* What the steps that only push, or that replace operands, have to show.
LEMMA Pushed ==
  ASSUME ExpressionsInv, NEW e, OperandFits(e, pushed), Push(e)
  PROVE  ExpressionsInv'
<1>1. stack' = Append(stack, e) /\ vars' = vars /\ pushed' = pushed
  BY DEF Push, Visit
<1>2. StackFits(Append(stack, e), pushed)
  BY StackPush DEF ExpressionsInv
<1> QED
  BY <1>1, <1>2 DEF ExpressionsInv, VarsFit, VariableFits, StackFits, OperandFits

LEMMA Replaced ==
  ASSUME ExpressionsInv, NEW n \in Nat, n <= Len(stack), NEW e, OperandFits(e, pushed),
         Visit(Below(n), e), vars' = vars, pushed' = pushed
  PROVE  ExpressionsInv'
<1>1. stack' = Append(SubSeq(stack, 1, Len(stack) - n), e)
  BY DEF Visit, Below
<1>2. StackFits(Append(SubSeq(stack, 1, Len(stack) - n), e), pushed)
  BY StackReplace DEF ExpressionsInv
<1> QED
  BY <1>1, <1>2 DEF ExpressionsInv, VarsFit, VariableFits, StackFits, OperandFits

LEMMA Unmoved ==
  ASSUME ExpressionsInv, vars' = vars, stack' = stack, pushed' = pushed
  PROVE  ExpressionsInv'
BY DEF ExpressionsInv, VarsFit, VariableFits, StackFits, OperandFits

LEMMA Stopped ==
  ASSUME ExpressionsInv, NEW how, NEW why, Stop(how, why)
  PROVE  ExpressionsInv'
BY Unmoved DEF Stop

LEMMA MadeOperand ==
  ASSUME NEW op, NEW t, NEW ir, NEW v, Word(t), Has(v, t), NEW p
  PROVE  OperandFits(Expression(op, t, ir, v), p)
<1> DEFINE e == Expression(op, t, ir, v)
<1>1. e.type = t /\ e.val = v
  BY DEF Expression
<1> HIDE DEF e
<1>2. OperandFits(e, p)
  BY <1>1, ValuesFit
<1> QED
  BY <1>2 DEF e

LEMMA ScalarOperand ==
  ASSUME NEW l \in Scalars, NEW op, NEW ir, NEW p
  PROVE  OperandFits(Expression(op, <<l>>, ir, ScalarValue(l)), p)
<1>1. Word(<<l>>) /\ Has(ScalarValue(l), <<l>>)
  BY ScalarPlain, ScalarHas DEF Plain
<1> QED
  BY <1>1, MadeOperand

LEMMA ArrayOperand ==
  ASSUME NEW t, Plain(t), NEW made \in MadeArray(t), NEW op, NEW ir, NEW p
  PROVE  OperandFits(Expression(op, made, ir, ArrayValue(t)), p)
<1>1. PICK a \in {"array", "sized"} : made = <<a>> \o t
  BY DEF MadeArray
<1>2. Word(made) /\ Has(ArrayValue(t), made)
  BY <1>1, ArrayHas DEF Plain
<1> QED
  BY <1>2, MadeOperand

-----------------------------------------------------------------------------
(* Every step keeps it.                                                      *)

LEMMA DeclareKeeps ==
  ASSUME ExpressionsInv, NEW x \in Vars, NEW t \in DeclTypes, Declare(x, t)
  PROVE  ExpressionsInv'
<1> DEFINE made == Translate(t, catalog)
           new  == [type |-> t, val |-> Undefined]
<1> HIDE DEF made
<1>1. \/ /\ vars' = [y \in DOMAIN vars \cup {x} |-> IF y = x THEN new ELSE vars[y]]
         /\ stack' = stack /\ pushed' = pushed
      \/ Stop("no_type", {Expression("declare", t, <<>>, Undefined)})
  BY DEF Declare, made
<1>2. CASE Stop("no_type", {Expression("declare", t, <<>>, Undefined)})
  BY <1>2, Stopped
<1>3. CASE /\ vars' = [y \in DOMAIN vars \cup {x} |-> IF y = x THEN new ELSE vars[y]]
           /\ stack' = stack /\ pushed' = pushed
  <2>1. VariableFits(new, pushed)
    <3>1. Has(Undefined, t)
      BY DeclaredPlain, UndefinedHas DEF Plain
    <3> QED
      BY <3>1 DEF VariableFits
  <2> HIDE DEF new
  <2>2. VarsFit(vars, pushed)
    BY DEF ExpressionsInv
  <2>3. DOMAIN vars' \subseteq Vars /\ \A y \in DOMAIN vars' : VariableFits(vars'[y], pushed)
    BY <1>3, <2>1, <2>2 DEF VarsFit
  <2> QED
    BY <1>3, <2>3 DEF ExpressionsInv, VarsFit, VariableFits, StackFits, OperandFits
<1> QED
  BY <1>1, <1>2, <1>3

LEMMA ConstantKeeps ==
  ASSUME ExpressionsInv, NEW letter \in Scalars, Constant(letter)
  PROVE  ExpressionsInv'
BY ScalarOperand, Pushed DEF Constant

LEMMA StringKeeps ==
  ASSUME ExpressionsInv, StringLiteral
  PROVE  ExpressionsInv'
<1> DEFINE c == <<"char">>
<1>1. Plain(c)
  BY ScalarPlain DEF Scalars
<1>2. PICK t \in MadeArray(c) :
        LET e == Expression("string", t, Translate(t, catalog).ir, ArrayValue(c))
        IN  Push(e) \/ Stop("bad_ir", {e})
  BY DEF StringLiteral
<1> DEFINE e == Expression("string", t, Translate(t, catalog).ir, ArrayValue(c))
<1> HIDE DEF c
<1>3. OperandFits(e, pushed)
  BY <1>1, ArrayOperand
<1> HIDE DEF e
<1>4. Push(e) \/ Stop("bad_ir", {e})
  BY <1>2 DEF e
<1> QED
  BY <1>3, <1>4, Pushed, Stopped

LEMMA NilKeeps ==
  ASSUME ExpressionsInv, Nil
  PROVE  ExpressionsInv'
<1> DEFINE t == <<"list", "any">>
           e == Expression("nil", t, <<"ptr", "i32">>, ListValue(<<>>))
<1>1. Word(t) /\ t[1] = "list"
  BY NilWord
<1>2. Push(e)
  BY DEF Nil
<1> HIDE DEF t
<1>3. Has(ListValue(<<>>), t)
  BY <1>1, NilHas DEF Current, Kind
<1>4. OperandFits(e, pushed)
  BY <1>1, <1>3, MadeOperand
<1> HIDE DEF e
<1> QED
  BY <1>2, <1>4, Pushed

LEMMA IdKeeps ==
  ASSUME ExpressionsInv, NEW x \in Vars, Id(x)
  PROVE  ExpressionsInv'
<1> DEFINE t == vars[x].type
           v == vars[x].val
           e == Expression("id", t, Translate(t, catalog).ir, v)
<1>1. x \in DOMAIN vars /\ Push(e)
  BY DEF Id
<1>2. t \in DeclTypes /\ (~pushed => Has(v, t))
  BY <1>1 DEF ExpressionsInv, VarsFit, VariableFits
<1> HIDE DEF t, v
<1>3. OperandFits(e, pushed)
  <2>1. e.type = t /\ e.val = v /\ Word(t)
    BY <1>2, DeclaredPlain DEF Expression, Plain
  <2> HIDE DEF e
  <2> QED
    BY <1>2, <2>1, ValuesFit
<1> HIDE DEF e
<1> QED
  BY <1>1, <1>3, Pushed

LEMMA LengthOfStack ==
  ASSUME ExpressionsInv
  PROVE  Len(stack) \in Nat /\ (stack # <<>> => Len(stack) > 0)
<1>1. PICK S : stack \in Seq(S)
  BY DEF ExpressionsInv, StackFits
<1> QED
  BY <1>1, LenProperties, EmptySeq

LEMMA FunctionNameKeeps ==
  ASSUME ExpressionsInv, FunctionName
  PROVE  ExpressionsInv'
<1> DEFINE t == <<"function">>
           e == Expression("function", t, <<"none">>, Undefined)
<1>1. Push(e)
  BY DEF FunctionName
<1>2. OperandFits(e, pushed)
  BY OthersFit
<1> HIDE DEF e
<1> QED
  BY <1>1, <1>2, Pushed

LEMMA VoidCallKeeps ==
  ASSUME ExpressionsInv, VoidCall
  PROVE  ExpressionsInv'
<1> DEFINE t == <<"void">>
           e == Expression("call", t, <<"void">>, Undefined)
<1>1. Push(e)
  BY DEF VoidCall
<1>2. OperandFits(e, pushed)
  BY OthersFit
<1> HIDE DEF e
<1> QED
  BY <1>1, <1>2, Pushed

\* Operand(n), for a stack that has it.
LEMMA OperandOfStack ==
  ASSUME ExpressionsInv, NEW n \in Nat, n < Len(stack)
  PROVE  /\ HasValue(Operand(n)) =>
              Word(Operand(n).type) /\ (~pushed => Has(Operand(n).val, Operand(n).type))
         /\ Current(Operand(n).type) \in {"list", "array"} => HasValue(Operand(n))
         /\ \A t \in DeclTypes :
              EqualTypes(Operand(n).type, t) \/ EqualTypes(t, Operand(n).type) => HasValue(Operand(n))
<1> DEFINE e == Operand(n)
<1>1. OperandFits(e, pushed)
  BY StackOperand DEF ExpressionsInv, Operand
<1> HIDE DEF e
<1>2. HasValue(e) => Word(e.type) /\ (~pushed => Has(e.val, e.type))
  BY <1>1 DEF OperandFits
<1>3. ASSUME ~HasValue(e), NEW t \in DeclTypes
      PROVE  ~EqualTypes(e.type, t) /\ ~EqualTypes(t, e.type)
  BY <1>3, DeclaredPlain, OthersAreUnequal
<1> QED
  BY <1>2, <1>3, CurrentOfOthers DEF e

LEMMA NewKeeps ==
  ASSUME ExpressionsInv, NEW t \in DeclTypes, New(t)
  PROVE  ExpressionsInv'
<1>1. 1 \in Nat /\ 1 <= Len(stack)
  BY LengthOfStack DEF New
<1>2. CASE Reject
  BY <1>2, Stopped DEF Reject
<1>3. CASE ~Reject
  <2>1. PICK made \in MadeArray(t) : Visit(Below(1), Expression("new", made, <<"ptr", "i8">>, ArrayValue(t)))
    BY <1>3 DEF New
  <2>2. vars' = vars /\ pushed' = pushed
    BY <1>3 DEF New
  <2> DEFINE e == Expression("new", made, <<"ptr", "i8">>, ArrayValue(t))
  <2>3. OperandFits(e, pushed)
    BY DeclaredPlain, ArrayOperand
  <2>4. Visit(Below(1), e)
    BY <2>1
  <2> HIDE DEF e
  <2> QED
    BY <1>1, <2>2, <2>3, <2>4, Replaced
<1> QED
  BY <1>2, <1>3

LEMMA ArrayElementKeeps ==
  ASSUME ExpressionsInv, ArrayElement
  PROVE  ExpressionsInv'
<1>1. 2 \in Nat /\ 2 <= Len(stack) /\ 1 \in Nat /\ 1 < Len(stack)
  BY LengthOfStack DEF ArrayElement
<1>2. CASE Reject
  BY <1>2, Stopped DEF Reject
<1>3. CASE ~Reject
  <2> DEFINE s == Operand(1).type
             t == Nested(s)
             e == Expression("element", t, Tail(Operand(1).ir), Sample(t))
  <2>1. Current(s) = "array" /\ Visit(Below(2), e) /\ vars' = vars /\ pushed' = pushed
    BY <1>3 DEF ArrayElement
  <2>2. Word(s)
    BY <1>1, <2>1, OperandOfStack
  <2> HIDE DEF s
  <2>3. Plain(t)
    BY <2>1, <2>2, NestedWord
  <2> HIDE DEF t
  <2>4. Word(t) /\ Has(Sample(t), t)
    BY <2>3, SampleHas DEF Plain
  <2>5. OperandFits(e, pushed)
    BY <2>4, MadeOperand
  <2> HIDE DEF e
  <2> QED
    BY <1>1, <2>1, <2>5, Replaced
<1> QED
  BY <1>2, <1>3

LEMMA OperatorKeeps ==
  ASSUME ExpressionsInv, NEW o \in Operators, Operator(o)
  PROVE  ExpressionsInv'
<1>1. o.arity \in Nat /\ o.type \in Scalars
  BY DEF Operators, Scalars
<1>2. o.arity <= Len(stack)
  BY <1>1, LengthOfStack DEF Operator
<1>3. CASE Reject
  BY <1>3, Stopped DEF Reject
<1>4. CASE ~Reject
  <2> DEFINE e == Expression("operator", <<o.type>>, ScalarIR(o.type), ScalarValue(o.type))
  <2>1. Visit(Below(o.arity), e) /\ vars' = vars /\ pushed' = pushed
    BY <1>4 DEF Operator
  <2>2. OperandFits(e, pushed)
    BY <1>1, ScalarOperand
  <2> HIDE DEF e
  <2> QED
    BY <1>1, <1>2, <2>1, <2>2, Replaced
<1> QED
  BY <1>3, <1>4

LEMMA CompareKeeps ==
  ASSUME ExpressionsInv, Compare
  PROVE  ExpressionsInv'
<1>1. 2 \in Nat /\ 2 <= Len(stack)
  BY LengthOfStack DEF Compare
<1> DEFINE e == Expression("compare", <<"bool">>, <<"i1">>, ScalarValue("bool"))
<1>2. \/ Reject
      \/ Stop("bad_ir", {Operand(1), Operand(0)})
      \/ Visit(Below(2), e) /\ vars' = vars /\ pushed' = pushed
  BY DEF Compare
<1>3. OperandFits(e, pushed)
  BY ScalarOperand DEF Scalars
<1> HIDE DEF e
<1> QED
  BY <1>1, <1>2, <1>3, Stopped, Replaced DEF Reject

LEMMA IsNilKeeps ==
  ASSUME ExpressionsInv, IsNil
  PROVE  ExpressionsInv'
<1>1. 1 \in Nat /\ 1 <= Len(stack)
  BY LengthOfStack DEF IsNil
<1> DEFINE e == Expression("nil?", <<"bool">>, <<"i1">>, ScalarValue("bool"))
<1>2. Reject \/ (Visit(Below(1), e) /\ vars' = vars /\ pushed' = pushed)
  BY DEF IsNil
<1>3. OperandFits(e, pushed)
  BY ScalarOperand DEF Scalars
<1> HIDE DEF e
<1> QED
  BY <1>1, <1>2, <1>3, Stopped, Replaced DEF Reject

\* The right operand of # may be a `nil`, or hold lists of nothing: its value
\* has the type of the left operand's list all the same.
LEMMA ConstructKeeps ==
  ASSUME ExpressionsInv, Construct
  PROVE  ExpressionsInv'
<1>1. 2 \in Nat /\ 2 <= Len(stack) /\ 1 \in Nat /\ 1 < Len(stack) /\ 0 \in Nat /\ 0 < Len(stack)
  BY LengthOfStack DEF Construct
<1> DEFINE left  == Operand(1)
           right == Operand(0)
           t     == List(left.type)
           v     == Link(left.val, right.val)
           made  == Translate(t, catalog)
           elem  == Translate(left.type, made.cat)
           e     == Expression("cons", t, made.ir, v)
<1>2. /\ HasValue(left) => Word(left.type) /\ (~pushed => Has(left.val, left.type))
      /\ HasValue(right) => Word(right.type) /\ (~pushed => Has(right.val, right.type))
      /\ Current(right.type) = "list" => HasValue(right)
  BY <1>1, OperandOfStack
<1> HIDE DEF made, elem
<1>3. \/ Reject \/ \E how : Stop(how, {left})
      \/ /\ Current(right.type) = "list" /\ EqualTypes(left.type, Nested(right.type))
         /\ left.type # <<"function">> /\ HasKey(t)
         /\ Visit(Below(2), e)
         /\ pushed' = (pushed \/ Mentions(left.type, {"any"}))
         /\ vars' = vars
  BY Zenon DEF Construct, made, elem
<1>4. CASE Reject \/ \E how : Stop(how, {left})
  BY <1>4, Stopped DEF Reject
<1>5. CASE /\ Current(right.type) = "list" /\ EqualTypes(left.type, Nested(right.type))
           /\ left.type # <<"function">> /\ HasKey(t)
           /\ Visit(Below(2), e)
           /\ pushed' = (pushed \/ Mentions(left.type, {"any"}))
           /\ vars' = vars
  <2>0. HasValue(left)
    BY <1>5, VoidHasNoKey, Zenon DEF HasValue
  <2> HIDE DEF left, right, t, v
  <2>1. Word(t)
    BY <1>2, <2>0, LongerWord DEF List, t
  <2>2. ASSUME ~pushed' PROVE Has(v, t)
    <3>1. ~pushed /\ ~Mentions(left.type, {"any"})
      BY <1>5, <2>2
    <3>2. Plain(left.type)
      BY <1>2, <2>0, <3>1, WordBasics DEF Plain, Mentions
    <3>3. Plain(t)
      BY <3>2, <1>2, <2>0, LongerWord DEF List, t
    <3>4. EqualTypes(t, right.type)
      BY <1>2, <1>5, <2>0, <3>2, EqualLists DEF t
    <3>5. Has(right.val, t)
      BY <1>2, <1>5, <3>1, <3>3, <3>4, HasTransfers
    <3>6. Has(left.val, left.type)
      BY <1>2, <2>0, <3>1
    <3> QED
      BY <3>2, <3>5, <3>6, LinkHas DEF t, v
  <2> DEFINE q == pushed'
  <2>3. q \in BOOLEAN /\ (pushed => q)
    BY <1>5 DEF ExpressionsInv
  <2>4. OperandFits(e, q)
    <3>1. e.type = t /\ e.val = v
      BY DEF Expression
    <3> HIDE DEF e
    <3> QED
      BY <2>1, <2>2, <3>1, ValuesFit
  <2>5. stack' = Append(SubSeq(stack, 1, Len(stack) - 2), e)
    BY <1>5 DEF Visit, Below
  <2>6. vars' = vars
    BY <1>5
  <2> HIDE DEF e, q
  <2>7. VarsFit(vars, q) /\ StackFits(stack, q)
    BY <2>3, FitsAfterPush DEF ExpressionsInv
  <2>8. StackFits(Append(SubSeq(stack, 1, Len(stack) - 2), e), q)
    BY <1>1, <2>4, <2>7, StackReplace
  <2> QED
    BY <2>3, <2>5, <2>6, <2>7, <2>8 DEF ExpressionsInv, VarsFit, VariableFits, StackFits, OperandFits, q
<1> QED
  BY <1>3, <1>4, <1>5

LEMMA PartKeeps ==
  ASSUME ExpressionsInv, NEW op \in {"head", "tail"}, Part(op)
  PROVE  ExpressionsInv'
<1>1. 1 \in Nat /\ 1 <= Len(stack) /\ 0 \in Nat /\ 0 < Len(stack)
  BY LengthOfStack DEF Part
<1> DEFINE t    == Operand(0).type
           v    == Operand(0).val
           made == Translate(t, catalog)
           h    == Expression("head", Nested(t), made.cat[made.ir[2]].elem, First(v))
           r    == Expression("tail", t, made.ir, Rest(v))
<1>2. Current(t) = "list" => Word(t) /\ (~pushed => Has(v, t))
  BY <1>1, OperandOfStack
<1> HIDE DEF made
<1>3. \/ Reject
      \/ /\ Current(t) = "list" /\ ~IsNilConstant(t)
         /\ Visit(Below(1), IF op = "head" THEN h ELSE r)
         /\ vars' = vars /\ pushed' = pushed
  BY Zenon DEF Part, made
<1>4. CASE Reject
  BY <1>4, Stopped DEF Reject
<1>5. CASE /\ Current(t) = "list" /\ ~IsNilConstant(t)
           /\ Visit(Below(1), IF op = "head" THEN h ELSE r)
           /\ vars' = vars /\ pushed' = pushed
  <2> HIDE DEF t, v
  <2>1. Word(Nested(t))
    BY <1>2, <1>5, NestedWord
  <2>2. ~pushed => Has(Rest(v), t) /\ Has(First(v), Nested(t))
    BY <1>2, <1>5, PartsHave
  <2>3. OperandFits(h, pushed) /\ OperandFits(r, pushed)
    <3>1. h.type = Nested(t) /\ h.val = First(v) /\ r.type = t /\ r.val = Rest(v)
      BY DEF Expression
    <3> HIDE DEF h, r
    <3> QED
      BY <1>2, <1>5, <2>1, <2>2, <3>1, ValuesFit
  <2> HIDE DEF h, r
  <2> DEFINE e == IF op = "head" THEN h ELSE r
  <2>4. OperandFits(e, pushed) /\ Visit(Below(1), e)
    BY <1>5, <2>3
  <2> HIDE DEF e
  <2> QED
    BY <1>1, <1>5, <2>4, Replaced
<1> QED
  BY <1>3, <1>4, <1>5

LEMMA AssignKeeps ==
  ASSUME ExpressionsInv, NEW x \in Vars, Assign(x)
  PROVE  ExpressionsInv'
<1>1. 0 \in Nat /\ 0 < Len(stack) /\ x \in DOMAIN vars
  BY DEF Assign
<1> DEFINE e == Operand(0)
           t == vars[x].type
<1>2. /\ HasValue(e) => Word(e.type) /\ (~pushed => Has(e.val, e.type))
      /\ \A d \in DeclTypes : EqualTypes(e.type, d) => HasValue(e)
  BY <1>1, OperandOfStack
<1>3. \/ Reject \/ Stop("bad_ir", {e})
      \/ /\ EqualTypes(e.type, t)
         /\ vars' = [vars EXCEPT ![x].val = e.val]
         /\ stack' = <<>> /\ pushed' = pushed
  BY Zenon DEF Assign
<1>4. CASE Reject \/ Stop("bad_ir", {e})
  BY <1>4, Stopped DEF Reject
<1>5. CASE /\ EqualTypes(e.type, t)
           /\ vars' = [vars EXCEPT ![x].val = e.val]
           /\ stack' = <<>> /\ pushed' = pushed
  <2>1. t \in DeclTypes /\ VarsFit(vars, pushed)
    BY <1>1 DEF ExpressionsInv, VarsFit, VariableFits
  <2> HIDE DEF e
  <2>2. ~pushed => Has(e.val, t)
    <3> HIDE DEF t
    <3> QED
      BY <1>2, <1>5, <2>1, DeclaredPlain, HasTransfers
  <2>3. DOMAIN vars' = DOMAIN vars /\ \A y \in DOMAIN vars : y # x => vars'[y] = vars[y]
    BY <1>5
  <2>4. vars'[x] = [vars[x] EXCEPT !.val = e.val]
    BY <1>1, <1>5
  <2>5. VariableFits(vars'[x], pushed)
    BY <2>1, <2>2, <2>4 DEF VariableFits
  <2>6. VarsFit(vars', pushed)
    BY <2>1, <2>3, <2>5 DEF VarsFit
  <2>7. StackFits(<<>>, pushed)
    BY EmptyStack
  <2> QED
    BY <1>5, <2>6, <2>7 DEF ExpressionsInv, VarsFit, VariableFits, StackFits, OperandFits
<1> QED
  BY <1>3, <1>4, <1>5

LEMMA CallKeeps ==
  ASSUME ExpressionsInv, NEW x \in DOMAIN vars, Call(vars[x].type)
  PROVE  ExpressionsInv'
<1> DEFINE t == vars[x].type
<1>1. Call(t) /\ t \in DeclTypes
  BY DEF ExpressionsInv, VarsFit, VariableFits
<1> HIDE DEF t
<1>2. 1 \in Nat /\ 1 <= Len(stack) /\ 0 \in Nat /\ 0 < Len(stack)
  BY <1>1, LengthOfStack DEF Call
<1> DEFINE o == Operand(0)
           e == Expression("call", t, Translate(t, catalog).ir, o.val)
<1>3. /\ HasValue(o) => Word(o.type) /\ (~pushed => Has(o.val, o.type))
      /\ EqualTypes(t, o.type) => HasValue(o)
  BY <1>1, <1>2, OperandOfStack
<1>4. \/ Reject \/ Stop("bad_ir", {o})
      \/ EqualTypes(t, o.type) /\ Visit(Below(1), e) /\ vars' = vars /\ pushed' = pushed
  BY <1>1, Zenon DEF Call
<1> HIDE DEF o
<1>5. Plain(t)
  BY <1>1, DeclaredPlain
<1>6. EqualTypes(t, o.type) => OperandFits(e, pushed)
  <2> SUFFICES ASSUME EqualTypes(t, o.type) PROVE OperandFits(e, pushed)
    OBVIOUS
  <2>1. ~pushed => Has(o.val, t)
    BY <1>3, <1>5, HasTransfers
  <2>2. Word(t)
    BY <1>5 DEF Plain
  <2>3. e.type = t /\ e.val = o.val
    BY DEF Expression
  <2> HIDE DEF e
  <2> QED
    BY <2>1, <2>2, <2>3, ValuesFit
<1> HIDE DEF e
<1> QED
  BY <1>2, <1>4, <1>6, Stopped, Replaced DEF Reject

-----------------------------------------------------------------------------

LEMMA ExpressionsInitially == Init => ExpressionsInv
<1> SUFFICES ASSUME Init PROVE ExpressionsInv
  OBVIOUS
<1>1. DOMAIN <<>> = {}
  OBVIOUS
<1> QED
  BY <1>1, EmptyStack DEF Init, ExpressionsInv, VarsFit

LEMMA ExpressionsKeep == ExpressionsInv /\ [Next]_state => ExpressionsInv'
<1> SUFFICES ASSUME ExpressionsInv, [Next]_state PROVE ExpressionsInv'
  OBVIOUS
<1>1. ASSUME NEW x \in Vars, NEW t \in DeclTypes, Declare(x, t) PROVE ExpressionsInv'
  BY <1>1, DeclareKeeps
<1>2. ASSUME NEW letter \in Scalars, Constant(letter) PROVE ExpressionsInv'
  BY <1>2, ConstantKeeps
<1>3. CASE StringLiteral \/ Nil \/ FunctionName \/ VoidCall
  BY <1>3, StringKeeps, NilKeeps, FunctionNameKeeps, VoidCallKeeps
<1>4. ASSUME NEW x \in Vars, Id(x) \/ Assign(x) PROVE ExpressionsInv'
  BY <1>4, IdKeeps, AssignKeeps
<1>5. ASSUME NEW t \in DeclTypes, New(t) PROVE ExpressionsInv'
  BY <1>5, NewKeeps
<1>6. ASSUME NEW o \in Operators, Operator(o) PROVE ExpressionsInv'
  BY <1>6, OperatorKeeps
<1>7. CASE ArrayElement \/ Compare \/ Construct \/ IsNil
  BY <1>7, ArrayElementKeeps, CompareKeeps, ConstructKeeps, IsNilKeeps
<1>8. CASE Part("head") \/ Part("tail")
  BY <1>8, PartKeeps
<1>9. ASSUME NEW x \in DOMAIN vars, Call(vars[x].type) PROVE ExpressionsInv'
  BY <1>9, CallKeeps
<1>10. CASE UNCHANGED state
  BY <1>10, Unmoved DEF state
<1> QED
  BY <1>1, <1>2, <1>3, <1>4, <1>5, <1>6, <1>7, <1>8, <1>9, <1>10, Zenon DEF Next

\* What variables and operands hold has their type, level by level, until a
\* `nil` is made an element of a list (semantic.cpp, check_type_equality).
THEOREM OperandsHaveTheirTypes == Spec => []ExpressionsInv
<1>1. Spec => []ExpressionsInv
  BY ExpressionsInitially, ExpressionsKeep, PTL DEF Spec
<1> QED
  BY <1>1

\* No program that pushes no `nil` onto a list reads an element at a type the
\* element does not have.
THEOREM ElementsHaveTheirTypes == Spec => []ElementsConform
<1>1. ASSUME ExpressionsInv PROVE ElementsConform
  <2> SUFFICES ASSUME ~pushed
               PROVE  /\ \A x \in DOMAIN vars : Conforms(vars[x].val, vars[x].type)
                      /\ \A i \in DOMAIN stack : Conforms(stack[i].val, stack[i].type)
    BY DEF ElementsConform
  <2>1. \A x \in DOMAIN vars : Conforms(vars[x].val, vars[x].type)
    BY <1>1 DEF ExpressionsInv, VarsFit, VariableFits, Has
  <2>2. ASSUME NEW i \in DOMAIN stack PROVE Conforms(stack[i].val, stack[i].type)
    <3>1. PICK S : stack \in Seq(S) /\ \A e \in S : OperandFits(e, pushed)
      BY <1>1 DEF ExpressionsInv, StackFits
    <3>2. stack[i] \in S
      BY <3>1, LenProperties, ElementOfSeq
    <3> DEFINE e == stack[i]
    <3>3. OperandFits(e, pushed)
      BY <3>1, <3>2
    <3> HIDE DEF e
    <3>4. CASE HasValue(e)
      BY <3>3, <3>4 DEF OperandFits, Has, e
    <3>5. CASE ~HasValue(e)
      <4>1. e.val = Undefined /\ (e.type = <<"void">> \/ e.type = <<"function">>)
        BY <3>3, <3>5 DEF OperandFits, HasValue
      <4>2. Conforms(Undefined, <<"void">>) /\ Conforms(Undefined, <<"function">>)
        BY UndefinedConforms
      <4> QED
        BY <4>1, <4>2 DEF e
    <3> QED
      BY <3>4, <3>5
  <2> QED
    BY <2>1, <2>2
<1> QED
  BY <1>1, OperandsHaveTheirTypes, PTL

\* No expression has the type `any`: the generator's reading of `any` as an
\* integer (llvm/ast.cpp:196) gives no operand its LLVM type.
THEOREM AnyIsNested == Spec => []AnyStaysNested
<1>1. ASSUME ExpressionsInv PROVE AnyStaysNested
  <2> SUFFICES ASSUME NEW i \in DOMAIN stack, stack[i].type = <<"any">> PROVE FALSE
    BY DEF AnyStaysNested
  <2>1. PICK S : stack \in Seq(S) /\ \A e \in S : OperandFits(e, pushed)
    BY <1>1 DEF ExpressionsInv, StackFits
  <2>2. stack[i] \in S
    BY <2>1, LenProperties, ElementOfSeq
  <2> DEFINE t == stack[i].type
  <2>3. Word(t)
    <3>1. <<"any">>[1] = "any" /\ <<"void">>[1] = "void" /\ <<"function">>[1] = "function"
      OBVIOUS
    <3>2. HasValue(stack[i])
      BY <3>1 DEF HasValue
    <3> QED
      BY <2>1, <2>2, <3>2 DEF OperandFits
  <2>4. Len(t) = 1 /\ t[1] = "any"
    OBVIOUS
  <2> HIDE DEF t
  <2> QED
    BY <2>3, <2>4 DEF Word
<1> QED
  BY <1>1, OperandsHaveTheirTypes, PTL

-----------------------------------------------------------------------------
(* The LLVM types of types.  Translate is unfolded one letter at a time.     *)

\* Words, and what lists of nothing are of.
Formed(t) ==
  /\ t \in Seq(ValueLetters) /\ Len(t) > 0
  /\ \A i \in 1 .. Len(t) : t[i] \in Scalars \cup {"any"} <=> i = Len(t)

LEMMA WordFormed ==
  ASSUME NEW t, Word(t)
  PROVE  Formed(t)
BY DEF Word, Formed

LEMMA FormedBasics ==
  ASSUME NEW t, Formed(t)
  PROVE  /\ Len(t) \in Nat /\ Len(t) > 0 /\ DOMAIN t = 1 .. Len(t)
         /\ 1 \in 1 .. Len(t) /\ Len(t) \in 1 .. Len(t) /\ t # <<>> /\ t \in Seq(ValueLetters)
         /\ \A i \in 1 .. Len(t) : t[i] \in ValueLetters
         /\ t[1] \in Scalars \cup {"any"} <=> Len(t) = 1
<1>1. t \in Seq(ValueLetters) /\ Len(t) > 0
  BY DEF Formed
<1>2. Len(t) \in Nat /\ DOMAIN t = 1 .. Len(t)
  BY <1>1, LenProperties
<1>3. \A i \in 1 .. Len(t) : t[i] \in ValueLetters
  BY <1>1, ElementOfSeq
<1>4. t # <<>>
  BY <1>1, EmptySeq
<1>5. 1 \in 1 .. Len(t) /\ Len(t) \in 1 .. Len(t)
  BY <1>1, <1>2
<1>6. t[1] \in Scalars \cup {"any"} <=> Len(t) = 1
  BY <1>5 DEF Formed
<1> QED
  BY <1>1, <1>2, <1>3, <1>4, <1>5, <1>6

\* The letters that say what is around a type.
Around == {"list", "array", "sized"}

LEMMA Longer ==
  ASSUME NEW t, Formed(t)
  PROVE  /\ t[1] \in Around <=> Len(t) > 1
         /\ t[1] \in Around \cup Scalars \cup {"any"}
<1>1. /\ Len(t) \in Nat /\ Len(t) > 0 /\ t[1] \in ValueLetters
      /\ t[1] \in Scalars \cup {"any"} <=> Len(t) = 1
  BY FormedBasics
<1> DEFINE L == Len(t)
<1>2. L \in Nat /\ L > 0
  BY <1>1
<1> HIDE DEF L
<1>3. L = 1 \/ L > 1
  BY <1>2
<1>4. L = 1 => ~(L > 1)
  BY <1>2
<1> QED
  BY <1>1, <1>3, <1>4 DEF L, Around, ValueLetters, Scalars

LEMMA NestedFormed ==
  ASSUME NEW t, Formed(t), Len(t) > 1
  PROVE  /\ Formed(Nested(t)) /\ Len(Nested(t)) = Len(t) - 1
         /\ \A i \in 1 .. Len(t) - 1 : Nested(t)[i] = t[i + 1]
<1> DEFINE u == Nested(t)
<1>1. Len(t) \in Nat /\ t # <<>> /\ t \in Seq(ValueLetters)
  BY FormedBasics
<1>2. u \in Seq(ValueLetters) /\ Len(u) = Len(t) - 1 /\ \A i \in 1 .. Len(t) - 1 : u[i] = t[i + 1]
  BY <1>1, HeadTailProperties DEF Nested
<1> HIDE DEF u
<1>3. \A i \in 1 .. Len(u) : i + 1 \in 1 .. Len(t) /\ u[i] = t[i + 1]
  BY <1>1, <1>2
<1>4. ASSUME NEW i \in 1 .. Len(u) PROVE u[i] \in Scalars \cup {"any"} <=> i = Len(u)
  <2>1. t[i + 1] \in Scalars \cup {"any"} <=> i + 1 = Len(t)
    BY <1>3 DEF Formed
  <2>2. i + 1 = Len(t) <=> i = Len(u)
    BY <1>1, <1>2
  <2> QED
    BY <1>3, <2>1, <2>2
<1>5. Len(u) > 0
  BY <1>1, <1>2
<1> QED
  BY <1>2, <1>4, <1>5 DEF Formed, u

\* A letter in front.
LEMMA FrontFormed ==
  ASSUME NEW a \in Around, NEW t, Formed(t)
  PROVE  Formed(<<a>> \o t) /\ Nested(<<a>> \o t) = t /\ (<<a>> \o t)[1] = a /\ Len(<<a>> \o t) > 1
<1> DEFINE u == <<a>> \o t
<1>1. /\ Len(t) \in Nat /\ Len(t) > 0 /\ t \in Seq(ValueLetters)
  BY FormedBasics
<1>2. a \in ValueLetters /\ a \notin Scalars \cup {"any"}
  BY DEF Around, ValueLetters, Scalars
<1>3. /\ u \in Seq(ValueLetters) /\ Len(u) = Len(t) + 1 /\ u[1] = a
      /\ \A i \in 1 .. Len(t) : u[i + 1] = t[i]
  <2>1. <<a>> \in Seq(ValueLetters) /\ Len(<<a>>) = 1 /\ <<a>>[1] = a
    BY <1>2
  <2>2. u \in Seq(ValueLetters) /\ Len(u) = 1 + Len(t)
    BY <1>1, <2>1, ConcatProperties
  <2>3. \A i \in 1 .. Len(u) : u[i] = IF i <= 1 THEN <<a>>[i] ELSE t[i - 1]
    BY <1>1, <2>1, <2>2, ConcatProperties
  <2>4. \A i \in 1 .. Len(t) : i + 1 \in 1 .. Len(u) /\ ~(i + 1 <= 1) /\ (i + 1) - 1 = i
    BY <1>1, <2>2
  <2>5. 1 \in 1 .. Len(u)
    BY <1>1, <2>2
  <2> HIDE DEF u
  <2> QED
    BY <1>1, <2>1, <2>2, <2>3, <2>4, <2>5
<1> HIDE DEF u
<1>4. \A i \in 1 .. Len(u) : i = 1 \/ (i - 1 \in 1 .. Len(t) /\ (i - 1) + 1 = i)
  BY <1>1, <1>3
<1>5. ASSUME NEW i \in 1 .. Len(u) PROVE u[i] \in Scalars \cup {"any"} <=> i = Len(u)
  <2>1. CASE i = 1
    BY <1>1, <1>2, <1>3, <2>1
  <2>2. CASE i # 1
    <3>1. i - 1 \in 1 .. Len(t) /\ u[i] = t[i - 1]
      BY <1>3, <1>4, <2>2
    <3>2. t[i - 1] \in Scalars \cup {"any"} <=> i - 1 = Len(t)
      BY <3>1 DEF Formed
    <3>3. i - 1 = Len(t) <=> i = Len(u)
      BY <1>1, <1>3
    <3> QED
      BY <3>1, <3>2, <3>3
  <2> QED
    BY <2>1, <2>2
<1>6. Formed(u)
  BY <1>1, <1>3, <1>5 DEF Formed
<1>7. Nested(u) = t
  <2> DEFINE w == Nested(u)
  <2>1. Len(u) > 1
    BY <1>1, <1>3
  <2>2. w \in Seq(ValueLetters) /\ Len(w) = Len(u) - 1 /\ \A i \in 1 .. Len(u) - 1 : w[i] = u[i + 1]
    BY <1>6, <2>1, NestedFormed, FormedBasics
  <2> HIDE DEF w
  <2>3. Len(w) = Len(t) /\ Len(u) - 1 = Len(t)
    BY <1>1, <1>3, <2>2
  <2>4. \A i \in 1 .. Len(w) : w[i] = t[i]
    BY <1>3, <2>2, <2>3
  <2>5. w = t
    BY <1>1, <2>2, <2>3, <2>4, SeqEqual
  <2> QED
    BY <2>5 DEF w
<1>8. Len(u) > 1
  BY <1>1, <1>3
<1> QED
  BY <1>3, <1>6, <1>7, <1>8 DEF u

LEMMA SuffixFormed ==
  ASSUME NEW t, Formed(t), NEW i \in 1 .. Len(t)
  PROVE  /\ Suffix(t, i)[1] = t[i]
         /\ Suffix(t, 1) = t
         /\ Len(t) > 1 /\ i < Len(t) => Suffix(Nested(t), i) = Suffix(t, i + 1)
<1>1. t \in Seq(ValueLetters) /\ Len(t) \in Nat /\ 1 \in 1 .. Len(t)
  BY FormedBasics
<1>2. Suffix(t, i)[1] = t[i]
  <2> DEFINE L == Len(t)
             s == Suffix(t, i)
  <2>1. \A j \in 1 .. L - i + 1 : s[j] = t[i + j - 1]
    BY <1>1, SuffixProperties
  <2> HIDE DEF L, s
  <2>2. L \in Nat /\ i \in 1 .. L
    BY <1>1 DEF L
  <2>3. 1 \in 1 .. L - i + 1 /\ i + 1 - 1 = i
    BY <2>2
  <2>4. s[1] = t[i + 1 - 1]
    BY <2>1, <2>3
  <2> QED
    BY <2>3, <2>4 DEF s
<1>3. Suffix(t, 1) = t
  BY <1>1, SubSeqFull DEF Suffix
<1>4. ASSUME Len(t) > 1, i < Len(t) PROVE Suffix(Nested(t), i) = Suffix(t, i + 1)
  <2> DEFINE u == Nested(t)
             L == Len(t)
             M == Len(u)
  <2>1. Formed(u) /\ M = L - 1 /\ \A j \in 1 .. L - 1 : u[j] = t[j + 1]
    BY <1>4, NestedFormed
  <2>2. u \in Seq(ValueLetters) /\ M \in Nat
    BY <2>1, FormedBasics
  <2> HIDE DEF u
  <2>3. L \in Nat /\ i \in 1 .. L /\ i < L /\ M = L - 1
    BY <1>1, <1>4, <2>1
  <2> DEFINE a == Suffix(u, i)
             b == Suffix(t, i + 1)
  <2>4. i \in 1 .. M /\ i + 1 \in 1 .. L
    <3> HIDE DEF L, M
    <3> QED
      BY <2>3
  <2>5. /\ a \in Seq(ValueLetters) /\ Len(a) = M - i + 1
        /\ \A j \in 1 .. M - i + 1 : a[j] = u[i + j - 1]
    BY <2>2, <2>4, SuffixProperties
  <2> DEFINE k == i + 1
  <2>6. k \in 1 .. L
    BY <2>4
  <2> HIDE DEF k
  <2>7. /\ Suffix(t, k) \in Seq(ValueLetters) /\ Len(Suffix(t, k)) = L - k + 1
        /\ \A j \in 1 .. L - k + 1 : Suffix(t, k)[j] = t[k + j - 1]
    BY <1>1, <2>6, SuffixProperties
  <2> DEFINE c == Suffix(t, k)
  <2> HIDE DEF L, M, a, c
  <2>8. M - i + 1 = L - k + 1 /\ \A j \in 1 .. M - i + 1 : i + j - 1 \in 1 .. L - 1 /\ (i + j - 1) + 1 = k + j - 1
    BY <2>3, <2>4 DEF k
  <2>9. \A j \in 1 .. M - i + 1 : a[j] = c[j]
    BY <2>1, <2>5, <2>7, <2>8 DEF c
  <2>10. a = c
    BY <2>5, <2>7, <2>8, <2>9, SeqEqual DEF c
  <2> QED
    BY <2>10 DEF a, c, k, u
<1> QED
  BY <1>2, <1>3, <1>4

-----------------------------------------------------------------------------
(* Translate.                                                                *)

Layers(f, t, cat) == f = [i \in DOMAIN t |-> Layer(SubSeq(t, i, Len(t)), cat, f[i + 1])]

LEMMA LayerOfScalar ==
  ASSUME NEW t, t[1] \notin Around, NEW cat
  PROVE  \A inner : Layer(t, cat, inner) = [ir |-> ScalarIR(t[1]), cat |-> cat, ok |-> TRUE]
BY DEF Layer, Around

\* What the layers of a type are, one by one.
LEMMA LayersAre ==
  ASSUME NEW t, Formed(t), NEW cat, NEW f
  PROVE  Layers(f, t, cat) <=>
           /\ f = [i \in 1 .. Len(t) |-> f[i]]
           /\ \A i \in 1 .. Len(t) : f[i] = Layer(Suffix(t, i), cat, f[i + 1])
<1>1. DOMAIN t = 1 .. Len(t)
  BY FormedBasics
<1>2. ASSUME Layers(f, t, cat)
      PROVE  /\ f = [i \in 1 .. Len(t) |-> f[i]]
             /\ \A i \in 1 .. Len(t) : f[i] = Layer(Suffix(t, i), cat, f[i + 1])
  <2>1. f = [i \in 1 .. Len(t) |-> Layer(Suffix(t, i), cat, f[i + 1])]
    BY <1>1, <1>2 DEF Layers, Suffix
  <2> QED
    BY <2>1
<1>3. ASSUME f = [i \in 1 .. Len(t) |-> f[i]],
             \A i \in 1 .. Len(t) : f[i] = Layer(Suffix(t, i), cat, f[i + 1])
      PROVE  Layers(f, t, cat)
  <2>1. f = [i \in 1 .. Len(t) |-> Layer(Suffix(t, i), cat, f[i + 1])]
    BY <1>3
  <2> QED
    BY <1>1, <2>1 DEF Layers, Suffix
<1> QED
  BY <1>2, <1>3

\* The layers of the nested type are those of the type but the first.
LEMMA LayersOfNested ==
  ASSUME NEW t, Formed(t), Len(t) > 1, NEW cat, NEW f, Layers(f, t, cat)
  PROVE  \E g : Layers(g, Nested(t), cat) /\ g[1] = f[2]
<1> DEFINE L == Len(t)
           u == Nested(t)
           g == [i \in 1 .. L - 1 |-> f[i + 1]]
<1>1. L \in Nat /\ L > 1
  BY FormedBasics
<1>2. Formed(u) /\ Len(u) = L - 1
  BY NestedFormed
<1>3. \A i \in 1 .. L : f[i] = Layer(Suffix(t, i), cat, f[i + 1])
  BY LayersAre
<1>4. \A i \in 1 .. L - 1 : Suffix(u, i) = Suffix(t, i + 1)
  <2> SUFFICES ASSUME NEW i \in 1 .. L - 1 PROVE Suffix(u, i) = Suffix(t, i + 1)
    OBVIOUS
  <2>1. i \in 1 .. Len(t) /\ i < Len(t)
    <3> HIDE DEF L
    <3>1. i \in 1 .. L /\ i < L
      BY <1>1
    <3> QED
      BY <3>1 DEF L
  <2> QED
    BY <2>1, SuffixFormed
<1> HIDE DEF L, u
<1>5. \A i \in 1 .. L - 1 : i + 1 \in 1 .. L /\ (i = L - 1 \/ i + 1 \in 1 .. L - 1)
  BY <1>1
<1>6. g = [i \in 1 .. L - 1 |-> g[i]] /\ \A i \in 1 .. L - 1 : g[i] = f[i + 1]
  OBVIOUS
<1> HIDE DEF g
<1>7. ASSUME NEW i \in 1 .. L - 1 PROVE g[i] = Layer(Suffix(u, i), cat, g[i + 1])
  <2> DEFINE j == i + 1
  <2>1. j \in 1 .. L /\ g[i] = f[j] /\ Suffix(u, i) = Suffix(t, j)
    BY <1>4, <1>5, <1>6
  <2>2. (i = L - 1 /\ j = L) \/ g[j] = f[j + 1]
    BY <1>1, <1>5, <1>6
  <2> HIDE DEF j
  <2>3. f[j] = Layer(Suffix(t, j), cat, f[j + 1])
    BY <1>3, <2>1
  <2>4. CASE j = L
    <3>1. Suffix(t, j)[1] = t[j]
      BY <2>1, SuffixFormed DEF L
    <3>2. t[j] \in Scalars \cup {"any"}
      BY <2>1, <2>4 DEF Formed, L
    <3>3. Suffix(t, j)[1] \notin Around
      BY <3>1, <3>2 DEF Around, Scalars
    <3>4. Layer(Suffix(t, j), cat, f[j + 1]) = Layer(Suffix(t, j), cat, g[j])
      BY <3>3, LayerOfScalar
    <3> QED
      BY <2>1, <2>3, <3>4 DEF j
  <2>5. CASE g[j] = f[j + 1]
    BY <2>1, <2>3, <2>5 DEF j
  <2> QED
    BY <2>2, <2>4, <2>5
<1>8. Layers(g, u, cat)
  BY <1>2, <1>6, <1>7, LayersAre
<1>9. g[1] = f[2]
  <2>1. 1 \in 1 .. L - 1 /\ 1 + 1 = 2
    BY <1>1
  <2> QED
    BY <1>6, <2>1
<1> QED
  BY <1>8, <1>9 DEF u

\* And a type has layers if its nested type has.
LEMMA LayersOfLonger ==
  ASSUME NEW t, Formed(t), Len(t) > 1, NEW cat, NEW g, Layers(g, Nested(t), cat)
  PROVE  \E f : Layers(f, t, cat)
<1> DEFINE L == Len(t)
           u == Nested(t)
           f == [i \in 1 .. L |-> IF i = 1 THEN Layer(t, cat, g[1]) ELSE g[i - 1]]
<1>1. L \in Nat /\ L > 1
  BY FormedBasics
<1>2. Formed(u) /\ Len(u) = L - 1
  BY NestedFormed
<1>3. \A i \in 1 .. L - 1 : g[i] = Layer(Suffix(u, i), cat, g[i + 1])
  BY <1>2, LayersAre
<1>4. \A i \in 1 .. L - 1 : Suffix(u, i) = Suffix(t, i + 1)
  <2> SUFFICES ASSUME NEW i \in 1 .. L - 1 PROVE Suffix(u, i) = Suffix(t, i + 1)
    OBVIOUS
  <2>1. i \in 1 .. Len(t) /\ i < Len(t)
    <3> HIDE DEF L
    <3>1. i \in 1 .. L /\ i < L
      BY <1>1
    <3> QED
      BY <3>1 DEF L
  <2> QED
    BY <2>1, SuffixFormed
<1>5. Suffix(t, 1) = t
  BY FormedBasics, SuffixFormed
<1> HIDE DEF L, u
<1>6. /\ f = [i \in 1 .. L |-> f[i]]
      /\ \A i \in 1 .. L : f[i] = IF i = 1 THEN Layer(t, cat, g[1]) ELSE g[i - 1]
  OBVIOUS
<1> HIDE DEF f
<1>7. \A i \in 1 .. L : i = 1 \/ (i # 1 /\ i - 1 \in 1 .. L - 1 /\ (i - 1) + 1 = i)
  BY <1>1
<1>8. \A i \in 1 .. L : i = L \/ (i + 1 \in 1 .. L /\ i + 1 # 1 /\ (i + 1) - 1 = i)
  BY <1>1
<1>9. 1 \in 1 .. L /\ L # 1
  BY <1>1
<1>10. ASSUME NEW i \in 1 .. L PROVE f[i] = Layer(Suffix(t, i), cat, f[i + 1])
  <2>1. CASE i = 1
    <3>1. f[i + 1] = g[1] /\ f[i] = Layer(t, cat, g[1])
      BY <1>6, <1>8, <1>9, <2>1
    <3> QED
      BY <1>5, <2>1, <3>1
  <2>2. CASE i # 1
    <3> DEFINE j == i - 1
    <3>1. j \in 1 .. L - 1 /\ j + 1 = i /\ f[i] = g[j]
      BY <1>6, <1>7, <2>2
    <3> HIDE DEF j
    <3>2. f[i] = Layer(Suffix(t, i), cat, g[i])
      BY <1>3, <1>4, <3>1
    <3>3. CASE i = L
      <4>1. Suffix(t, i)[1] = t[i] /\ t[i] \in Scalars \cup {"any"}
        BY <3>3, SuffixFormed DEF L, Formed
      <4>2. Suffix(t, i)[1] \notin Around
        BY <4>1 DEF Around, Scalars
      <4> QED
        BY <3>2, <4>2, LayerOfScalar
    <3>4. CASE i # L
      <4>1. f[i + 1] = g[i]
        BY <1>6, <1>8, <3>4
      <4> QED
        BY <3>2, <4>1
    <3> QED
      BY <3>3, <3>4
  <2> QED
    BY <2>1, <2>2
<1>11. Layers(f, t, cat)
  BY <1>6, <1>10, LayersAre DEF L
<1> QED
  BY <1>11

\* Types of length n have layers, and one first layer each.
HaveLayers(n, cat) ==
  \A t : Formed(t) /\ Len(t) = n =>
    /\ \E f : Layers(f, t, cat)
    /\ \A f, g : Layers(f, t, cat) /\ Layers(g, t, cat) => f[1] = g[1]

LEMMA ScalarLayers ==
  ASSUME NEW cat
  PROVE  HaveLayers(1, cat)
<1> SUFFICES ASSUME NEW t, Formed(t), Len(t) = 1
             PROVE  /\ \E f : Layers(f, t, cat)
                    /\ \A f, g : Layers(f, t, cat) /\ Layers(g, t, cat) => f[1] = g[1]
  BY DEF HaveLayers
<1>1. t[1] \notin Around
  BY FormedBasics DEF Around, Scalars
<1>2. Suffix(t, 1) = t /\ 1 \in 1 .. Len(t)
  BY FormedBasics, SuffixFormed
<1> DEFINE r == [ir |-> ScalarIR(t[1]), cat |-> cat, ok |-> TRUE]
<1>3. \A inner : Layer(t, cat, inner) = r
  BY <1>1, LayerOfScalar
<1> HIDE DEF r
<1>4. \E f : Layers(f, t, cat)
  <2> DEFINE f == [i \in 1 .. 1 |-> r]
  <2>1. f = [i \in 1 .. 1 |-> f[i]] /\ \A i \in 1 .. 1 : i = 1 /\ f[i] = r
    OBVIOUS
  <2> HIDE DEF f
  <2>2. Layers(f, t, cat)
    BY <1>2, <1>3, <2>1, LayersAre
  <2> QED
    BY <2>2
<1>5. \A f : Layers(f, t, cat) => f[1] = r
  BY <1>2, <1>3, LayersAre
<1> QED
  BY <1>4, <1>5

LEMMA LayersExist ==
  ASSUME NEW cat, NEW n \in Nat, n > 0
  PROVE  HaveLayers(n, cat)
<1> DEFINE fails == {k \in Nat : k > 0 /\ ~HaveLayers(k, cat)}
<1>1. 1 \notin fails
  BY ScalarLayers
<1>2. ASSUME fails # {} PROVE FALSE
  <2>1. PICK k \in fails : \A x \in fails : k <= x
    <3>1. fails \subseteq Nat
      OBVIOUS
    <3> HIDE DEF fails
    <3> QED
      BY <1>2, <3>1, LeastNumber
  <2> DEFINE j == k - 1
  <2>2. k \in Nat /\ k > 0 /\ k # 1
    BY <1>1
  <2>3. j \in Nat /\ j > 0 /\ ~(k <= j) /\ k > 1
    BY <2>2
  <2>4. HaveLayers(j, cat)
    BY <2>1, <2>3
  <2>5. ASSUME NEW t, Formed(t), Len(t) = k
        PROVE  /\ \E f : Layers(f, t, cat)
               /\ \A f, g : Layers(f, t, cat) /\ Layers(g, t, cat) => f[1] = g[1]
    <3>1. Len(t) > 1 /\ Formed(Nested(t)) /\ Len(Nested(t)) = j
      BY <2>3, <2>5, NestedFormed
    <3>2. \E g : Layers(g, Nested(t), cat)
      BY <2>4, <3>1 DEF HaveLayers
    <3>3. \E f : Layers(f, t, cat)
      BY <2>5, <3>1, <3>2, LayersOfLonger
    <3>4. ASSUME NEW f, NEW g, Layers(f, t, cat), Layers(g, t, cat) PROVE f[1] = g[1]
      <4>1. PICK x : Layers(x, Nested(t), cat) /\ x[1] = f[2]
        BY <2>5, <3>1, <3>4, LayersOfNested
      <4>2. PICK y : Layers(y, Nested(t), cat) /\ y[1] = g[2]
        BY <2>5, <3>1, <3>4, LayersOfNested
      <4>3. x[1] = y[1]
        BY <2>4, <3>1, <4>1, <4>2 DEF HaveLayers
      <4>4. f[1] = Layer(Suffix(t, 1), cat, f[1 + 1]) /\ g[1] = Layer(Suffix(t, 1), cat, g[1 + 1])
        BY <2>5, <3>4, LayersAre, FormedBasics
      <4>5. 1 + 1 = 2
        OBVIOUS
      <4> QED
        BY <4>1, <4>2, <4>3, <4>4, <4>5
    <3> QED
      BY <3>3, <3>4
  <2>6. HaveLayers(k, cat)
    BY <2>5 DEF HaveLayers
  <2> QED
    BY <2>2, <2>6
<1> QED
  BY <1>2

LEMMA TranslateLayers ==
  ASSUME NEW t, Formed(t), NEW cat
  PROVE  \E f : Layers(f, t, cat) /\ Translate(t, cat) = f[1]
<1> DEFINE f == CHOOSE g : g = [i \in DOMAIN t |-> Layer(SubSeq(t, i, Len(t)), cat, g[i + 1])]
<1>1. f = [i \in DOMAIN t |-> Layer(SubSeq(t, i, Len(t)), cat, f[i + 1])]
  <2>1. Len(t) \in Nat /\ Len(t) > 0
    BY FormedBasics
  <2>2. \E g : Layers(g, t, cat)
    BY <2>1, LayersExist DEF HaveLayers
  <2>3. \E g : g = [i \in DOMAIN t |-> Layer(SubSeq(t, i, Len(t)), cat, g[i + 1])]
    BY <2>2, Zenon DEF Layers
  <2> QED
    BY <2>3, Zenon
<1>2. Translate(t, cat) = f[1]
  BY Zenon DEF Translate
<1> HIDE DEF f
<1> QED
  BY <1>1, <1>2, Zenon DEF Layers

\* The LLVM type of a type from that of its nested type.
LEMMA TranslateStep ==
  ASSUME NEW t, Formed(t), NEW cat
  PROVE  /\ Len(t) > 1 => Translate(t, cat) = Layer(t, cat, Translate(Nested(t), cat))
         /\ Len(t) = 1 => Translate(t, cat) = [ir |-> ScalarIR(t[1]), cat |-> cat, ok |-> TRUE]
<1>1. PICK f : Layers(f, t, cat) /\ Translate(t, cat) = f[1]
  BY TranslateLayers
<1>2. f[1] = Layer(t, cat, f[2])
  <2>1. Suffix(t, 1) = t /\ 1 \in 1 .. Len(t)
    BY FormedBasics, SuffixFormed
  <2>2. f[1] = Layer(Suffix(t, 1), cat, f[1 + 1])
    BY <1>1, <2>1, LayersAre
  <2>3. 1 + 1 = 2
    OBVIOUS
  <2> QED
    BY <2>1, <2>2, <2>3
<1>3. ASSUME Len(t) > 1 PROVE Translate(t, cat) = Layer(t, cat, Translate(Nested(t), cat))
  <2>1. PICK g : Layers(g, Nested(t), cat) /\ g[1] = f[2]
    BY <1>1, <1>3, LayersOfNested
  <2>2. Formed(Nested(t)) /\ Len(Nested(t)) \in Nat /\ Len(Nested(t)) > 0
    BY <1>3, NestedFormed, FormedBasics
  <2>3. PICK h : Layers(h, Nested(t), cat) /\ Translate(Nested(t), cat) = h[1]
    BY <2>2, TranslateLayers
  <2>4. g[1] = h[1]
    BY <2>1, <2>2, <2>3, LayersExist DEF HaveLayers
  <2> QED
    BY <1>1, <1>2, <2>1, <2>3, <2>4
<1>4. ASSUME Len(t) = 1
      PROVE  Translate(t, cat) = [ir |-> ScalarIR(t[1]), cat |-> cat, ok |-> TRUE]
  <2>1. t[1] \notin Around
    BY <1>4, FormedBasics DEF Around, Scalars
  <2> QED
    BY <1>1, <1>2, <2>1, LayerOfScalar
<1> QED
  BY <1>3, <1>4

-----------------------------------------------------------------------------
(* Keys.                                                                     *)

KeyLetters == {"list", "arr", "int", "bool", "char"}

\* The last letter of a key.
Base(letter) ==
  CASE letter = "any" -> "int"
    [] letter \in {"array", "sized"} -> "arr"
    [] OTHER -> letter

\* n is the first letter that is no `list`.
Foot(t, n) == n \in 1 .. Len(t) /\ t[n] # "list" /\ \A i \in 1 .. n - 1 : t[i] = "list"

LEMMA FootExists ==
  ASSUME NEW t, Formed(t)
  PROVE  \E n : Foot(t, n)
<1> DEFINE T == {i \in 1 .. Len(t) : t[i] # "list"}
<1>1. Len(t) \in Nat /\ Len(t) \in 1 .. Len(t)
  BY FormedBasics
<1>2. t[Len(t)] # "list"
  <2>1. t[Len(t)] \in Scalars \cup {"any"}
    BY <1>1 DEF Formed
  <2> QED
    BY <2>1 DEF Scalars
<1>3. T \subseteq Nat /\ T # {}
  BY <1>1, <1>2
<1>4. PICK n \in T : \A k \in T : n <= k
  <2> HIDE DEF T
  <2> QED
    BY <1>3, LeastNumber
<1>5. ASSUME NEW i \in 1 .. n - 1 PROVE t[i] = "list"
  <2> DEFINE L == Len(t)
  <2>1. L \in Nat /\ n \in 1 .. L
    BY <1>1
  <2> HIDE DEF L
  <2>2. i \in 1 .. L /\ ~(n <= i)
    BY <2>1
  <2> QED
    BY <1>4, <2>2 DEF L
<1> QED
  BY <1>5 DEF Foot

LEMMA FootUnique ==
  ASSUME NEW t, NEW n, NEW m, Foot(t, n), Foot(t, m)
  PROVE  n = m
<1>1. n \in Nat /\ m \in Nat /\ n > 0 /\ m > 0
  BY DEF Foot
<1>2. n < m => n \in 1 .. m - 1
  BY <1>1
<1>3. m < n => m \in 1 .. n - 1
  BY <1>1
<1>4. n < m \/ m < n \/ n = m
  BY <1>1
<1> QED
  BY <1>2, <1>3, <1>4 DEF Foot

LEMMA KeyIs ==
  ASSUME NEW t, Formed(t), NEW n, Foot(t, n)
  PROVE  /\ HashKey(t) \in Seq(KeyLetters) /\ Len(HashKey(t)) = n
         /\ \A i \in 1 .. n - 1 : HashKey(t)[i] = "list"
         /\ HashKey(t)[n] = Base(t[n]) /\ HashKey(t)[n] # "list"
<1>1. DOMAIN t = 1 .. Len(t) /\ Len(t) \in Nat /\ \A i \in 1 .. Len(t) : t[i] \in ValueLetters
  BY FormedBasics
<1> DEFINE m == CHOOSE k \in DOMAIN t : t[k] # "list" /\ \A i \in 1 .. k - 1 : t[i] = "list"
<1>2. m = n
  <2>1. \E k \in DOMAIN t : t[k] # "list" /\ \A i \in 1 .. k - 1 : t[i] = "list"
    BY <1>1 DEF Foot
  <2>2. Foot(t, m)
    BY <1>1, <2>1 DEF Foot
  <2> HIDE DEF m
  <2> QED
    BY <2>2, FootUnique
<1> DEFINE b == CASE Kind(t[m]) = "any" -> "int"
                  [] Kind(t[m]) = "array" -> "arr"
                  [] OTHER -> t[m]
<1>3. HashKey(t) = Append(Prefix(t, m - 1), b)
  BY Zenon DEF HashKey
<1> HIDE DEF m
<1>4. n \in 1 .. Len(t) /\ t[n] \in ValueLetters \ {"list"} /\ \A i \in 1 .. n - 1 : t[i] = "list"
  BY <1>1 DEF Foot
<1>5. b = Base(t[n]) /\ b \in KeyLetters /\ b # "list"
  BY <1>2, <1>4 DEF Base, KeyLetters, ValueLetters, Scalars, Kind
<1> HIDE DEF b
<1> DEFINE p == Prefix(t, n - 1)
<1>6. p \in Seq(KeyLetters) /\ Len(p) = n - 1 /\ \A i \in 1 .. n - 1 : p[i] = "list"
  <2>1. n \in Nat /\ n > 0
    BY <1>4
  <2> DEFINE k == n - 1
  <2>2. 1 \in Int /\ k \in Int /\ k \in Nat /\ k = n - 1
    BY <2>1
  <2> HIDE DEF k
  <2>3. \A i \in 1 .. k : t[i] \in KeyLetters /\ t[i] = "list"
    BY <1>4, <2>2 DEF KeyLetters
  <2> DEFINE q == SubSeq(t, 1, k)
  <2>4. /\ q \in Seq(KeyLetters) /\ Len(q) = (IF 1 <= k THEN k - 1 + 1 ELSE 0)
        /\ \A i \in 1 .. k - 1 + 1 : q[i] = t[1 + i - 1]
    BY <2>2, <2>3, SubSeqProperties
  <2> HIDE DEF q
  <2>5. Len(q) = k /\ \A i \in 1 .. k : i \in 1 .. k - 1 + 1 /\ 1 + i - 1 = i
    BY <2>2, <2>4
  <2>6. \A i \in 1 .. k : q[i] = "list"
    BY <2>3, <2>4, <2>5
  <2> QED
    BY <2>2, <2>4, <2>5, <2>6 DEF q, Prefix, k
<1> HIDE DEF p
<1>7. HashKey(t) = Append(p, b)
  BY <1>2, <1>3 DEF p
<1>8. n \in Nat /\ n > 0
  BY <1>4
<1>9. /\ Append(p, b) \in Seq(KeyLetters) /\ Len(Append(p, b)) = n
      /\ \A i \in 1 .. n - 1 : Append(p, b)[i] = p[i]
      /\ Append(p, b)[n] = b
  BY <1>5, <1>6, <1>8, AppendProperties
<1> QED
  BY <1>5, <1>6, <1>7, <1>9

LEMMA KeyBasics ==
  ASSUME NEW t, Formed(t)
  PROVE  /\ HashKey(t) \in Seq(KeyLetters) /\ Len(HashKey(t)) \in Nat /\ Len(HashKey(t)) > 0
         /\ HashKey(t)[1] = "list" <=> t[1] = "list"
         /\ t[1] # "list" => HashKey(t) = <<Base(t[1])>>
<1>1. PICK n : Foot(t, n)
  BY FootExists
<1> DEFINE h == HashKey(t)
<1>2. /\ h \in Seq(KeyLetters) /\ Len(h) = n
      /\ \A i \in 1 .. n - 1 : h[i] = "list"
      /\ h[n] = Base(t[n]) /\ h[n] # "list"
  BY <1>1, KeyIs
<1>3. n \in Nat /\ n > 0
  BY <1>1 DEF Foot
<1> HIDE DEF h
<1>4. n # 1 => 1 \in 1 .. n - 1
  BY <1>3
<1>5. h[1] = "list" <=> t[1] = "list"
  BY <1>1, <1>2, <1>4 DEF Foot
<1>6. ASSUME t[1] # "list" PROVE h = <<Base(t[1])>>
  <2>1. n = 1
    BY <1>1, <1>4, <1>6 DEF Foot
  <2>2. Len(h) = 1 /\ h[1] = Base(t[1])
    BY <1>2, <2>1
  <2> QED
    BY <1>2, <2>2
<1> QED
  BY <1>2, <1>3, <1>5, <1>6 DEF h

\* "list_" in front of the key of what the list is of.
LEMMA KeyStep ==
  ASSUME NEW t, Formed(t), t[1] = "list"
  PROVE  /\ Len(t) > 1 /\ Len(HashKey(t)) > 1 /\ Len(HashKey(t)) = Len(HashKey(Nested(t))) + 1
         /\ Tail(HashKey(t)) = HashKey(Nested(t)) /\ HashKey(t)[2] = HashKey(Nested(t))[1]
<1> DEFINE u == Nested(t)
           h == HashKey(t)
           k == HashKey(u)
<1>1. Len(t) > 1
  BY Longer DEF Around
<1>2. Formed(u) /\ Len(u) = Len(t) - 1 /\ \A i \in 1 .. Len(t) - 1 : u[i] = t[i + 1]
  BY <1>1, NestedFormed
<1>3. Len(t) \in Nat
  BY FormedBasics
<1> HIDE DEF u
<1>4. PICK m : Foot(u, m)
  BY <1>2, FootExists
<1> DEFINE n == m + 1
<1>5. m \in Nat /\ m > 0 /\ m \in 1 .. Len(t) - 1 /\ u[m] # "list" /\ \A i \in 1 .. m - 1 : u[i] = "list"
  BY <1>2, <1>3, <1>4 DEF Foot
<1>6. Foot(t, n)
  <2>1. n \in 1 .. Len(t) /\ t[n] # "list"
    <3>1. t[n] = u[m]
      BY <1>2, <1>5
    <3>2. n \in 1 .. Len(t)
      <4> DEFINE L == Len(t)
      <4>1. L \in Nat /\ m \in 1 .. L - 1
        BY <1>3, <1>5
      <4> HIDE DEF L
      <4>2. n \in 1 .. L
        BY <4>1
      <4> QED
        BY <4>2 DEF L
    <3> QED
      BY <1>5, <3>1, <3>2
  <2>2. ASSUME NEW i \in 1 .. n - 1 PROVE t[i] = "list"
    <3>1. CASE i # 1
      <4> DEFINE j == i - 1
                 L == Len(t)
      <4>1. m \in Nat /\ L \in Nat /\ m \in 1 .. L - 1 /\ i \in 1 .. n - 1 /\ n = m + 1
        BY <1>3, <1>5
      <4> HIDE DEF L, n
      <4>2. j \in 1 .. m - 1 /\ j \in 1 .. L - 1 /\ j + 1 = i
        BY <3>1, <4>1
      <4> HIDE DEF j
      <4> QED
        BY <1>2, <1>5, <4>2 DEF L
    <3> QED
      BY <3>1
  <2> QED
    BY <2>1, <2>2 DEF Foot
<1>7. n \in Nat /\ n > 1 /\ n - 1 = m
  BY <1>5
<1> HIDE DEF n
<1>8. /\ h \in Seq(KeyLetters) /\ Len(h) = n /\ \A i \in 1 .. n - 1 : h[i] = "list"
      /\ h[n] = Base(t[n])
  BY <1>6, KeyIs
<1>9. /\ k \in Seq(KeyLetters) /\ Len(k) = m /\ \A i \in 1 .. m - 1 : k[i] = "list"
      /\ k[m] = Base(u[m])
  BY <1>2, <1>4, KeyIs
<1>10. t[n] = u[m]
  BY <1>2, <1>5 DEF n
<1> HIDE DEF h, k
<1>11. \A i \in 1 .. m : h[i + 1] = k[i]
  <2> SUFFICES ASSUME NEW i \in 1 .. m PROVE h[i + 1] = k[i]
    OBVIOUS
  <2>1. CASE i = m
    <3>1. i + 1 = n
      BY <1>7, <2>1
    <3> QED
      BY <1>8, <1>9, <1>10, <2>1, <3>1
  <2>2. CASE i # m
    <3>1. i \in 1 .. m - 1 /\ i + 1 \in 1 .. n - 1
      BY <1>5, <1>7, <2>2
    <3> QED
      BY <1>8, <1>9, <3>1
  <2> QED
    BY <2>1, <2>2
<1>12. h # <<>>
  <2>1. Len(<<>>) = 0
    OBVIOUS
  <2> QED
    BY <1>7, <1>8, <2>1
<1> DEFINE w == Tail(h)
<1>13. w \in Seq(KeyLetters) /\ Len(w) = Len(h) - 1 /\ \A i \in 1 .. Len(w) : w[i] = h[i + 1]
  BY <1>8, <1>12, HeadTailProperties
<1> HIDE DEF w
<1>14. Len(w) = m
  BY <1>7, <1>8, <1>13
<1>15. w = k
  BY <1>9, <1>11, <1>13, <1>14, SeqEqual
<1>16. h[2] = k[1]
  <2>1. 1 \in 1 .. m /\ 1 + 1 = 2
    BY <1>5
  <2> QED
    BY <1>11, <2>1
<1> QED
  BY <1>1, <1>7, <1>8, <1>9, <1>15, <1>16 DEF h, k, w, u

-----------------------------------------------------------------------------
(* What Translate does to the catalog.                                       *)

IsSeq(s) == \E S : s \in Seq(S)

LEMMA SeqBasics ==
  ASSUME NEW s, IsSeq(s)
  PROVE  /\ Len(s) \in Nat /\ DOMAIN s = 1 .. Len(s) /\ (s # <<>> <=> Len(s) > 0)
         /\ \A e : /\ IsSeq(Append(s, e)) /\ Len(Append(s, e)) = Len(s) + 1
                   /\ \A i \in 1 .. Len(s) : Append(s, e)[i] = s[i]
                   /\ Append(s, e)[Len(s) + 1] = e
<1>1. PICK S : s \in Seq(S)
  BY DEF IsSeq
<1>2. Len(s) \in Nat /\ DOMAIN s = 1 .. Len(s) /\ (s # <<>> <=> Len(s) > 0)
  BY <1>1, LenProperties, EmptySeq
<1>3. ASSUME NEW e
      PROVE  /\ IsSeq(Append(s, e)) /\ Len(Append(s, e)) = Len(s) + 1
             /\ \A i \in 1 .. Len(s) : Append(s, e)[i] = s[i]
             /\ Append(s, e)[Len(s) + 1] = e
  <2> DEFINE T == S \cup {e}
  <2>1. s \in Seq(T) /\ e \in T
    BY <1>1
  <2> HIDE DEF T
  <2>2. /\ Append(s, e) \in Seq(T) /\ Len(Append(s, e)) = Len(s) + 1
        /\ \A i \in 1 .. Len(s) : Append(s, e)[i] = s[i]
        /\ Append(s, e)[Len(s) + 1] = e
    BY <2>1, AppendProperties
  <2> QED
    BY <2>2 DEF IsSeq
<1> QED
  BY <1>2, <1>3

LEMMA FrontOfSeq ==
  ASSUME NEW s, IsSeq(s), NEW a
  PROVE  /\ IsSeq(<<a>> \o s) /\ <<a>> \o s # <<>>
         /\ Tail(<<a>> \o s) = s /\ (<<a>> \o s)[1] = a
<1>1. PICK S : s \in Seq(S)
  BY DEF IsSeq
<1> DEFINE T == S \cup {a}
           u == <<a>> \o s
<1>2. s \in Seq(T) /\ <<a>> \in Seq(T) /\ Len(<<a>>) = 1 /\ <<a>>[1] = a
  BY <1>1
<1> HIDE DEF T
<1>3. Len(s) \in Nat
  BY <1>2, LenProperties
<1>4. /\ u \in Seq(T) /\ Len(u) = 1 + Len(s)
      /\ \A i \in 1 .. 1 + Len(s) : u[i] = IF i <= 1 THEN <<a>>[i] ELSE s[i - 1]
  BY <1>2, ConcatProperties
<1> HIDE DEF u
<1>5. u # <<>>
  <2>1. Len(<<>>) = 0
    OBVIOUS
  <2> QED
    BY <1>3, <1>4, <2>1
<1> DEFINE w == Tail(u)
<1>6. w \in Seq(T) /\ Len(w) = Len(u) - 1 /\ \A i \in 1 .. Len(w) : w[i] = u[i + 1]
  BY <1>4, <1>5, HeadTailProperties
<1> HIDE DEF w
<1>7. Len(w) = Len(s)
  BY <1>3, <1>4, <1>6
<1>8. \A i \in 1 .. Len(w) : i + 1 \in 1 .. 1 + Len(s) /\ ~(i + 1 <= 1) /\ (i + 1) - 1 = i
  BY <1>3, <1>7
<1>9. \A i \in 1 .. Len(w) : w[i] = s[i]
  BY <1>4, <1>6, <1>8
<1>10. w = s
  BY <1>2, <1>6, <1>7, <1>9, SeqEqual
<1>11. u[1] = a
  <2>1. 1 \in 1 .. 1 + Len(s) /\ 1 <= 1
    BY <1>3
  <2> QED
    BY <1>2, <1>4, <2>1
<1> QED
  BY <1>4, <1>5, <1>10, <1>11 DEF IsSeq, u, w

LEMMA NodeIsSeq ==
  ASSUME NEW k
  PROVE  IsSeq(<<"node", k>>) /\ <<"node", k>> # <<>> /\ <<"node", k>>[1] = "node" /\ <<"node", k>>[2] = k
<1> DEFINE S == {"node", k}
<1>1. <<"node", k>> \in Seq(S)
  OBVIOUS
<1> HIDE DEF S
<1>2. <<"node", k>> # <<>> /\ <<"node", k>>[1] = "node" /\ <<"node", k>>[2] = k
  OBVIOUS
<1> QED
  BY <1>1, <1>2 DEF IsSeq

LEMMA ScalarIRIsSeq ==
  ASSUME NEW l \in Scalars \cup {"any"}
  PROVE  IsSeq(ScalarIR(l)) /\ ScalarIR(l) # <<>> /\ ScalarIR(l) = ScalarIR(Base(l))
<1> DEFINE S == {"i32", "i1", "i8"}
<1>1. ScalarIR(l) \in Seq(S) /\ ScalarIR(l) # <<>>
  <2>1. \/ ScalarIR(l) = <<"i32">>
        \/ ScalarIR(l) = <<"i1">>
        \/ ScalarIR(l) = <<"i8">>
    BY DEF ScalarIR, Scalars
  <2>2. /\ <<"i32">> \in Seq(S) /\ <<"i1">> \in Seq(S) /\ <<"i8">> \in Seq(S)
        /\ <<"i32">> # <<>> /\ <<"i1">> # <<>> /\ <<"i8">> # <<>>
    OBVIOUS
  <2> QED
    BY <2>1, <2>2
<1>2. ScalarIR(l) = ScalarIR(Base(l))
  BY DEF ScalarIR, Scalars, Base
<1> HIDE DEF S
<1> QED
  BY <1>1, <1>2 DEF IsSeq

Extends(c, d) == Len(c) <= Len(d) /\ \A i \in 1 .. Len(c) : d[i] = c[i]

\* d has, beyond what c has, only keys of lists in t.
NewKeys(t, c, d) ==
  \A k \in 1 .. Len(d) :
    k \in 1 .. Len(c) \/ \E j \in 1 .. Len(t) : t[j] = "list" /\ d[k].key = HashKey(Suffix(t, j))

\* made is a translation of t that starts with c.
Grown(made, t, c) ==
  /\ made = [ir |-> made.ir, cat |-> made.cat, ok |-> made.ok] /\ made.ok \in BOOLEAN
  /\ IsSeq(made.ir) /\ made.ir # <<>>
  /\ IsSeq(made.cat) /\ Extends(c, made.cat) /\ NewKeys(t, c, made.cat)
  /\ made.ok \/ KeyTwice(t)

\* The cases of Layer.
ByCase(t, key, cat, made, inner) ==
  \/ t[1] = "array" /\ made = [inner EXCEPT !.ir = <<"ptr">> \o @]
  \/ t[1] = "sized" /\ made = [inner EXCEPT !.ir = <<"block">> \o @]
  \/ /\ t[1] = "list" /\ Lookup(cat, key) # {}
     /\ made = [ir |-> <<"node", CHOOSE k \in Lookup(cat, key) : TRUE>>, cat |-> cat, ok |-> TRUE]
  \/ /\ t[1] = "list" /\ Lookup(cat, key) = {}
     /\ made = [ir |-> <<"node", Len(inner.cat) + 1>>,
                cat |-> Append(inner.cat, [key |-> key, elem |-> inner.ir]),
                ok |-> inner.ok /\ Lookup(inner.cat, key) = {}]

LEMMA TranslateCases ==
  ASSUME NEW t, Formed(t), Len(t) > 1, NEW cat
  PROVE  ByCase(t, HashKey(t), cat, Translate(t, cat), Translate(Nested(t), cat))
<1> DEFINE made  == Translate(t, cat)
           inner == Translate(Nested(t), cat)
<1>1. made = Layer(t, cat, inner)
  BY TranslateStep
<1>2. t[1] \in Around
  BY Longer
<1> HIDE DEF made, inner
<1>3. ASSUME t[1] = "array" PROVE ByCase(t, HashKey(t), cat, made, inner)
  BY <1>1, <1>3 DEF Layer, ByCase
<1>4. ASSUME t[1] = "sized" PROVE ByCase(t, HashKey(t), cat, made, inner)
  BY <1>1, <1>4 DEF Layer, ByCase
<1>5. ASSUME t[1] = "list" PROVE ByCase(t, HashKey(t), cat, made, inner)
  BY <1>1, <1>5 DEF Layer, ByCase
<1>6. ByCase(t, HashKey(t), cat, made, inner)
  BY <1>2, <1>3, <1>4, <1>5 DEF Around
<1> QED
  BY <1>6 DEF made, inner

\* The keys of the nested type are keys of the type.
LEMMA KeysOfNested ==
  ASSUME NEW t, Formed(t), Len(t) > 1
  PROVE  /\ \A j \in 1 .. Len(Nested(t)) :
              /\ j + 1 \in 1 .. Len(t) /\ t[j + 1] = Nested(t)[j]
              /\ Suffix(t, j + 1) = Suffix(Nested(t), j)
         /\ KeyTwice(Nested(t)) => KeyTwice(t)
<1> DEFINE u == Nested(t)
           L == Len(t)
           M == Len(u)
<1>1. Formed(u) /\ M = L - 1 /\ \A j \in 1 .. L - 1 : u[j] = t[j + 1]
  BY NestedFormed
<1>2. L \in Nat /\ M \in Nat /\ DOMAIN t = 1 .. L /\ DOMAIN u = 1 .. M
  BY <1>1, FormedBasics
<1> HIDE DEF u
<1>3. ASSUME NEW j \in 1 .. M
      PROVE  j + 1 \in 1 .. L /\ t[j + 1] = u[j] /\ Suffix(t, j + 1) = Suffix(u, j)
  <2>1. j + 1 \in 1 .. L /\ j \in 1 .. L /\ j < L /\ j \in 1 .. L - 1 /\ L > 1
    <3> HIDE DEF L, M
    <3> QED
      BY <1>1, <1>2
  <2>2. Suffix(Nested(t), j) = Suffix(t, j + 1)
    BY <2>1, SuffixFormed
  <2> QED
    BY <1>1, <2>1, <2>2 DEF u
<1>4. ASSUME KeyTwice(u) PROVE KeyTwice(t)
  <2>1. PICK i \in 1 .. M, j \in 1 .. M :
          /\ i < j /\ u[i] = "list" /\ u[j] = "list"
          /\ HashKey(Suffix(u, i)) = HashKey(Suffix(u, j))
    BY <1>2, <1>4 DEF KeyTwice, Suffix
  <2>2. i + 1 < j + 1
    BY <2>1
  <2> DEFINE a == i + 1
             b == j + 1
  <2>3. a \in DOMAIN t /\ b \in DOMAIN t /\ t[a] = "list" /\ t[b] = "list"
        /\ HashKey(Suffix(t, a)) = HashKey(Suffix(t, b)) /\ a < b
    BY <1>2, <1>3, <2>1, <2>2
  <2> HIDE DEF a, b
  <2> QED
    BY <2>3 DEF KeyTwice, Suffix
<1> QED
  BY <1>3, <1>4 DEF u

LEMMA NewKeysOfNested ==
  ASSUME NEW t, Formed(t), Len(t) > 1, NEW c, NEW d, NewKeys(Nested(t), c, d)
  PROVE  NewKeys(t, c, d)
<1> SUFFICES ASSUME NEW k \in 1 .. Len(d), k \notin 1 .. Len(c)
             PROVE  \E j \in 1 .. Len(t) : t[j] = "list" /\ d[k].key = HashKey(Suffix(t, j))
  BY DEF NewKeys
<1>1. PICK j \in 1 .. Len(Nested(t)) : Nested(t)[j] = "list" /\ d[k].key = HashKey(Suffix(Nested(t), j))
  BY DEF NewKeys
<1>2. /\ j + 1 \in 1 .. Len(t) /\ t[j + 1] = Nested(t)[j]
      /\ Suffix(t, j + 1) = Suffix(Nested(t), j)
  BY KeysOfNested
<1> QED
  BY <1>1, <1>2

LEMMA LookupIs ==
  ASSUME NEW c, IsSeq(c), NEW key, NEW k
  PROVE  k \in Lookup(c, key) <=> k \in 1 .. Len(c) /\ c[k].key = key
<1>1. DOMAIN c = 1 .. Len(c)
  BY SeqBasics
<1> QED
  BY <1>1 DEF Lookup

LEMMA GrownStep ==
  ASSUME NEW t, Formed(t), Len(t) > 1, NEW cat, IsSeq(cat),
         Grown(Translate(Nested(t), cat), Nested(t), cat)
  PROVE  Grown(Translate(t, cat), t, cat)
<1> DEFINE made  == Translate(t, cat)
           inner == Translate(Nested(t), cat)
           key   == HashKey(t)
           entry == [key |-> key, elem |-> inner.ir]
<1>0. ByCase(t, key, cat, made, inner)
  BY TranslateCases
<1> HIDE DEF made, inner, key
<1>1. \/ t[1] = "array" /\ made = [inner EXCEPT !.ir = <<"ptr">> \o @]
      \/ t[1] = "sized" /\ made = [inner EXCEPT !.ir = <<"block">> \o @]
      \/ /\ t[1] = "list" /\ Lookup(cat, key) # {}
         /\ made = [ir |-> <<"node", CHOOSE k \in Lookup(cat, key) : TRUE>>, cat |-> cat, ok |-> TRUE]
      \/ /\ t[1] = "list" /\ Lookup(cat, key) = {}
         /\ made = [ir |-> <<"node", Len(inner.cat) + 1>>,
                    cat |-> Append(inner.cat, entry),
                    ok |-> inner.ok /\ Lookup(inner.cat, key) = {}]
  BY <1>0 DEF ByCase
<1>2. Grown(inner, Nested(t), cat)
  BY DEF inner
<1>3. NewKeys(t, cat, inner.cat) /\ (inner.ok \/ KeyTwice(t))
  BY <1>2, NewKeysOfNested, KeysOfNested DEF Grown
<1>4. ASSUME NEW a, made = [inner EXCEPT !.ir = <<a>> \o @] PROVE Grown(made, t, cat)
  <2> DEFINE ir == <<a>> \o inner.ir
  <2>1. IsSeq(ir) /\ ir # <<>>
    BY <1>2, FrontOfSeq DEF Grown
  <2> HIDE DEF ir
  <2>2. made = [ir |-> ir, cat |-> inner.cat, ok |-> inner.ok]
    <3>1. inner = [ir |-> inner.ir, cat |-> inner.cat, ok |-> inner.ok]
      BY <1>2 DEF Grown
    <3>2. made = [inner EXCEPT !.ir = ir]
      BY <1>4 DEF ir
    <3> QED
      BY <3>1, <3>2
  <2> QED
    BY <1>2, <1>3, <2>1, <2>2 DEF Grown
<1>5. ASSUME NEW k, made = [ir |-> <<"node", k>>, cat |-> cat, ok |-> TRUE] PROVE Grown(made, t, cat)
  <2> DEFINE ir == <<"node", k>>
  <2>1. IsSeq(ir) /\ ir # <<>>
    BY NodeIsSeq
  <2>2. made = [ir |-> ir, cat |-> cat, ok |-> TRUE]
    BY <1>5
  <2> HIDE DEF ir
  <2>3. Extends(cat, cat) /\ NewKeys(t, cat, cat)
    BY SeqBasics DEF Extends, NewKeys
  <2> QED
    BY <2>1, <2>2, <2>3 DEF Grown
<1>6. ASSUME t[1] = "list", Lookup(cat, key) = {},
             made = [ir |-> <<"node", Len(inner.cat) + 1>>,
                     cat |-> Append(inner.cat, entry),
                     ok |-> inner.ok /\ Lookup(inner.cat, key) = {}]
      PROVE  Grown(made, t, cat)
  <2> DEFINE ir == <<"node", Len(inner.cat) + 1>>
             c  == inner.cat
             d  == Append(c, entry)
             ok == inner.ok /\ Lookup(c, key) = {}
  <2>1. IsSeq(ir) /\ ir # <<>>
    BY NodeIsSeq
  <2>2. made = [ir |-> ir, cat |-> d, ok |-> ok]
    BY <1>6
  <2>3. IsSeq(c) /\ Extends(cat, c) /\ NewKeys(t, cat, c)
    BY <1>2, <1>3 DEF Grown
  <2> HIDE DEF ir, entry, c
  <2>4. /\ IsSeq(d) /\ Len(d) = Len(c) + 1 /\ (\A i \in 1 .. Len(c) : d[i] = c[i])
        /\ d[Len(c) + 1] = entry /\ Len(c) \in Nat /\ Len(cat) \in Nat
    BY <2>3, SeqBasics
  <2> HIDE DEF d
  <2>5. Extends(cat, d)
    <3>1. Len(cat) <= Len(d) /\ \A i \in 1 .. Len(cat) : i \in 1 .. Len(c)
      BY <2>3, <2>4 DEF Extends
    <3> QED
      BY <2>3, <2>4, <3>1 DEF Extends
  <2>6. NewKeys(t, cat, d)
    <3> SUFFICES ASSUME NEW k \in 1 .. Len(d), k \notin 1 .. Len(cat)
                 PROVE  \E j \in 1 .. Len(t) : t[j] = "list" /\ d[k].key = HashKey(Suffix(t, j))
      BY DEF NewKeys
    <3>1. k \in 1 .. Len(c) \/ k = Len(c) + 1
      BY <2>4
    <3>2. CASE k \in 1 .. Len(c)
      BY <2>3, <2>4, <3>2 DEF NewKeys
    <3>3. CASE k = Len(c) + 1
      <4>1. d[k].key = HashKey(t)
        BY <2>4, <3>3 DEF entry, key
      <4>2. 1 \in 1 .. Len(t) /\ Suffix(t, 1) = t
        BY FormedBasics, SuffixFormed
      <4> QED
        BY <1>6, <4>1, <4>2
    <3> QED
      BY <3>1, <3>2, <3>3
  <2>7. ok \/ KeyTwice(t)
    <3> SUFFICES ASSUME inner.ok, Lookup(c, key) # {} PROVE KeyTwice(t)
      BY <1>3
    <3>1. PICK k : k \in Lookup(c, key)
      OBVIOUS
    <3>2. k \in 1 .. Len(c) /\ c[k].key = key
      BY <2>3, <3>1, LookupIs
    <3>3. k \notin 1 .. Len(cat)
      <4> SUFFICES ASSUME k \in 1 .. Len(cat) PROVE FALSE
        OBVIOUS
      <4>1. cat[k].key = key
        BY <2>3, <3>2 DEF Extends
      <4>2. k \in Lookup(cat, key)
        BY <4>1, LookupIs
      <4> QED
        BY <1>6, <4>2
    <3>4. NewKeys(Nested(t), cat, c)
      BY <1>2 DEF Grown, c
    <3>5. PICK j \in 1 .. Len(Nested(t)) : Nested(t)[j] = "list" /\ c[k].key = HashKey(Suffix(Nested(t), j))
      BY <3>2, <3>3, <3>4 DEF NewKeys
    <3> DEFINE m == j + 1
    <3>6. m \in 1 .. Len(t) /\ t[m] = "list" /\ Suffix(t, m) = Suffix(Nested(t), j)
      BY <3>5, KeysOfNested
    <3>7. 1 < m
      OBVIOUS
    <3> HIDE DEF m
    <3>8. 1 \in DOMAIN t /\ m \in DOMAIN t /\ Suffix(t, 1) = t
      BY <3>6, FormedBasics, SuffixFormed
    <3>9. HashKey(Suffix(t, 1)) = HashKey(Suffix(t, m))
      BY <3>2, <3>5, <3>6, <3>8 DEF key
    <3> QED
      BY <1>6, <3>6, <3>7, <3>8, <3>9 DEF KeyTwice, Suffix
  <2>8. ok \in BOOLEAN
    BY <1>2 DEF Grown
  <2> HIDE DEF ok
  <2> QED
    BY <2>1, <2>2, <2>4, <2>5, <2>6, <2>7, <2>8 DEF Grown
<1>7. Grown(made, t, cat)
  BY <1>1, <1>4, <1>5, <1>6
<1> QED
  BY <1>7 DEF made

LEMMA GrownScalar ==
  ASSUME NEW t, Formed(t), Len(t) = 1, NEW cat, IsSeq(cat)
  PROVE  Grown(Translate(t, cat), t, cat)
<1> DEFINE made == Translate(t, cat)
           ir   == ScalarIR(t[1])
<1>1. made = [ir |-> ir, cat |-> cat, ok |-> TRUE]
  BY TranslateStep
<1>2. IsSeq(ir) /\ ir # <<>>
  BY FormedBasics, ScalarIRIsSeq
<1> HIDE DEF made, ir
<1>3. Extends(cat, cat) /\ NewKeys(t, cat, cat)
  BY SeqBasics DEF Extends, NewKeys
<1>4. Grown(made, t, cat)
  BY <1>1, <1>2, <1>3 DEF Grown
<1> QED
  BY <1>4 DEF made

GrownAt(n, cat) == \A t : Formed(t) /\ Len(t) = n => Grown(Translate(t, cat), t, cat)

LEMMA TranslateGrows ==
  ASSUME NEW cat, IsSeq(cat), NEW t, Formed(t)
  PROVE  Grown(Translate(t, cat), t, cat)
<1> DEFINE fails == {k \in Nat : k > 0 /\ ~GrownAt(k, cat)}
<1>1. 1 \notin fails
  BY GrownScalar DEF GrownAt
<1>2. ASSUME fails # {} PROVE FALSE
  <2>1. PICK k \in fails : \A x \in fails : k <= x
    <3>1. fails \subseteq Nat
      OBVIOUS
    <3> HIDE DEF fails
    <3> QED
      BY <1>2, <3>1, LeastNumber
  <2> DEFINE j == k - 1
  <2>2. k \in Nat /\ k > 0 /\ k # 1
    BY <1>1
  <2>3. j \in Nat /\ j > 0 /\ ~(k <= j) /\ k > 1
    BY <2>2
  <2>4. GrownAt(j, cat)
    BY <2>1, <2>3
  <2>5. ASSUME NEW u, Formed(u), Len(u) = k PROVE Grown(Translate(u, cat), u, cat)
    <3>1. Len(u) > 1 /\ Formed(Nested(u)) /\ Len(Nested(u)) = j
      BY <2>3, <2>5, NestedFormed
    <3>2. Grown(Translate(Nested(u), cat), Nested(u), cat)
      BY <2>4, <3>1 DEF GrownAt
    <3> QED
      BY <2>5, <3>1, <3>2, GrownStep
  <2> QED
    BY <2>2, <2>5 DEF GrownAt
<1>3. Len(t) \in Nat /\ Len(t) > 0
  BY FormedBasics
<1> QED
  BY <1>2, <1>3 DEF GrownAt

-----------------------------------------------------------------------------
(* Types that have their LLVM type already.                                  *)

\* The LLVM type of t is ir, and the catalog has every struct it needs.
Settled(t, ir, cat) == Translate(t, cat) = [ir |-> ir, cat |-> cat, ok |-> TRUE]

\* The k-th struct is of what its key says: a list of a list holds the struct of
\* that list, a list of a scalar the scalar.
StructFits(cat, k) ==
  /\ cat[k].elem # <<>>
  /\ cat[k].key[2] = "list" =>
       \E j \in 1 .. Len(cat) : cat[j].key = Tail(cat[k].key) /\ cat[k].elem = <<"node", j>>
  /\ cat[k].key[2] \in Scalars => cat[k].elem = ScalarIR(cat[k].key[2])

OneKeyEach(cat) == \A i, j \in 1 .. Len(cat) : cat[i].key = cat[j].key => i = j

CatalogFits(cat) ==
  /\ IsSeq(cat)
  /\ OneKeyEach(cat)
  /\ \A k \in 1 .. Len(cat) : StructFits(cat, k)

LEMMA SettledScalar ==
  ASSUME NEW t, Formed(t), Len(t) = 1, NEW cat
  PROVE  Settled(t, ScalarIR(t[1]), cat)
BY TranslateStep DEF Settled

LEMMA SettledHas ==
  ASSUME NEW t, Formed(t), NEW cat, IsSeq(cat), NEW ir, Settled(t, ir, cat)
  PROVE  IsSeq(ir) /\ ir # <<>>
<1> DEFINE made == Translate(t, cat)
<1>1. made = [ir |-> ir, cat |-> cat, ok |-> TRUE]
  BY DEF Settled
<1>2. Grown(made, t, cat)
  BY TranslateGrows
<1> HIDE DEF made
<1>3. made.ir = ir
  BY <1>1
<1> QED
  BY <1>2, <1>3 DEF Grown

\* A list whose key is known.
LEMMA KnownSettled ==
  ASSUME NEW t, Formed(t), t[1] = "list", NEW cat, IsSeq(cat), OneKeyEach(cat),
         NEW k \in 1 .. Len(cat), cat[k].key = HashKey(t)
  PROVE  Settled(t, <<"node", k>>, cat)
<1> DEFINE made  == Translate(t, cat)
           inner == Translate(Nested(t), cat)
           key   == HashKey(t)
           known == Lookup(cat, key)
<1>1. Len(t) > 1
  BY KeyStep
<1>2. ByCase(t, key, cat, made, inner)
  BY <1>1, TranslateCases
<1>3. k \in known
  BY LookupIs
<1>4. \A j \in known : j = k
  BY LookupIs DEF OneKeyEach
<1> HIDE DEF made, inner, key, known
<1>5. (CHOOSE j \in known : TRUE) = k
  BY <1>3, <1>4
<1>6. made = [ir |-> <<"node", CHOOSE j \in known : TRUE>>, cat |-> cat, ok |-> TRUE]
  BY <1>2, <1>3 DEF ByCase, known
<1> QED
  BY <1>5, <1>6 DEF Settled, made

\* And the other way round: a list that adds nothing is known.
LEMMA SettledKnown ==
  ASSUME NEW t, Formed(t), t[1] = "list", NEW cat, IsSeq(cat), NEW ir, Settled(t, ir, cat)
  PROVE  \E k \in 1 .. Len(cat) : cat[k].key = HashKey(t) /\ ir = <<"node", k>>
<1> DEFINE made  == Translate(t, cat)
           inner == Translate(Nested(t), cat)
           key   == HashKey(t)
           known == Lookup(cat, key)
           k     == CHOOSE j \in known : TRUE
<1>1. Len(t) > 1
  BY KeyStep
<1>2. ByCase(t, key, cat, made, inner)
  BY <1>1, TranslateCases
<1>3. made = [ir |-> ir, cat |-> cat, ok |-> TRUE]
  BY DEF Settled
<1>4. Grown(inner, Nested(t), cat)
  BY <1>1, NestedFormed, TranslateGrows
<1> HIDE DEF made, inner, key
<1>5. CASE known # {}
  <2>1. k \in known
    BY <1>5
  <2>2. k \in 1 .. Len(cat) /\ cat[k].key = key
    BY <2>1, LookupIs
  <2>3. made = [ir |-> <<"node", k>>, cat |-> cat, ok |-> TRUE]
    BY <1>2, <1>5 DEF ByCase
  <2> HIDE DEF k, known
  <2>4. ir = <<"node", k>>
    <3> DEFINE a == <<"node", k>>
    <3>1. made = [ir |-> a, cat |-> cat, ok |-> TRUE]
      BY <2>3
    <3> HIDE DEF a
    <3>2. a = ir
      BY <1>3, <3>1
    <3> QED
      BY <3>2 DEF a
  <2> QED
    BY <2>2, <2>4 DEF key
<1>6. CASE known = {}
  <2> DEFINE a == <<"node", Len(inner.cat) + 1>>
             e == [key |-> key, elem |-> inner.ir]
             d == Append(inner.cat, e)
             o == inner.ok /\ Lookup(inner.cat, key) = {}
  <2>1. made = [ir |-> a, cat |-> d, ok |-> o]
    BY <1>2, <1>6 DEF ByCase
  <2> HIDE DEF a, o, e
  <2>2. IsSeq(inner.cat) /\ Len(cat) <= Len(inner.cat)
    BY <1>4 DEF Grown, Extends
  <2>3. Len(d) = Len(inner.cat) + 1 /\ Len(inner.cat) \in Nat /\ Len(cat) \in Nat
    BY <2>2, SeqBasics
  <2> HIDE DEF d
  <2>4. d = cat
    BY <1>3, <2>1
  <2> QED
    BY <2>2, <2>3, <2>4
<1> QED
  BY <1>5, <1>6

\* An array has its LLVM type when what it is of has.
LEMMA ArraySettled ==
  ASSUME NEW t, Formed(t), t[1] \in {"array", "sized"}, NEW cat, IsSeq(cat)
  PROVE  \E a \in {"ptr", "block"} :
           /\ (a = "ptr") <=> (t[1] = "array")
           /\ \A ir : Settled(Nested(t), ir, cat) => Settled(t, <<a>> \o ir, cat)
           /\ \A ir : Settled(t, ir, cat) =>
                \E inner : Settled(Nested(t), inner, cat) /\ ir = <<a>> \o inner /\ Tail(ir) = inner
<1> DEFINE made  == Translate(t, cat)
           inner == Translate(Nested(t), cat)
           a     == IF t[1] = "array" THEN "ptr" ELSE "block"
<1>1. Len(t) > 1
  BY Longer DEF Around
<1>2. ByCase(t, HashKey(t), cat, made, inner)
  BY <1>1, TranslateCases
<1>3. Grown(inner, Nested(t), cat)
  BY <1>1, NestedFormed, TranslateGrows
<1> HIDE DEF made, inner
<1>4. made = [inner EXCEPT !.ir = <<a>> \o @]
  BY <1>2 DEF ByCase
<1>5. a \in {"ptr", "block"} /\ ((a = "ptr") <=> (t[1] = "array"))
  OBVIOUS
<1> HIDE DEF a
<1>6. inner = [ir |-> inner.ir, cat |-> inner.cat, ok |-> inner.ok]
  BY <1>3 DEF Grown
<1> DEFINE x == <<a>> \o inner.ir
<1>7. made = [ir |-> x, cat |-> inner.cat, ok |-> inner.ok]
  <2>1. made = [inner EXCEPT !.ir = x]
    BY <1>4
  <2> HIDE DEF x
  <2> QED
    BY <1>6, <2>1
<1>8. ASSUME NEW ir, Settled(Nested(t), ir, cat) PROVE Settled(t, <<a>> \o ir, cat)
  <2>1. inner = [ir |-> ir, cat |-> cat, ok |-> TRUE]
    BY <1>8 DEF Settled, inner
  <2>2. inner.ir = ir /\ inner.cat = cat /\ inner.ok = TRUE
    BY <2>1
  <2> QED
    BY <1>7, <2>2 DEF Settled, made
<1>9. ASSUME NEW ir, Settled(t, ir, cat)
      PROVE  \E i : Settled(Nested(t), i, cat) /\ ir = <<a>> \o i /\ Tail(ir) = i
  <2>1. made = [ir |-> ir, cat |-> cat, ok |-> TRUE]
    BY <1>9 DEF Settled, made
  <2> HIDE DEF x
  <2>2. ir = x /\ inner.cat = cat /\ inner.ok = TRUE
    BY <1>7, <2>1
  <2>3. Settled(Nested(t), inner.ir, cat)
    BY <1>6, <2>2 DEF Settled, inner
  <2>4. IsSeq(inner.ir)
    BY <1>3 DEF Grown
  <2>5. Tail(x) = inner.ir
    BY <2>4, FrontOfSeq DEF x
  <2> QED
    BY <2>2, <2>3, <2>5 DEF x
<1> QED
  BY <1>5, <1>8, <1>9

\* What a type needs is never taken out of the catalog.
StaysSettled(n, c, d) ==
  \A t, ir : Formed(t) /\ Len(t) = n /\ Settled(t, ir, c) => Settled(t, ir, d)

LEMMA SettledStays ==
  ASSUME NEW c, IsSeq(c), NEW d, IsSeq(d), OneKeyEach(d), Extends(c, d),
         NEW t, Formed(t), NEW ir, Settled(t, ir, c)
  PROVE  Settled(t, ir, d)
<1> DEFINE fails == {k \in Nat : k > 0 /\ ~StaysSettled(k, c, d)}
<1>1. 1 \notin fails
  <2> SUFFICES ASSUME NEW u, NEW x, Formed(u), Len(u) = 1, Settled(u, x, c) PROVE Settled(u, x, d)
    BY DEF StaysSettled
  <2>1. Settled(u, ScalarIR(u[1]), c) /\ Settled(u, ScalarIR(u[1]), d)
    BY SettledScalar
  <2> DEFINE y == ScalarIR(u[1])
             m == Translate(u, c)
  <2>2. m = [ir |-> x, cat |-> c, ok |-> TRUE] /\ m = [ir |-> y, cat |-> c, ok |-> TRUE]
    BY <2>1 DEF Settled
  <2> HIDE DEF y, m
  <2>3. x = y
    BY <2>2
  <2> QED
    BY <2>1, <2>3 DEF y
<1>2. ASSUME fails # {} PROVE FALSE
  <2>1. PICK k \in fails : \A x \in fails : k <= x
    <3>1. fails \subseteq Nat
      OBVIOUS
    <3> HIDE DEF fails
    <3> QED
      BY <1>2, <3>1, LeastNumber
  <2> DEFINE j == k - 1
  <2>2. k \in Nat /\ k > 0 /\ k # 1
    BY <1>1
  <2>3. j \in Nat /\ j > 0 /\ ~(k <= j) /\ k > 1
    BY <2>2
  <2>4. StaysSettled(j, c, d)
    BY <2>1, <2>3
  <2> HIDE DEF fails
  <2>5. ASSUME NEW u, NEW x, Formed(u), Len(u) = k, Settled(u, x, c) PROVE Settled(u, x, d)
    <3>1. Len(u) > 1 /\ Formed(Nested(u)) /\ Len(Nested(u)) = j
      BY <2>3, <2>5, NestedFormed
    <3>2. u[1] \in Around
      BY <2>5, <3>1, Longer
    <3>3. CASE u[1] \in {"array", "sized"}
      <4>1. PICK a \in {"ptr", "block"} :
              /\ (a = "ptr") <=> (u[1] = "array")
              /\ \A y : Settled(Nested(u), y, c) => Settled(u, <<a>> \o y, c)
              /\ \A y : Settled(u, y, c) =>
                   \E i : Settled(Nested(u), i, c) /\ y = <<a>> \o i /\ Tail(y) = i
        BY <2>5, <3>3, ArraySettled
      <4>2. PICK b \in {"ptr", "block"} :
              /\ (b = "ptr") <=> (u[1] = "array")
              /\ \A y : Settled(Nested(u), y, d) => Settled(u, <<b>> \o y, d)
              /\ \A y : Settled(u, y, d) =>
                   \E i : Settled(Nested(u), i, d) /\ y = <<b>> \o i /\ Tail(y) = i
        BY <2>5, <3>3, ArraySettled
      <4>3. a = b
        BY <4>1, <4>2
      <4>4. PICK i : Settled(Nested(u), i, c) /\ x = <<a>> \o i
        BY <2>5, <4>1
      <4>5. Settled(Nested(u), i, d)
        BY <2>4, <3>1, <4>4 DEF StaysSettled
      <4> QED
        BY <4>2, <4>3, <4>4, <4>5
    <3>4. CASE u[1] = "list"
      <4>1. PICK n \in 1 .. Len(c) : c[n].key = HashKey(u) /\ x = <<"node", n>>
        BY <2>5, <3>4, SettledKnown
      <4>2. n \in 1 .. Len(d) /\ d[n].key = HashKey(u)
        <5>1. Len(c) \in Nat /\ Len(d) \in Nat /\ Len(c) <= Len(d) /\ d[n] = c[n]
          BY SeqBasics DEF Extends
        <5>2. n \in 1 .. Len(d)
          BY <5>1
        <5> QED
          BY <4>1, <5>1, <5>2
      <4> QED
        BY <2>5, <3>4, <4>1, <4>2, KnownSettled
    <3> QED
      BY <3>2, <3>3, <3>4 DEF Around
  <2>6. StaysSettled(k, c, d)
    BY <2>5 DEF StaysSettled
  <2> QED
    BY <2>1, <2>6 DEF fails
<1>3. Len(t) \in Nat /\ Len(t) > 0
  BY FormedBasics
<1> QED
  BY <1>2, <1>3 DEF StaysSettled

\* The struct of a list is of what the list is of.
LEMMA HeadSettled ==
  ASSUME NEW t, Formed(t), t[1] = "list", NEW cat, CatalogFits(cat), NEW ir, Settled(t, ir, cat)
  PROVE  /\ ir[1] = "node" /\ ir[2] \in 1 .. Len(cat) /\ cat[ir[2]].elem # <<>>
         /\ Nested(t)[1] \notin {"array", "sized"} => Settled(Nested(t), cat[ir[2]].elem, cat)
<1> DEFINE u == Nested(t)
<1>1. IsSeq(cat) /\ OneKeyEach(cat)
  BY DEF CatalogFits
<1>2. PICK k \in 1 .. Len(cat) : cat[k].key = HashKey(t) /\ ir = <<"node", k>>
  BY <1>1, SettledKnown
<1>3. ir[1] = "node" /\ ir[2] = k
  BY <1>2
<1>4. StructFits(cat, k)
  BY DEF CatalogFits
<1>5. /\ Len(t) > 1 /\ Formed(u)
      /\ Tail(cat[k].key) = HashKey(u) /\ cat[k].key[2] = HashKey(u)[1]
  BY <1>2, KeyStep, NestedFormed
<1> HIDE DEF u
<1>6. ASSUME u[1] \notin {"array", "sized"} PROVE Settled(u, cat[k].elem, cat)
  <2>1. CASE u[1] = "list"
    <3>1. cat[k].key[2] = "list"
      BY <1>5, <2>1, KeyBasics
    <3>2. PICK j \in 1 .. Len(cat) : cat[j].key = HashKey(u) /\ cat[k].elem = <<"node", j>>
      BY <1>4, <1>5, <3>1 DEF StructFits
    <3> QED
      BY <1>1, <1>5, <2>1, <3>2, KnownSettled
  <2>2. CASE u[1] \in Scalars \cup {"any"}
    <3> DEFINE b == Base(u[1])
    <3>1. HashKey(u) = <<b>>
      <4>1. u[1] # "list"
        BY <2>2 DEF Scalars
      <4> QED
        BY <1>5, <4>1, KeyBasics
    <3>2. b \in Scalars
      BY <2>2 DEF Base, Scalars
    <3>3. ScalarIR(u[1]) = ScalarIR(b)
      BY <2>2, ScalarIRIsSeq
    <3> HIDE DEF b
    <3>4. cat[k].key[2] = b
      BY <1>5, <3>1
    <3>5. cat[k].elem = ScalarIR(u[1])
      BY <1>4, <3>2, <3>3, <3>4 DEF StructFits
    <3>6. Len(u) = 1
      BY <1>5, <2>2, FormedBasics
    <3> QED
      BY <1>5, <3>5, <3>6, SettledScalar
  <2> QED
    BY <1>5, <1>6, <2>1, <2>2, Longer DEF Around
<1>7. cat[k].elem # <<>>
  BY <1>4 DEF StructFits
<1> QED
  BY <1>3, <1>6, <1>7 DEF u

\* A struct of its own key, of what its list is of, may be added.
LEMMA CatalogGrows ==
  ASSUME NEW t, Formed(t), t[1] = "list", NEW cat, CatalogFits(cat),
         Lookup(cat, HashKey(t)) = {}, NEW elem, Settled(Nested(t), elem, cat)
  PROVE  CatalogFits(Append(cat, [key |-> HashKey(t), elem |-> elem]))
<1> DEFINE key == HashKey(t)
           u   == Nested(t)
           e   == [key |-> key, elem |-> elem]
           d   == Append(cat, e)
           L   == Len(cat)
<1>1. IsSeq(cat) /\ OneKeyEach(cat)
  BY DEF CatalogFits
<1>2. /\ IsSeq(d) /\ Len(d) = L + 1 /\ L \in Nat
      /\ \A i \in 1 .. L : d[i] = cat[i]
      /\ d[L + 1] = e
  BY <1>1, SeqBasics
<1>3. /\ Len(t) > 1 /\ Formed(u)
      /\ Tail(key) = HashKey(u) /\ key[2] = HashKey(u)[1]
  BY KeyStep, NestedFormed
<1>4. \A i \in 1 .. L : cat[i].key # key
  BY <1>1, LookupIs
<1>5. e.key = key /\ e.elem = elem
  OBVIOUS
<1> HIDE DEF d, e, L, u, key
<1>6. \A i \in 1 .. Len(d) : i \in 1 .. L \/ i = L + 1
  BY <1>2
<1>7. \A i \in 1 .. L : i \in 1 .. Len(d)
  BY <1>2
<1>8. L + 1 \in 1 .. Len(d)
  BY <1>2
<1>9. OneKeyEach(d)
  <2> SUFFICES ASSUME NEW i \in 1 .. Len(d), NEW j \in 1 .. Len(d), d[i].key = d[j].key
               PROVE  i = j
    BY DEF OneKeyEach
  <2>1. CASE i \in 1 .. L /\ j \in 1 .. L
    <3>1. cat[i].key = cat[j].key
      BY <1>2, <2>1
    <3> QED
      BY <1>1, <2>1, <3>1 DEF OneKeyEach, L
  <2>2. CASE i = L + 1 /\ j \in 1 .. L
    BY <1>2, <1>4, <1>5, <2>2
  <2>3. CASE i \in 1 .. L /\ j = L + 1
    BY <1>2, <1>4, <1>5, <2>3
  <2> QED
    BY <1>6, <2>1, <2>2, <2>3
<1>10. ASSUME NEW k \in 1 .. L PROVE StructFits(d, k)
  <2>1. StructFits(cat, k)
    BY DEF CatalogFits, L
  <2>2. d[k] = cat[k]
    BY <1>2
  <2>3. ASSUME cat[k].key[2] = "list"
        PROVE  \E j \in 1 .. Len(d) : d[j].key = Tail(cat[k].key) /\ cat[k].elem = <<"node", j>>
    <3>1. PICK j \in 1 .. L : cat[j].key = Tail(cat[k].key) /\ cat[k].elem = <<"node", j>>
      BY <2>1, <2>3 DEF StructFits, L
    <3>2. j \in 1 .. Len(d) /\ d[j] = cat[j]
      BY <1>2, <1>7
    <3> QED
      BY <3>1, <3>2
  <2> QED
    BY <2>1, <2>2, <2>3 DEF StructFits
<1>11. StructFits(d, L + 1)
  <2>1. d[L + 1].key = key /\ d[L + 1].elem = elem
    BY <1>2, <1>5
  <2>2. elem # <<>>
    BY <1>1, <1>3, SettledHas DEF u
  <2>3. ASSUME key[2] = "list"
        PROVE  \E j \in 1 .. Len(d) : d[j].key = Tail(key) /\ elem = <<"node", j>>
    <3>1. u[1] = "list"
      BY <1>3, <2>3, KeyBasics
    <3>2. PICK j \in 1 .. Len(cat) : cat[j].key = HashKey(u) /\ elem = <<"node", j>>
      BY <1>1, <1>3, <3>1, SettledKnown DEF u
    <3>3. j \in 1 .. L /\ j \in 1 .. Len(d)
      BY <1>7 DEF L
    <3>4. d[j].key = Tail(key)
      BY <1>2, <1>3, <3>2, <3>3
    <3> QED
      BY <3>2, <3>3, <3>4
  <2>4. ASSUME key[2] \in Scalars PROVE elem = ScalarIR(key[2])
    <3> DEFINE b == Base(u[1])
    <3>1. u[1] # "list"
      <4>1. HashKey(u)[1] # "list"
        BY <1>3, <2>4 DEF Scalars
      <4> QED
        BY <1>3, <4>1, KeyBasics
    <3>2. HashKey(u) = <<b>>
      BY <1>3, <3>1, KeyBasics
    <3>3. key[2] = b
      <4> HIDE DEF b
      <4> QED
        BY <1>3, <3>2
    <3>4. u[1] \notin {"array", "sized"}
      BY <2>4, <3>3 DEF Base, Scalars
    <3>5. u[1] \in Scalars \cup {"any"}
      BY <1>3, <3>1, <3>4, Longer DEF Around
    <3>6. ScalarIR(u[1]) = ScalarIR(b) /\ Len(u) = 1
      BY <1>3, <3>5, ScalarIRIsSeq, FormedBasics
    <3>7. Settled(u, ScalarIR(u[1]), cat)
      BY <1>3, <3>6, SettledScalar
    <3> HIDE DEF b
    <3> DEFINE s == ScalarIR(u[1])
               m == Translate(u, cat)
    <3>8. m = [ir |-> elem, cat |-> cat, ok |-> TRUE] /\ m = [ir |-> s, cat |-> cat, ok |-> TRUE]
      BY <3>7 DEF Settled, u
    <3> HIDE DEF s, m
    <3>9. elem = s
      BY <3>8
    <3> QED
      BY <3>3, <3>6, <3>9 DEF s
  <2> QED
    BY <2>1, <2>2, <2>3, <2>4 DEF StructFits
<1>12. CatalogFits(d)
  BY <1>2, <1>6, <1>9, <1>10, <1>11 DEF CatalogFits
<1> QED
  BY <1>12 DEF d, e, key

\* What Translate makes of a type: a catalog that still fits, and that settles it.
Settles(made, t) == made.ok => CatalogFits(made.cat) /\ Settled(t, made.ir, made.cat)

LEMMA SettlesScalar ==
  ASSUME NEW t, Formed(t), Len(t) = 1, NEW cat, CatalogFits(cat)
  PROVE  Settles(Translate(t, cat), t)
<1> DEFINE made == Translate(t, cat)
           ir   == ScalarIR(t[1])
<1>1. made = [ir |-> ir, cat |-> cat, ok |-> TRUE] /\ Settled(t, ir, cat)
  BY TranslateStep DEF Settled
<1> HIDE DEF made, ir
<1>2. made.ir = ir /\ made.cat = cat
  BY <1>1
<1>3. Settles(made, t)
  BY <1>1, <1>2 DEF Settles
<1> QED
  BY <1>3 DEF made

LEMMA SettlesStep ==
  ASSUME NEW t, Formed(t), Len(t) > 1, NEW cat, CatalogFits(cat),
         Settles(Translate(Nested(t), cat), Nested(t))
  PROVE  Settles(Translate(t, cat), t)
<1> DEFINE made  == Translate(t, cat)
           inner == Translate(Nested(t), cat)
           key   == HashKey(t)
           known == Lookup(cat, key)
           c     == inner.cat
<1>1. ByCase(t, key, cat, made, inner)
  BY TranslateCases
<1>2. Formed(Nested(t)) /\ Grown(inner, Nested(t), cat)
  BY NestedFormed, TranslateGrows DEF CatalogFits
<1>3. t[1] \in Around
  BY Longer
<1>4. Settles(inner, Nested(t))
  OBVIOUS
<1> HIDE DEF made, inner, key
<1>5. inner = [ir |-> inner.ir, cat |-> c, ok |-> inner.ok] /\ IsSeq(inner.ir)
  BY <1>2 DEF Grown
<1>6. CASE t[1] \in {"array", "sized"} /\ made.ok
  <2> DEFINE b == IF t[1] = "array" THEN "ptr" ELSE "block"
             x == <<b>> \o inner.ir
  <2>1. made = [inner EXCEPT !.ir = <<b>> \o @] /\ ((b = "ptr") <=> (t[1] = "array"))
        /\ b \in {"ptr", "block"}
    BY <1>1, <1>6 DEF ByCase
  <2> HIDE DEF b
  <2>2. made = [ir |-> x, cat |-> c, ok |-> inner.ok]
    <3>1. made = [inner EXCEPT !.ir = x]
      BY <2>1
    <3> HIDE DEF x, c
    <3> QED
      BY <1>5, <3>1
  <2> HIDE DEF x
  <2>3. made.ir = x /\ made.cat = c /\ made.ok = inner.ok
    BY <2>2
  <2>4. CatalogFits(c) /\ Settled(Nested(t), inner.ir, c)
    BY <1>4, <1>6, <2>3 DEF Settles
  <2> HIDE DEF c
  <2>5. PICK a \in {"ptr", "block"} :
          /\ (a = "ptr") <=> (t[1] = "array")
          /\ \A ir : Settled(Nested(t), ir, c) => Settled(t, <<a>> \o ir, c)
    BY <1>6, <2>4, ArraySettled DEF CatalogFits
  <2>6. a = b
    BY <2>1, <2>5
  <2>7. Settled(t, x, c)
    BY <2>4, <2>5, <2>6 DEF x
  <2>8. Settles(made, t)
    BY <2>3, <2>4, <2>7 DEF Settles
  <2> QED
    BY <2>8 DEF made
<1>7. CASE t[1] = "list" /\ known # {}
  <2> DEFINE x == <<"node", CHOOSE k \in known : TRUE>>
  <2>1. made = [ir |-> x, cat |-> cat, ok |-> TRUE]
    BY <1>1, <1>7 DEF ByCase
  <2> HIDE DEF x
  <2>2. made.ir = x /\ made.cat = cat
    BY <2>1
  <2>3. Settled(t, x, cat)
    BY <2>1 DEF Settled, made
  <2>4. Settles(made, t)
    BY <2>2, <2>3 DEF Settles
  <2> QED
    BY <2>4 DEF made
<1>8. CASE t[1] = "list" /\ known = {} /\ made.ok
  <2> DEFINE x == <<"node", Len(c) + 1>>
             e == [key |-> key, elem |-> inner.ir]
             d == Append(c, e)
             o == inner.ok /\ Lookup(c, key) = {}
  <2>1. made = [ir |-> x, cat |-> d, ok |-> o]
    BY <1>1, <1>8 DEF ByCase
  <2> HIDE DEF o
  <2>2. made.ir = x /\ made.cat = d /\ made.ok = o
    <3> HIDE DEF x, d
    <3> QED
      BY <2>1
  <2>3. inner.ok /\ Lookup(c, key) = {}
    BY <1>8, <2>2 DEF o
  <2>4. CatalogFits(c) /\ Settled(Nested(t), inner.ir, c)
    BY <1>4, <2>3 DEF Settles
  <2> HIDE DEF c
  <2>5. CatalogFits(d)
    BY <1>8, <2>3, <2>4, CatalogGrows DEF key
  <2>6. /\ IsSeq(d) /\ OneKeyEach(d) /\ Len(d) = Len(c) + 1 /\ Len(c) \in Nat
        /\ d[Len(c) + 1] = e
    BY <2>4, <2>5, SeqBasics DEF CatalogFits
  <2>7. Len(c) + 1 \in 1 .. Len(d) /\ d[Len(c) + 1].key = key
    <3>1. e.key = key
      OBVIOUS
    <3> HIDE DEF d, e
    <3> QED
      BY <2>6, <3>1
  <2> HIDE DEF d
  <2>8. Settled(t, x, d)
    BY <1>8, <2>6, <2>7, KnownSettled DEF key
  <2> HIDE DEF x
  <2>9. Settles(made, t)
    BY <2>2, <2>5, <2>8 DEF Settles
  <2> QED
    BY <2>9 DEF made
<1>9. CASE ~made.ok
  BY <1>9 DEF Settles, made
<1> QED
  BY <1>3, <1>6, <1>7, <1>8, <1>9 DEF Around

SettlesAt(n, cat) == \A t : Formed(t) /\ Len(t) = n => Settles(Translate(t, cat), t)

LEMMA TranslateSettles ==
  ASSUME NEW cat, CatalogFits(cat), NEW t, Formed(t)
  PROVE  Settles(Translate(t, cat), t)
<1> DEFINE fails == {k \in Nat : k > 0 /\ ~SettlesAt(k, cat)}
<1>1. 1 \notin fails
  BY SettlesScalar DEF SettlesAt
<1>2. ASSUME fails # {} PROVE FALSE
  <2>1. PICK k \in fails : \A x \in fails : k <= x
    <3>1. fails \subseteq Nat
      OBVIOUS
    <3> HIDE DEF fails
    <3> QED
      BY <1>2, <3>1, LeastNumber
  <2> DEFINE j == k - 1
  <2>2. k \in Nat /\ k > 0 /\ k # 1
    BY <1>1
  <2>3. j \in Nat /\ j > 0 /\ ~(k <= j) /\ k > 1
    BY <2>2
  <2>4. SettlesAt(j, cat)
    BY <2>1, <2>3
  <2>5. ASSUME NEW u, Formed(u), Len(u) = k PROVE Settles(Translate(u, cat), u)
    <3>1. Len(u) > 1 /\ Formed(Nested(u)) /\ Len(Nested(u)) = j
      BY <2>3, <2>5, NestedFormed
    <3>2. Settles(Translate(Nested(u), cat), Nested(u))
      BY <2>4, <3>1 DEF SettlesAt
    <3> QED
      BY <2>5, <3>1, <3>2, SettlesStep
  <2> QED
    BY <2>2, <2>5 DEF SettlesAt
<1>3. Len(t) \in Nat /\ Len(t) > 0
  BY FormedBasics
<1> QED
  BY <1>2, <1>3 DEF SettlesAt

-----------------------------------------------------------------------------
(* The inductive invariant of the generator: what the catalog, the variables *)
(* and the operands are for each other.                                      *)

OperandCompiles(e, cat) ==
  /\ e.ir # <<>>
  /\ e.op = "nil" => e.type = <<"list", "any">> /\ e.ir = <<"ptr", "i32">>
  /\ e.op = "new" => Current(e.type) = "array"
  /\ HasValue(e) /\ e.op \notin {"new", "nil"} /\ ~MayShare(e) => Settled(e.type, e.ir, cat)

VariablesCompile(vs, cat) == \A x \in DOMAIN vs : \E ir : Settled(vs[x].type, ir, cat)
OperandsCompile(s, cat)   == \A i \in 1 .. Len(s) : OperandCompiles(s[i], cat)

CatalogInv ==
  /\ CatalogFits(catalog)
  /\ VariablesCompile(vars, catalog)
  /\ OperandsCompile(stack, catalog)

\* What the generator may fail on: FailsOnlyOn for one set of culprits.
ExcusesIR(why) ==
  \E e \in why :
    \/ ~HasValue(e) \/ e.op = "new" \/ MayShare(e) \/ Mentions(e.type, {"sized"})
    \/ Mentions(e.type, {"any"}) /\ (~IsNilConstant(e.type) \/ Cardinality(why) > 1)

ExcusesStore(why, cat) ==
  \E e \in why :
    /\ Current(e.type) = "array"
    /\ \E k \in DOMAIN cat : cat[k].key = <<"list", "arr">> /\ cat[k].elem # Translate(e.type, cat).ir

ExcusesType(why) ==
  \E e \in why : e.type = <<"void">> \/ KeyTwice(List(e.type)) \/ KeyTwice(e.type)

OutcomeInv ==
  /\ outcome \in {"compiling", "rejected", "bad_ir", "bad_store", "no_type"}
  /\ outcome \in {"compiling", "rejected"} => culprits = {}
  /\ outcome = "bad_ir" => ExcusesIR(culprits)
  /\ outcome = "bad_store" => ExcusesStore(culprits, catalog)
  /\ outcome = "no_type" => ExcusesType(culprits)
  /\ nodes \in 0 .. MaxNodes

\* The operands are words, by the invariant of the types.
LEMMA StackIsSeq ==
  ASSUME ExpressionsInv
  PROVE  /\ IsSeq(stack)
         /\ \A i \in 1 .. Len(stack) :
              HasValue(stack[i]) => Word(stack[i].type) /\ Formed(stack[i].type)
<1>1. PICK S : stack \in Seq(S) /\ \A e \in S : OperandFits(e, pushed)
  BY DEF ExpressionsInv, StackFits
<1>2. \A i \in 1 .. Len(stack) : stack[i] \in S
  BY <1>1, ElementOfSeq
<1> QED
  BY <1>1, <1>2, WordFormed DEF IsSeq, OperandFits

\* What the steps do to operands and variables: the catalog may grow, the last n
\* operands give way to e, and variables keep their types.
Among(r, e, s) == \A i \in 1 .. Len(r) : r[i] = e \/ \E j \in 1 .. Len(s) : r[i] = s[j]

LEMMA OperandsAfter ==
  ASSUME NEW s, IsSeq(s), NEW n \in Nat, n <= Len(s), NEW e
  PROVE  Among(Append(SubSeq(s, 1, Len(s) - n), e), e, s)
<1> DEFINE L == Len(s)
           w == SubSeq(s, 1, L - n)
           r == Append(w, e)
<1>1. PICK S : s \in Seq(S)
  BY DEF IsSeq
<1>2. L \in Nat
  BY <1>1, LenProperties
<1> HIDE DEF L
<1>3. L - n \in Int /\ L - n <= L /\ L - n + 1 >= 1 /\ 1 \in Int
  BY <1>2 DEF L
<1>4. \A k \in 1 .. L - n : k \in 1 .. L
  BY <1>2, <1>3
<1>5. /\ w \in Seq(S) /\ Len(w) = L - n
      /\ \A i \in 1 .. L - n : w[i] = s[i]
  <2>1. \A k \in 1 .. L - n : s[k] \in S
    BY <1>1, <1>4, ElementOfSeq DEF L
  <2>2. /\ w \in Seq(S)
        /\ Len(w) = IF 1 <= L - n THEN L - n - 1 + 1 ELSE 0
        /\ \A i \in 1 .. L - n - 1 + 1 : w[i] = s[1 + i - 1]
    BY <1>1, <1>3, <2>1, SubSeqProperties
  <2>3. L - n - 1 + 1 = L - n /\ (~(1 <= L - n) => L - n = 0)
    BY <1>2, <1>3
  <2>4. \A i \in 1 .. L - n : 1 + i - 1 = i
    BY <1>3
  <2> QED
    BY <2>2, <2>3, <2>4
<1>6. IsSeq(w)
  BY <1>5 DEF IsSeq
<1>7. /\ Len(r) = Len(w) + 1 /\ Len(w) \in Nat
      /\ \A i \in 1 .. Len(w) : r[i] = w[i]
      /\ r[Len(w) + 1] = e
  <2> HIDE DEF w
  <2> QED
    BY <1>6, SeqBasics
<1> SUFFICES ASSUME NEW i \in 1 .. Len(r) PROVE r[i] = e \/ \E j \in 1 .. Len(s) : r[i] = s[j]
  BY DEF Among, L
<1> HIDE DEF w, r
<1>8. i \in 1 .. Len(w) \/ i = Len(w) + 1
  BY <1>7
<1>9. CASE i \in 1 .. Len(w)
  <2>1. i \in 1 .. L - n /\ i \in 1 .. L
    BY <1>4, <1>5, <1>9
  <2>2. r[i] = s[i]
    BY <1>5, <1>7, <1>9, <2>1
  <2> QED
    BY <2>1, <2>2 DEF L
<1> QED
  BY <1>7, <1>8, <1>9

LEMMA OperandStays ==
  ASSUME NEW e, HasValue(e) => Formed(e.type), NEW c, IsSeq(c), NEW d, IsSeq(d), OneKeyEach(d), Extends(c, d),
         OperandCompiles(e, c)
  PROVE  OperandCompiles(e, d)
BY SettledStays DEF OperandCompiles

LEMMA ExtendsItself ==
  ASSUME NEW c, IsSeq(c)
  PROVE  Extends(c, c)
BY SeqBasics DEF Extends

LEMMA ExtendsOn ==
  ASSUME NEW c, IsSeq(c), NEW d, IsSeq(d), NEW f, IsSeq(f), Extends(c, d), Extends(d, f)
  PROVE  Extends(c, f)
<1>1. Len(c) \in Nat /\ Len(d) \in Nat /\ Len(f) \in Nat
  BY SeqBasics
<1>2. \A i \in 1 .. Len(c) : i \in 1 .. Len(d)
  BY <1>1 DEF Extends
<1> QED
  BY <1>1, <1>2 DEF Extends

SameTypes(old, new) == \A x \in DOMAIN new : x \in DOMAIN old /\ new[x].type = old[x].type

LEMMA VariableFormed ==
  ASSUME ExpressionsInv, NEW x \in DOMAIN vars
  PROVE  Formed(vars[x].type) /\ Plain(vars[x].type) /\ vars[x].type \in DeclTypes
<1>1. vars[x].type \in DeclTypes
  BY DEF ExpressionsInv, VarsFit, VariableFits
<1> QED
  BY <1>1, DeclaredPlain, WordFormed DEF Plain

LEMMA CatalogReplaced ==
  ASSUME ExpressionsInv, CatalogInv, CatalogFits(catalog'), Extends(catalog, catalog'),
         SameTypes(vars, vars'),
         NEW n \in Nat, n <= Len(stack), NEW e, OperandCompiles(e, catalog'),
         stack' = Append(Below(n), e)
  PROVE  CatalogInv'
<1>1. IsSeq(catalog) /\ IsSeq(catalog') /\ OneKeyEach(catalog')
  BY DEF CatalogInv, CatalogFits
<1>2. IsSeq(stack) /\ \A i \in 1 .. Len(stack) : HasValue(stack[i]) => Formed(stack[i].type)
  BY StackIsSeq
<1>3. \A i \in 1 .. Len(stack) : OperandCompiles(stack[i], catalog')
  BY <1>1, <1>2, OperandStays DEF CatalogInv, OperandsCompile
<1>4. Among(stack', e, stack)
  <2>1. Among(Append(Below(n), e), e, stack)
    BY <1>2, OperandsAfter DEF Below
  <2> QED
    BY <2>1
<1>5. OperandsCompile(stack', catalog')
  BY <1>3, <1>4 DEF OperandsCompile, Among
<1>6. VariablesCompile(vars', catalog')
  <2> SUFFICES ASSUME NEW x \in DOMAIN vars' PROVE \E ir : Settled(vars'[x].type, ir, catalog')
    BY DEF VariablesCompile
  <2>1. x \in DOMAIN vars /\ vars'[x].type = vars[x].type
    BY DEF SameTypes
  <2>2. PICK ir : Settled(vars[x].type, ir, catalog)
    BY <2>1 DEF CatalogInv, VariablesCompile
  <2>3. Settled(vars[x].type, ir, catalog')
    BY <1>1, <2>1, <2>2, VariableFormed, SettledStays
  <2> QED
    BY <2>1, <2>3
<1> QED
  BY <1>5, <1>6 DEF CatalogInv

LEMMA CatalogPushed ==
  ASSUME ExpressionsInv, CatalogInv, NEW e, OperandCompiles(e, catalog), Push(e)
  PROVE  CatalogInv'
<1>1. catalog' = catalog /\ vars' = vars /\ stack' = Append(stack, e)
  BY DEF Push, Visit
<1>2. IsSeq(catalog) /\ Extends(catalog, catalog)
  BY ExtendsItself DEF CatalogInv, CatalogFits
<1>3. IsSeq(stack)
  BY StackIsSeq
<1>4. /\ Len(stack') = Len(stack) + 1 /\ Len(stack) \in Nat
      /\ \A i \in 1 .. Len(stack) : stack'[i] = stack[i]
      /\ stack'[Len(stack) + 1] = e
  BY <1>1, <1>3, SeqBasics
<1>5. \A i \in 1 .. Len(stack') : i \in 1 .. Len(stack) \/ i = Len(stack) + 1
  BY <1>4
<1>6. OperandsCompile(stack', catalog)
  BY <1>4, <1>5 DEF CatalogInv, OperandsCompile
<1> QED
  BY <1>1, <1>6 DEF CatalogInv

LEMMA CatalogUnmoved ==
  ASSUME CatalogInv, catalog' = catalog, vars' = vars, stack' = stack
  PROVE  CatalogInv'
BY DEF CatalogInv

LEMMA CatalogStopped ==
  ASSUME CatalogInv, NEW how, NEW why, Stop(how, why)
  PROVE  CatalogInv'
BY CatalogUnmoved DEF Stop

\* What becomes of the outcome.
LEMMA Passed ==
  ASSUME OutcomeInv, MayVisit, outcome' = outcome, culprits' = culprits, nodes' = nodes + 1
  PROVE  OutcomeInv'
<1>1. outcome = "compiling" /\ nodes < MaxNodes /\ nodes \in 0 .. MaxNodes /\ MaxNodes \in Nat
  BY ExpressionsAssumption DEF MayVisit, OutcomeInv
<1>2. nodes' \in 0 .. MaxNodes
  BY <1>1
<1>3. outcome' = "compiling" /\ culprits' = {}
  BY <1>1 DEF OutcomeInv
<1> QED
  BY <1>2, <1>3 DEF OutcomeInv

LEMMA StoppedOutcome ==
  ASSUME OutcomeInv, NEW how, NEW why, Stop(how, why),
         \/ how = "rejected" /\ why = {}
         \/ how = "bad_ir" /\ ExcusesIR(why)
         \/ how = "bad_store" /\ ExcusesStore(why, catalog)
         \/ how = "no_type" /\ ExcusesType(why)
  PROVE  OutcomeInv'
<1>1. outcome' = how /\ culprits' = why /\ nodes' = nodes /\ catalog' = catalog
  BY DEF Stop
<1>2. nodes' \in 0 .. MaxNodes
  BY <1>1 DEF OutcomeInv
<1> QED
  BY <1>1, <1>2 DEF OutcomeInv

GeneratorInv == ExpressionsInv /\ CatalogInv /\ OutcomeInv

LEMMA Rejected ==
  ASSUME GeneratorInv, Reject
  PROVE  CatalogInv' /\ OutcomeInv'
BY CatalogStopped, StoppedOutcome DEF Reject, GeneratorInv

LEMMA FailedIR ==
  ASSUME GeneratorInv, NEW why, Stop("bad_ir", why), ExcusesIR(why)
  PROVE  CatalogInv' /\ OutcomeInv'
BY CatalogStopped, StoppedOutcome DEF GeneratorInv

LEMMA FailedStore ==
  ASSUME GeneratorInv, NEW why, Stop("bad_store", why), ExcusesStore(why, catalog)
  PROVE  CatalogInv' /\ OutcomeInv'
BY CatalogStopped, StoppedOutcome DEF GeneratorInv

LEMMA FailedType ==
  ASSUME GeneratorInv, NEW why, Stop("no_type", why), ExcusesType(why)
  PROVE  CatalogInv' /\ OutcomeInv'
BY CatalogStopped, StoppedOutcome DEF GeneratorInv

LEMMA PushedOn ==
  ASSUME GeneratorInv, MayVisit, NEW e, OperandCompiles(e, catalog), Push(e)
  PROVE  CatalogInv' /\ OutcomeInv'
<1>1. outcome' = outcome /\ culprits' = culprits /\ nodes' = nodes + 1
  BY DEF Push, Visit
<1> QED
  BY <1>1, CatalogPushed, Passed DEF GeneratorInv

LEMMA ReplacedOn ==
  ASSUME GeneratorInv, MayVisit, NEW n \in Nat, n <= Len(stack), NEW e, OperandCompiles(e, catalog),
         Visit(Below(n), e), UNCHANGED <<vars, catalog, outcome, culprits>>
  PROVE  CatalogInv' /\ OutcomeInv'
<1>1. /\ outcome' = outcome /\ culprits' = culprits /\ nodes' = nodes + 1
      /\ catalog' = catalog /\ vars' = vars /\ stack' = Append(Below(n), e)
  BY DEF Visit
<1>2. SameTypes(vars, vars')
  BY <1>1 DEF SameTypes
<1>3. CatalogFits(catalog') /\ Extends(catalog, catalog') /\ OperandCompiles(e, catalog')
  <2>1. CatalogFits(catalog) /\ Extends(catalog, catalog)
    BY ExtendsItself DEF GeneratorInv, CatalogInv, CatalogFits
  <2> QED
    BY <1>1, <2>1
<1>4. CatalogInv'
  BY <1>1, <1>2, <1>3, CatalogReplaced DEF GeneratorInv
<1> QED
  BY <1>1, <1>4, Passed DEF GeneratorInv

\* What makes an operand.
LEMMA Compiled ==
  ASSUME NEW t, Formed(t), NEW cat, IsSeq(cat), NEW ir, Settled(t, ir, cat),
         NEW op, op \notin {"new", "nil"}, NEW v
  PROVE  OperandCompiles(Expression(op, t, ir, v), cat)
<1> DEFINE e == Expression(op, t, ir, v)
<1>1. e.op = op /\ e.type = t /\ e.ir = ir
  BY DEF Expression
<1>2. ir # <<>>
  BY SettledHas
<1> HIDE DEF e
<1>3. OperandCompiles(e, cat)
  BY <1>1, <1>2 DEF OperandCompiles
<1> QED
  BY <1>3 DEF e

LEMMA CompiledScalar ==
  ASSUME NEW l \in Scalars, NEW cat, IsSeq(cat), NEW op, op \notin {"new", "nil"}, NEW v
  PROVE  OperandCompiles(Expression(op, <<l>>, ScalarIR(l), v), cat)
<1> DEFINE t == <<l>>
<1>1. Formed(t)
  BY ScalarPlain, WordFormed DEF Plain
<1>2. t[1] = l /\ Len(t) = 1
  OBVIOUS
<1> HIDE DEF t
<1>3. Settled(t, ScalarIR(l), cat)
  <2>1. Settled(t, ScalarIR(t[1]), cat)
    BY <1>1, <1>2, SettledScalar
  <2> QED
    BY <1>2, <2>1
<1>4. OperandCompiles(Expression(op, t, ScalarIR(l), v), cat)
  BY <1>1, <1>3, Compiled
<1> QED
  BY <1>4 DEF t

\* Operands.
LEMMA OperandIs ==
  ASSUME GeneratorInv, NEW n \in Nat, n < Len(stack)
  PROVE  /\ OperandCompiles(Operand(n), catalog)
         /\ HasValue(Operand(n)) => Word(Operand(n).type) /\ Formed(Operand(n).type)
         /\ n + 1 \in Nat /\ n + 1 <= Len(stack)
<1>1. /\ IsSeq(stack)
      /\ \A i \in 1 .. Len(stack) : HasValue(stack[i]) => Word(stack[i].type) /\ Formed(stack[i].type)
  BY StackIsSeq DEF GeneratorInv
<1>2. Len(stack) \in Nat
  BY <1>1, SeqBasics
<1> DEFINE i == Len(stack) - n
<1>3. i \in 1 .. Len(stack) /\ n + 1 \in Nat /\ n + 1 <= Len(stack)
  BY <1>2
<1>4. Operand(n) = stack[i]
  BY DEF Operand
<1> HIDE DEF i
<1> QED
  BY <1>1, <1>3, <1>4 DEF GeneratorInv, CatalogInv, OperandsCompile

-----------------------------------------------------------------------------
(* Every step keeps what the generator knows.                                *)

LEMMA CatalogBasics ==
  ASSUME GeneratorInv
  PROVE  /\ CatalogFits(catalog) /\ IsSeq(catalog) /\ OneKeyEach(catalog)
         /\ Len(stack) \in Nat /\ (stack # <<>> <=> Len(stack) > 0)
<1>1. IsSeq(stack)
  BY StackIsSeq DEF GeneratorInv
<1> QED
  BY <1>1, SeqBasics DEF GeneratorInv, CatalogInv, CatalogFits

\* Translate has one result.
LEMMA SettledIR ==
  ASSUME NEW t, NEW ir, NEW cat, Settled(t, ir, cat)
  PROVE  Translate(t, cat).ir = ir
<1> DEFINE m == Translate(t, cat)
<1>1. m = [ir |-> ir, cat |-> cat, ok |-> TRUE]
  BY DEF Settled
<1> HIDE DEF m
<1>2. m.ir = ir
  BY <1>1
<1> QED
  BY <1>2 DEF m

\* Operands the generator does nothing special with have the LLVM type of their
\* type; those of list types are pointers, `nil` too.
Ordinary(e) == HasValue(e) /\ e.op # "new" /\ ~MayShare(e) /\ ~Mentions(e.type, {"sized"})

LEMMA OrdinarySettled ==
  ASSUME NEW e, NEW cat, OperandCompiles(e, cat), Ordinary(e), ~Mentions(e.type, {"any"})
  PROVE  Settled(e.type, e.ir, cat)
<1>1. e.op # "nil"
  <2> SUFFICES ASSUME e.op = "nil" PROVE FALSE
    OBVIOUS
  <2>1. e.type = <<"list", "any">>
    BY DEF OperandCompiles
  <2> DEFINE t == e.type
  <2>2. 2 \in DOMAIN t /\ t[2] = "any"
    BY <2>1
  <2> HIDE DEF t
  <2>3. Mentions(t, {"any"})
    BY <2>2 DEF Mentions
  <2> QED
    BY <2>3 DEF t
<1> QED
  BY <1>1 DEF OperandCompiles, Ordinary

LEMMA ListIsPointer ==
  ASSUME NEW t, Formed(t), t[1] = "list", NEW cat
  PROVE  IsPointer(Translate(t, cat).ir)
<1> DEFINE made  == Translate(t, cat)
           inner == Translate(Nested(t), cat)
           known == Lookup(cat, HashKey(t))
<1>1. Len(t) > 1
  BY KeyStep
<1>2. ByCase(t, HashKey(t), cat, made, inner)
  BY <1>1, TranslateCases
<1> HIDE DEF made, inner, known
<1>3. \E k : made.ir = <<"node", k>>
  <2>1. CASE known = {}
    BY <1>2, <2>1 DEF ByCase, known
  <2>2. CASE known # {}
    BY <1>2, <2>2 DEF ByCase, known
  <2> QED
    BY <2>1, <2>2
<1>4. IsPointer(made.ir)
  <2>1. PICK k : made.ir = <<"node", k>>
    BY <1>3
  <2>2. <<"node", k>>[1] = "node"
    BY NodeIsSeq
  <2> QED
    BY <2>1, <2>2 DEF IsPointer
<1> QED
  BY <1>4 DEF made

LEMMA ListOperandIsPointer ==
  ASSUME NEW e, NEW cat, OperandCompiles(e, cat), HasValue(e), Formed(e.type), e.type[1] = "list"
  PROVE  IsPointer(e.ir)
<1>1. CASE e.op = "nil"
  <2>1. e.ir = <<"ptr", "i32">>
    BY <1>1 DEF OperandCompiles
  <2>2. <<"ptr", "i32">>[1] = "ptr"
    OBVIOUS
  <2> QED
    BY <2>1, <2>2 DEF IsPointer
<1>2. CASE e.op # "nil"
  <2>1. Current(e.type) = "list"
    BY DEF Current, Kind
  <2>2. e.op # "new" /\ ~MayShare(e)
    BY <2>1 DEF OperandCompiles, MayShare
  <2>3. Settled(e.type, e.ir, cat)
    BY <1>2, <2>2 DEF OperandCompiles
  <2>4. Translate(e.type, cat).ir = e.ir
    BY <2>3, SettledIR
  <2> QED
    BY <2>4, ListIsPointer
<1> QED
  BY <1>1, <1>2

\* A word that mentions `any` is a list.
LEMMA AnyInList ==
  ASSUME NEW t, Word(t), Mentions(t, {"any"})
  PROVE  t[1] = "list"
<1>1. PICK i \in DOMAIN t : t[i] = "any"
  BY DEF Mentions
<1>2. Len(t) \in Nat /\ DOMAIN t = 1 .. Len(t)
  BY WordBasics
<1>3. Len(t) > 1 /\ \A j \in 1 .. Len(t) - 1 : t[j] = "list"
  BY <1>1, <1>2 DEF Word
<1>4. 1 \in 1 .. Len(t) - 1
  BY <1>2, <1>3
<1> QED
  BY <1>3, <1>4

\* Types equal for check_type_equality are the same when neither has an `any`
\* or a size.
LEMMA EqualAreSame ==
  ASSUME NEW s, NEW t, Word(s), Word(t), EqualTypes(s, t),
         ~Mentions(s, {"any"}), ~Mentions(t, {"any"}), ~Mentions(s, {"sized"}), ~Mentions(t, {"sized"})
  PROVE  s = t
<1>1. /\ s \in Seq(ValueLetters) /\ t \in Seq(ValueLetters)
      /\ DOMAIN s = 1 .. Len(s) /\ DOMAIN t = 1 .. Len(t)
  BY WordBasics DEF Word
<1>2. /\ \A i \in 1 .. Len(s) : s[i] # "any" /\ s[i] # "sized"
      /\ \A i \in 1 .. Len(t) : t[i] # "any" /\ t[i] # "sized"
  BY <1>1 DEF Mentions
<1>3. SameKinds(s, t)
  BY <1>1, <1>2, PlainAreSame
<1>4. Len(s) = Len(t) /\ \A i \in 1 .. Len(s) : s[i] = t[i]
  BY <1>2, <1>3 DEF SameKinds, Kind
<1> QED
  BY <1>1, <1>4, SeqEqual

\* What is equal to a list and names no `any` is a list.
LEMMA EqualToList ==
  ASSUME NEW s, NEW t, Word(s), Word(t), EqualTypes(s, t), s[1] = "list", ~Mentions(t, {"any"})
  PROVE  t[1] = "list"
<1>1. /\ Len(s) \in Nat /\ Len(s) > 0 /\ Len(t) \in Nat /\ Len(t) > 0
      /\ DOMAIN t = 1 .. Len(t) /\ 1 \in DOMAIN t
  BY WordBasics
<1>2. PICK n \in 0 .. Len(s) :
        /\ n <= Len(t) /\ \A i \in 1 .. n : Kind(s[i]) = Kind(t[i])
        /\ \/ n = Len(s) /\ n = Len(t)
           \/ n < Len(s) /\ n < Len(t) /\ "any" \in {s[n + 1], t[n + 1]}
  BY DEF EqualTypes
<1>3. t[1] # "any"
  BY <1>1 DEF Mentions
<1>4. n # 0
  <2> SUFFICES ASSUME n = 0 PROVE FALSE
    OBVIOUS
  <2>1. n + 1 = 1 /\ n # Len(s)
    BY <1>1
  <2>2. "any" \in {s[1], t[1]}
    BY <1>2, <2>1
  <2> QED
    BY <1>3, <2>2
<1>5. 1 \in 1 .. n
  BY <1>2, <1>4
<1>6. Kind(s[1]) = Kind(t[1])
  BY <1>2, <1>5
<1> QED
  BY <1>6 DEF Kind

LEMMA PlainMentionsNoAny ==
  ASSUME NEW t, Plain(t)
  PROVE  ~Mentions(t, {"any"})
BY WordBasics DEF Plain, Mentions

LEMMA DeclaredMentions ==
  ASSUME NEW t \in DeclTypes
  PROVE  Word(t) /\ ~Mentions(t, {"any"}) /\ ~Mentions(t, {"sized"})
<1>1. Plain(t)
  BY DeclaredPlain
<1>2. t \in Seq(ValueLetters \ {"any", "sized"})
  BY ExpressionsAssumption
<1>3. DOMAIN t = 1 .. Len(t)
  BY <1>1, WordBasics DEF Plain
<1>4. \A i \in 1 .. Len(t) : t[i] \in ValueLetters \ {"any", "sized"}
  BY <1>2, ElementOfSeq
<1> QED
  BY <1>1, <1>3, <1>4 DEF Plain, Mentions

LEMMA DeclareGenerates ==
  ASSUME GeneratorInv, NEW x \in Vars, NEW t \in DeclTypes, Declare(x, t)
  PROVE  CatalogInv' /\ OutcomeInv'
<1> DEFINE made == Translate(t, catalog)
<1>1. Formed(t)
  BY DeclaredPlain, WordFormed DEF Plain
<1>2. CatalogFits(catalog) /\ IsSeq(catalog)
  BY CatalogBasics
<1>3. Grown(made, t, catalog) /\ Settles(made, t)
  BY <1>1, <1>2, TranslateGrows, TranslateSettles
<1>4. MayVisit
  BY DEF Declare
<1>5. CASE made.ok
  <2>1. /\ vars' = [y \in DOMAIN vars \cup {x} |->
                      IF y = x THEN [type |-> t, val |-> Undefined] ELSE vars[y]]
        /\ catalog' = made.cat /\ nodes' = nodes + 1
        /\ stack' = stack /\ outcome' = outcome /\ culprits' = culprits
    BY <1>5 DEF Declare
  <2> HIDE DEF made
  <2>2. CatalogFits(catalog') /\ Settled(t, made.ir, catalog') /\ Extends(catalog, catalog')
    BY <1>3, <1>5, <2>1 DEF Settles, Grown
  <2>3. IsSeq(catalog') /\ OneKeyEach(catalog')
    BY <2>2 DEF CatalogFits
  <2>4. OperandsCompile(stack', catalog')
    <3>1. \A i \in 1 .. Len(stack) : HasValue(stack[i]) => Formed(stack[i].type)
      BY StackIsSeq DEF GeneratorInv
    <3>2. \A i \in 1 .. Len(stack) : OperandCompiles(stack[i], catalog')
      BY <1>2, <2>2, <2>3, <3>1, OperandStays DEF GeneratorInv, CatalogInv, OperandsCompile
    <3> QED
      BY <2>1, <3>2 DEF OperandsCompile
  <2>5. VariablesCompile(vars', catalog')
    <3> SUFFICES ASSUME NEW y \in DOMAIN vars' PROVE \E ir : Settled(vars'[y].type, ir, catalog')
      BY DEF VariablesCompile
    <3>1. CASE y = x
      <4>1. vars'[y].type = t
        BY <2>1, <3>1
      <4> QED
        BY <2>2, <4>1
    <3>2. CASE y # x
      <4>1. y \in DOMAIN vars /\ vars'[y].type = vars[y].type
        BY <2>1, <3>2
      <4>2. PICK ir : Settled(vars[y].type, ir, catalog)
        BY <4>1 DEF GeneratorInv, CatalogInv, VariablesCompile
      <4>3. Settled(vars[y].type, ir, catalog')
        BY <1>2, <2>2, <2>3, <4>1, <4>2, VariableFormed, SettledStays DEF GeneratorInv
      <4> QED
        BY <4>1, <4>3
    <3> QED
      BY <3>1, <3>2
  <2>6. OutcomeInv'
    BY <1>4, <2>1, Passed DEF GeneratorInv
  <2> QED
    BY <2>2, <2>4, <2>5, <2>6 DEF CatalogInv
<1>6. CASE ~made.ok
  <2> DEFINE e == Expression("declare", t, <<>>, Undefined)
  <2>1. Stop("no_type", {e})
    BY <1>6 DEF Declare
  <2>2. KeyTwice(e.type)
    <3>1. e.type = t
      BY DEF Expression
    <3> HIDE DEF e, made
    <3> QED
      BY <1>3, <1>6, <3>1 DEF Grown
  <2> HIDE DEF e
  <2>3. ExcusesType({e})
    BY <2>2 DEF ExcusesType
  <2> QED
    BY <2>1, <2>3, FailedType
<1> QED
  BY <1>5, <1>6

LEMMA ConstantGenerates ==
  ASSUME GeneratorInv, NEW letter \in Scalars, Constant(letter)
  PROVE  CatalogInv' /\ OutcomeInv'
<1> DEFINE e == Expression("constant", <<letter>>, ScalarIR(letter), ScalarValue(letter))
<1>1. MayVisit /\ Push(e)
  BY DEF Constant
<1>2. OperandCompiles(e, catalog)
  BY CatalogBasics, CompiledScalar
<1> HIDE DEF e
<1> QED
  BY <1>1, <1>2, PushedOn

LEMMA StringIR == <<"ptr">> \o <<"i8">> = <<"ptr", "i8">>
<1> DEFINE S == {"ptr", "i8"}
           a == <<"ptr">>
           b == <<"i8">>
           u == a \o b
           v == <<"ptr", "i8">>
<1>1. a \in Seq(S) /\ Len(a) = 1 /\ a[1] = "ptr" /\ b \in Seq(S) /\ Len(b) = 1 /\ b[1] = "i8"
  OBVIOUS
<1>2. v \in Seq(S) /\ Len(v) = 2 /\ v[1] = "ptr" /\ v[2] = "i8"
  OBVIOUS
<1> HIDE DEF S, a, b, v
<1>3. /\ u \in Seq(S) /\ Len(u) = 2
      /\ \A i \in 1 .. 2 : u[i] = IF i <= 1 THEN a[i] ELSE b[i - 1]
  BY <1>1, ConcatProperties
<1> HIDE DEF u
<1>4. u[1] = "ptr" /\ u[2] = "i8"
  <2>1. u[1] = a[1] /\ u[2] = b[2 - 1]
    BY <1>3
  <2> QED
    BY <1>1, <2>1
<1>5. \A i \in 1 .. 2 : u[i] = v[i]
  <2>1. \A i \in 1 .. 2 : i = 1 \/ i = 2
    OBVIOUS
  <2> QED
    BY <1>2, <1>4, <2>1
<1>6. u = v
  BY <1>2, <1>3, <1>5, SeqEqual
<1> QED
  BY <1>6 DEF u, v, a, b

\* A string is an array of char: its LLVM type is a pointer unless the size was
\* read as something.
LEMMA StringGenerates ==
  ASSUME GeneratorInv, StringLiteral
  PROVE  CatalogInv' /\ OutcomeInv'
<1>1. PICK t \in MadeArray(<<"char">>) :
        LET ir == Translate(t, catalog).ir
            e  == Expression("string", t, ir, ArrayValue(<<"char">>))
        IN IF CanBitCast(<<"ptr", "i8">>, ir) THEN Push(e) ELSE Stop("bad_ir", {e})
  BY DEF StringLiteral
<1> DEFINE ir == Translate(t, catalog).ir
           e  == Expression("string", t, ir, ArrayValue(<<"char">>))
           c  == <<"char">>
<1>2. MayVisit /\ (IF CanBitCast(<<"ptr", "i8">>, ir) THEN Push(e) ELSE Stop("bad_ir", {e}))
  BY <1>1 DEF StringLiteral
<1>3. Formed(c) /\ Len(c) = 1 /\ c[1] = "char"
  BY ScalarPlain, WordFormed DEF Plain, Scalars
<1>4. PICK a \in {"array", "sized"} : t = <<a>> \o c
  BY DEF MadeArray
<1> HIDE DEF c
<1>5. Formed(t) /\ Nested(t) = c /\ t[1] = a /\ Len(t) > 1
  BY <1>3, <1>4, FrontFormed DEF Around
<1>6. Settled(c, ScalarIR("char"), catalog)
  BY <1>3, SettledScalar
<1>7. ScalarIR("char") = <<"i8">>
  BY DEF ScalarIR
<1>8. CatalogFits(catalog) /\ IsSeq(catalog)
  BY CatalogBasics
<1>9. PICK b \in {"ptr", "block"} :
        /\ (b = "ptr") <=> (t[1] = "array")
        /\ \A i : Settled(Nested(t), i, catalog) => Settled(t, <<b>> \o i, catalog)
  BY <1>5, <1>8, ArraySettled
<1>10. Settled(t, <<b>> \o <<"i8">>, catalog)
  BY <1>5, <1>6, <1>7, <1>9
<1>11. ir = <<b>> \o <<"i8">>
  BY <1>10, SettledIR
<1>12. Settled(t, ir, catalog)
  BY <1>10, <1>11
<1> HIDE DEF ir
<1>13. OperandCompiles(e, catalog)
  BY <1>5, <1>8, <1>12, Compiled
<1>14. e.type = t
  BY DEF Expression
<1> HIDE DEF e
<1>15. CASE CanBitCast(<<"ptr", "i8">>, ir)
  BY <1>2, <1>13, <1>15, PushedOn
<1>16. CASE ~CanBitCast(<<"ptr", "i8">>, ir)
  <2>1. b # "ptr"
    <3> SUFFICES ASSUME b = "ptr" PROVE FALSE
      OBVIOUS
    <3>1. ir = <<"ptr">> \o <<"i8">>
      BY <1>11
    <3>2. <<"ptr">> \o <<"i8">> = <<"ptr", "i8">>
      BY StringIR
    <3> QED
      BY <1>16, <3>1, <3>2 DEF CanBitCast
  <2>2. t[1] = "sized"
    BY <1>5, <1>9, <2>1
  <2>3. 1 \in DOMAIN t
    BY <1>5, FormedBasics
  <2>4. Mentions(e.type, {"sized"})
    BY <1>14, <2>2, <2>3 DEF Mentions
  <2>5. ExcusesIR({e})
    BY <2>4 DEF ExcusesIR
  <2> QED
    BY <1>2, <1>16, <2>5, FailedIR
<1> QED
  BY <1>15, <1>16

LEMMA NilGenerates ==
  ASSUME GeneratorInv, Nil
  PROVE  CatalogInv' /\ OutcomeInv'
<1> DEFINE t  == <<"list", "any">>
           ir == <<"ptr", "i32">>
           e  == Expression("nil", t, ir, ListValue(<<>>))
<1>1. MayVisit /\ Push(e)
  BY DEF Nil
<1>2. e.op = "nil" /\ e.type = t /\ e.ir = ir
  BY DEF Expression
<1>3. ir # <<>>
  OBVIOUS
<1> HIDE DEF e
<1>4. OperandCompiles(e, catalog)
  BY <1>2, <1>3 DEF OperandCompiles
<1> QED
  BY <1>1, <1>4, PushedOn

\* The name of a function, or its void call, has no LLVM type to answer for.
LEMMA OthersCompile ==
  ASSUME NEW t \in {<<"void">>, <<"function">>}, NEW op \in {"function", "call"},
         NEW ir, ir # <<>>, NEW cat
  PROVE  OperandCompiles(Expression(op, t, ir, Undefined), cat)
<1> DEFINE e == Expression(op, t, ir, Undefined)
<1>1. e.type = t /\ e.op = op /\ e.ir = ir
  BY DEF Expression
<1> HIDE DEF e
<1>2. OperandCompiles(e, cat)
  BY <1>1 DEF OperandCompiles, HasValue
<1> QED
  BY <1>2 DEF e

LEMMA FunctionNameGenerates ==
  ASSUME GeneratorInv, FunctionName
  PROVE  CatalogInv' /\ OutcomeInv'
<1> DEFINE t  == <<"function">>
           ir == <<"none">>
           e  == Expression("function", t, ir, Undefined)
<1>1. MayVisit /\ Push(e)
  BY DEF FunctionName
<1>2. ir # <<>>
  OBVIOUS
<1>3. OperandCompiles(e, catalog)
  BY <1>2, OthersCompile
<1> HIDE DEF e
<1> QED
  BY <1>1, <1>3, PushedOn

LEMMA VoidCallGenerates ==
  ASSUME GeneratorInv, VoidCall
  PROVE  CatalogInv' /\ OutcomeInv'
<1> DEFINE t  == <<"void">>
           ir == <<"void">>
           e  == Expression("call", t, ir, Undefined)
<1>1. MayVisit /\ Push(e)
  BY DEF VoidCall
<1>2. ir # <<>>
  OBVIOUS
<1>3. OperandCompiles(e, catalog)
  BY <1>2, OthersCompile
<1> HIDE DEF e
<1> QED
  BY <1>1, <1>3, PushedOn

LEMMA IdGenerates ==
  ASSUME GeneratorInv, NEW x \in Vars, Id(x)
  PROVE  CatalogInv' /\ OutcomeInv'
<1> DEFINE t  == vars[x].type
           ir == Translate(t, catalog).ir
           e  == Expression("id", t, ir, vars[x].val)
<1>1. MayVisit /\ Push(e) /\ x \in DOMAIN vars
  BY DEF Id
<1>2. Formed(t)
  BY <1>1, VariableFormed DEF GeneratorInv
<1>3. PICK i : Settled(t, i, catalog)
  BY <1>1 DEF GeneratorInv, CatalogInv, VariablesCompile
<1>4. Settled(t, ir, catalog)
  BY <1>3, SettledIR
<1> HIDE DEF t, ir
<1>5. OperandCompiles(e, catalog)
  BY <1>2, <1>4, CatalogBasics, Compiled
<1> HIDE DEF e
<1> QED
  BY <1>1, <1>5, PushedOn

LEMMA NewGenerates ==
  ASSUME GeneratorInv, NEW t \in DeclTypes, New(t)
  PROVE  CatalogInv' /\ OutcomeInv'
<1>1. MayVisit /\ stack # <<>>
  BY DEF New
<1>2. CASE Operand(0).type # <<"int">>
  BY <1>2, Rejected DEF New
<1>3. CASE Operand(0).type = <<"int">>
  <2>1. PICK made \in MadeArray(t) : Visit(Below(1), Expression("new", made, <<"ptr", "i8">>, ArrayValue(t)))
    BY <1>3 DEF New
  <2>2. UNCHANGED <<vars, catalog, outcome, culprits>>
    BY <1>3 DEF New
  <2>3. PICK a \in {"array", "sized"} : made = <<a>> \o t
    BY DEF MadeArray
  <2>4. made[1] = a
    BY <2>3, DeclaredPlain, WordFormed, FrontFormed DEF Plain, Around
  <2>5. Current(made) = "array"
    BY <2>4 DEF Current, Kind
  <2> DEFINE ir == <<"ptr", "i8">>
             e == Expression("new", made, ir, ArrayValue(t))
  <2>6. e.op = "new" /\ e.type = made /\ e.ir = ir
    BY DEF Expression
  <2>7. ir # <<>>
    OBVIOUS
  <2>8. Visit(Below(1), e)
    BY <2>1
  <2> HIDE DEF e
  <2>9. OperandCompiles(e, catalog)
    BY <2>5, <2>6, <2>7 DEF OperandCompiles
  <2>10. 1 \in Nat /\ 1 <= Len(stack)
    BY <1>1, CatalogBasics
  <2> QED
    BY <1>1, <2>2, <2>8, <2>9, <2>10, ReplacedOn
<1> QED
  BY <1>2, <1>3

LEMMA ArrayElementGenerates ==
  ASSUME GeneratorInv, ArrayElement
  PROVE  CatalogInv' /\ OutcomeInv'
<1> DEFINE a == Operand(1)
<1>1. MayVisit /\ Len(stack) > 1 /\ a.op \in {"id", "string", "element", "call"}
  BY DEF ArrayElement
<1>2. CASE Current(a.type) # "array" \/ Operand(0).type # <<"int">>
  BY <1>2, Rejected DEF ArrayElement
<1>3. CASE Current(a.type) = "array" /\ Operand(0).type = <<"int">>
  <2> DEFINE t  == Nested(a.type)
             ir == Tail(a.ir)
             e  == Expression("element", t, ir, Sample(t))
  <2>1. Visit(Below(2), e) /\ UNCHANGED <<vars, catalog, outcome, culprits>>
    BY <1>3 DEF ArrayElement
  <2>2. 1 \in Nat /\ 1 < Len(stack) /\ 2 \in Nat /\ 2 <= Len(stack)
    BY <1>1, CatalogBasics
  <2>3. OperandCompiles(a, catalog) /\ HasValue(a) /\ Formed(a.type)
    BY <1>3, <2>2, OperandIs, CurrentOfOthers
  <2> HIDE DEF a
  <2>4. a.type[1] \in {"array", "sized"}
    BY <1>3 DEF Current, Kind
  <2>5. Settled(a.type, a.ir, catalog)
    BY <1>1, <2>3 DEF OperandCompiles, MayShare
  <2>6. Formed(t)
    BY <2>3, <2>4, Longer, NestedFormed DEF Around
  <2>7. Settled(t, ir, catalog)
    <3>1. PICK b \in {"ptr", "block"} :
            \A i : Settled(a.type, i, catalog) =>
              \E inner : Settled(Nested(a.type), inner, catalog) /\ i = <<b>> \o inner /\ Tail(i) = inner
      BY <2>3, <2>4, CatalogBasics, ArraySettled
    <3> QED
      BY <2>5, <3>1
  <2> HIDE DEF t, ir
  <2>8. OperandCompiles(e, catalog)
    BY <2>6, <2>7, CatalogBasics, Compiled
  <2> HIDE DEF e
  <2> QED
    BY <1>1, <2>1, <2>2, <2>8, ReplacedOn
<1> QED
  BY <1>2, <1>3

LEMMA OperatorGenerates ==
  ASSUME GeneratorInv, NEW o \in Operators, Operator(o)
  PROVE  CatalogInv' /\ OutcomeInv'
<1> DEFINE l == o.type
           n == o.arity
           e == Expression("operator", <<l>>, ScalarIR(l), ScalarValue(l))
           wrong == \E i \in 0 .. n - 1 : Operand(i).type # <<l>>
<1>1. MayVisit /\ Len(stack) >= n
  BY DEF Operator
<1>2. l \in Scalars /\ n \in Nat
  BY DEF Operators, Scalars
<1>3. CASE wrong
  BY <1>3, Rejected DEF Operator
<1>4. CASE ~wrong
  <2>1. Visit(Below(n), e) /\ UNCHANGED <<vars, catalog, outcome, culprits>>
    BY <1>4 DEF Operator
  <2> HIDE DEF l, n
  <2>2. OperandCompiles(e, catalog)
    BY <1>2, CatalogBasics, CompiledScalar
  <2>3. n <= Len(stack)
    BY <1>1, <1>2, CatalogBasics
  <2> HIDE DEF e
  <2> QED
    BY <1>1, <1>2, <2>1, <2>2, <2>3, ReplacedOn
<1> QED
  BY <1>3, <1>4

\* Comparisons yield an i1.
LEMMA BoolCompiles ==
  ASSUME GeneratorInv, NEW op, op \notin {"new", "nil"}
  PROVE  OperandCompiles(Expression(op, <<"bool">>, <<"i1">>, ScalarValue("bool")), catalog)
<1>1. ScalarIR("bool") = <<"i1">> /\ "bool" \in Scalars
  BY DEF ScalarIR, Scalars
<1> DEFINE l == "bool"
<1>2. OperandCompiles(Expression(op, <<l>>, ScalarIR(l), ScalarValue(l)), catalog)
  <2>1. l \in Scalars
    BY <1>1
  <2> HIDE DEF l
  <2> QED
    BY <2>1, CatalogBasics, CompiledScalar
<1> QED
  BY <1>1, <1>2

LEMMA PairOfTwo ==
  ASSUME NEW a, NEW b, a # b
  PROVE  Cardinality({a, b}) > 1
<1>1. IsFiniteSet({b}) /\ Cardinality({b}) = 1
  BY FS_Singleton
<1>2. a \notin {b}
  OBVIOUS
<1>3. Cardinality({b} \cup {a}) = Cardinality({b}) + 1
  BY <1>1, <1>2, FS_AddElement
<1>4. {b} \cup {a} = {a, b}
  OBVIOUS
<1> QED
  BY <1>1, <1>3, <1>4

LEMMA CompareGenerates ==
  ASSUME GeneratorInv, Compare
  PROVE  CatalogInv' /\ OutcomeInv'
<1> DEFINE a == Operand(1)
           b == Operand(0)
           e == Expression("compare", <<"bool">>, <<"i1">>, ScalarValue("bool"))
<1>1. MayVisit /\ Len(stack) > 1
  BY DEF Compare
<1>2. /\ 0 \in Nat /\ 1 \in Nat /\ 2 \in Nat
      /\ 0 < Len(stack) /\ 1 < Len(stack) /\ 2 <= Len(stack)
  BY <1>1, CatalogBasics
<1>3. CASE ~EqualTypes(a.type, b.type)
  BY <1>3, Rejected DEF Compare
<1>4. CASE EqualTypes(a.type, b.type) /\ ~HasValue(b)
  <2>1. Stop("bad_ir", {a, b})
    BY <1>4 DEF Compare
  <2>2. ExcusesIR({a, b})
    BY <1>4 DEF ExcusesIR
  <2> QED
    BY <2>1, <2>2, FailedIR
<1>5. CASE EqualTypes(a.type, b.type) /\ HasValue(b) /\ a.ir # b.ir
  <2>1. Stop("bad_ir", {a, b})
    BY <1>5 DEF Compare
  <2>2. /\ OperandCompiles(a, catalog) /\ (HasValue(a) => Word(a.type))
        /\ OperandCompiles(b, catalog) /\ (HasValue(b) => Word(b.type))
    BY <1>2, OperandIs
  <2> HIDE DEF a, b
  <2>3. Cardinality({a, b}) > 1
    <3>1. a # b
      BY <1>5
    <3> QED
      BY <3>1, PairOfTwo
  <2>4. ExcusesIR({a, b})
    <3> SUFFICES ASSUME Ordinary(a), Ordinary(b), ~Mentions(a.type, {"any"}), ~Mentions(b.type, {"any"})
                 PROVE  FALSE
      BY <2>3 DEF ExcusesIR, Ordinary
    <3>1. Settled(a.type, a.ir, catalog) /\ Settled(b.type, b.ir, catalog)
      BY <2>2, OrdinarySettled
    <3>2. a.type = b.type
      BY <1>5, <2>2, EqualAreSame DEF Ordinary
    <3>3. Translate(a.type, catalog).ir = a.ir /\ Translate(b.type, catalog).ir = b.ir
      BY <3>1, SettledIR
    <3> QED
      BY <1>5, <3>2, <3>3
  <2> QED
    BY <2>1, <2>4, FailedIR
<1>6. CASE EqualTypes(a.type, b.type) /\ HasValue(b) /\ a.ir = b.ir
  <2>1. Visit(Below(2), e) /\ UNCHANGED <<vars, catalog, outcome, culprits>>
    BY <1>6 DEF Compare
  <2>2. OperandCompiles(e, catalog)
    BY BoolCompiles
  <2> HIDE DEF e
  <2> QED
    BY <1>1, <1>2, <2>1, <2>2, ReplacedOn
<1> QED
  BY <1>3, <1>4, <1>5, <1>6

LEMMA IsNilGenerates ==
  ASSUME GeneratorInv, IsNil
  PROVE  CatalogInv' /\ OutcomeInv'
<1> DEFINE e == Expression("nil?", <<"bool">>, <<"i1">>, ScalarValue("bool"))
<1>1. MayVisit /\ stack # <<>>
  BY DEF IsNil
<1>2. 1 \in Nat /\ 1 <= Len(stack)
  BY <1>1, CatalogBasics
<1>3. CASE Current(Operand(0).type) # "list"
  BY <1>3, Rejected DEF IsNil
<1>4. CASE Current(Operand(0).type) = "list"
  <2>1. Visit(Below(1), e) /\ UNCHANGED <<vars, catalog, outcome, culprits>>
    BY <1>4 DEF IsNil
  <2>2. OperandCompiles(e, catalog)
    BY BoolCompiles
  <2> HIDE DEF e
  <2> QED
    BY <1>1, <1>2, <2>1, <2>2, ReplacedOn
<1> QED
  BY <1>3, <1>4

\* A new node has a field of the LLVM type of what is stored in it, but for an
\* array in a struct that was made for another.
LEMMA ArrayKey ==
  ASSUME NEW t, Formed(t), t[1] = "list", Current(Nested(t)) = "array"
  PROVE  HashKey(t) = <<"list", "arr">>
<1> DEFINE u == Nested(t)
           h == HashKey(t)
           k == HashKey(u)
           w == <<"list", "arr">>
<1>1. Formed(u) /\ u[1] \in {"array", "sized"}
  BY KeyStep, NestedFormed DEF Current, Kind
<1>2. Len(h) = Len(k) + 1 /\ h[2] = k[1] /\ h \in Seq(KeyLetters) /\ h[1] = "list"
  BY KeyStep, KeyBasics
<1> HIDE DEF u, h
<1>3. k = <<"arr">>
  BY <1>1, KeyBasics DEF Base
<1>4. Len(k) = 1 /\ k[1] = "arr"
  BY <1>3
<1> HIDE DEF k
<1>5. Len(h) = 2 /\ h[2] = "arr"
  BY <1>2, <1>4
<1>6. w \in Seq({"list", "arr"}) /\ Len(w) = 2 /\ w[1] = "list" /\ w[2] = "arr"
  OBVIOUS
<1> HIDE DEF w
<1>61. \A i \in 1 .. 2 : h[i] = w[i]
  <2>1. \A i \in 1 .. 2 : i = 1 \/ i = 2
    OBVIOUS
  <2> QED
    BY <1>2, <1>5, <1>6, <2>1
<1>7. h = w
  BY <1>2, <1>5, <1>6, <1>61, SeqEqual
<1> QED
  BY <1>7 DEF h, w

LEMMA NodeOfNew ==
  ASSUME NEW cat, IsSeq(cat), NEW key, NEW ir
  PROVE  /\ Extends(cat, Append(cat, [key |-> key, elem |-> ir]))
         /\ Append(cat, [key |-> key, elem |-> ir])[<<"node", Len(cat) + 1>>[2]].elem = ir
<1> DEFINE e == [key |-> key, elem |-> ir]
           d == Append(cat, e)
           n == Len(cat) + 1
<1>1. e.elem = ir
  OBVIOUS
<1> HIDE DEF e
<1>2. /\ Len(d) = n /\ Len(cat) \in Nat /\ d[n] = e
      /\ \A i \in 1 .. Len(cat) : d[i] = cat[i]
  BY SeqBasics
<1> HIDE DEF d
<1>3. Len(cat) <= Len(d)
  BY <1>2
<1> HIDE DEF n
<1>4. <<"node", n>>[2] = n
  OBVIOUS
<1> QED
  BY <1>1, <1>2, <1>3, <1>4 DEF Extends, d, e, n

MisfitOf(u, cat) ==
  /\ Current(u) = "array"
  /\ \E k \in DOMAIN cat : cat[k].key = <<"list", "arr">> /\ cat[k].elem # Translate(u, cat).ir

Misfits(u, cat) ==
  LET made == Translate(List(u), cat)
      elem == Translate(u, made.cat)
  IN  made.ok /\ elem.ir # elem.cat[made.ir[2]].elem

LEMMA OnlyArraysMisfit ==
  ASSUME NEW u, Formed(u), NEW cat, CatalogFits(cat), Misfits(u, cat)
  PROVE  MisfitOf(u, cat)
<1> SUFFICES ASSUME NEW made, made = Translate(List(u), cat), made.ok,
                    NEW elem, elem = Translate(u, made.cat), elem.ir # elem.cat[made.ir[2]].elem
             PROVE  MisfitOf(u, cat)
  BY DEF Misfits
<1> DEFINE t     == List(u)
           key   == HashKey(t)
           inner == Translate(u, cat)
           known == Lookup(cat, key)
<1>1. Formed(t) /\ t[1] = "list" /\ Nested(t) = u
  BY FrontFormed DEF List, Around
<1>2. IsSeq(cat)
  BY DEF CatalogFits
<1>3. Grown(made, t, cat) /\ Settles(made, t)
  BY <1>1, <1>2, TranslateGrows, TranslateSettles
<1>4. CatalogFits(made.cat) /\ IsSeq(made.cat) /\ OneKeyEach(made.cat) /\ Settled(t, made.ir, made.cat)
  BY <1>3 DEF Settles, CatalogFits
<1>5. Grown(elem, u, made.cat)
  BY <1>4, TranslateGrows
<1> HIDE DEF t
<1>6. /\ made.ir[2] \in 1 .. Len(made.cat)
      /\ u[1] \notin {"array", "sized"} => Settled(u, made.cat[made.ir[2]].elem, made.cat)
  BY <1>1, <1>4, HeadSettled
<1>7. elem.ir # made.cat[made.ir[2]].elem
  BY <1>5, <1>6 DEF Grown, Extends
<1>8. ~Settled(u, made.cat[made.ir[2]].elem, made.cat)
  BY <1>7, SettledIR
<1>9. Current(u) = "array"
  BY <1>6, <1>8 DEF Current, Kind
<1>10. ByCase(t, key, cat, made, inner)
  <2>1. Len(t) > 1
    BY <1>1, KeyStep
  <2> QED
    BY <1>1, <2>1, TranslateCases DEF t
<1>11. known # {}
  <2> SUFFICES ASSUME known = {} PROVE FALSE
    OBVIOUS
  <2> DEFINE ir == inner.ir
             d  == Append(inner.cat, [key |-> key, elem |-> ir])
             a  == <<"node", Len(inner.cat) + 1>>
             o  == inner.ok /\ Lookup(inner.cat, key) = {}
  <2>1. made = [ir |-> a, cat |-> d, ok |-> o]
    BY <1>1, <1>10 DEF ByCase
  <2>2. Grown(inner, u, cat) /\ Settles(inner, u)
    BY <1>2, TranslateGrows, TranslateSettles
  <2> HIDE DEF key, inner, known, ir
  <2>3. made.ir = a /\ made.cat = d /\ inner.ok
    <3> HIDE DEF a, d, o
    <3>1. made.ir = a /\ made.cat = d /\ made.ok = o
      BY <2>1
    <3>2. o
      BY <3>1
    <3> QED
      BY <3>1, <3>2 DEF o
  <2>4. IsSeq(inner.cat) /\ Settled(u, ir, inner.cat)
    BY <2>2, <2>3 DEF Grown, Settles, ir
  <2>5. Extends(inner.cat, d) /\ d[a[2]].elem = ir
    BY <2>4, NodeOfNew
  <2> HIDE DEF a, d
  <2>6. Settled(u, ir, made.cat)
    BY <1>4, <2>3, <2>4, <2>5, SettledStays
  <2> QED
    BY <1>8, <2>3, <2>5, <2>6
<1>12. PICK k : k \in known /\ made = [ir |-> <<"node", k>>, cat |-> cat, ok |-> TRUE]
  <2> DEFINE k == CHOOSE j \in known : TRUE
  <2>1. k \in known
    BY <1>11
  <2>2. made = [ir |-> <<"node", k>>, cat |-> cat, ok |-> TRUE]
    <3> HIDE DEF inner, key
    <3> QED
      BY <1>1, <1>10, <1>11 DEF ByCase
  <2> HIDE DEF k
  <2> QED
    BY <2>1, <2>2
<1>13. made.cat = cat /\ made.ir[2] = k
  <2> DEFINE a == <<"node", k>>
  <2>1. a[2] = k
    OBVIOUS
  <2> HIDE DEF a
  <2>2. made = [ir |-> a, cat |-> cat, ok |-> TRUE]
    BY <1>12 DEF a
  <2> QED
    BY <2>1, <2>2
<1>14. k \in DOMAIN cat /\ cat[k].key = key
  BY <1>12 DEF Lookup
<1>15. key = <<"list", "arr">>
  BY <1>1, <1>9, ArrayKey
<1>16. cat[k].elem # Translate(u, cat).ir
  BY <1>7, <1>13
<1> QED
  BY <1>9, <1>14, <1>15, <1>16 DEF MisfitOf

\* The list made by # may be new to the catalog; the left operand has the same
\* LLVM type as before, so it is stored as it is, `nil` aside.
LEMMA ConstructGenerates ==
  ASSUME GeneratorInv, Construct
  PROVE  CatalogInv' /\ OutcomeInv'
<1> DEFINE left  == Operand(1)
           right == Operand(0)
           t     == List(left.type)
           made  == Translate(t, catalog)
           elem  == Translate(left.type, made.cat)
           e     == Expression("cons", t, made.ir, Link(left.val, right.val))
           wrong == Current(right.type) # "list" \/ ~EqualTypes(left.type, Nested(right.type))
           fun   == left.type = <<"function">>
           ok    == HasKey(t) /\ made.ok /\ elem.ok
           cast  == CanBitCast(left.ir, elem.ir)
           fits  == elem.ir = elem.cat[made.ir[2]].elem
<1>1. MayVisit /\ Len(stack) > 1
  BY DEF Construct
<1>2. /\ 1 \in Nat /\ 2 \in Nat /\ 1 < Len(stack) /\ 2 <= Len(stack)
  BY <1>1, CatalogBasics
<1>3. OperandCompiles(left, catalog) /\ (HasValue(left) => Word(left.type) /\ Formed(left.type))
  BY <1>2, OperandIs
<1>4. CatalogFits(catalog) /\ IsSeq(catalog)
  BY CatalogBasics
<1>5. HasValue(left) => Formed(t) /\ t[1] = "list"
  BY <1>3, FrontFormed DEF List, Around
<1>6. HasValue(left) => Grown(made, t, catalog) /\ Settles(made, t)
  BY <1>4, <1>5, TranslateGrows, TranslateSettles
<1>7. CASE wrong
  BY <1>7, Rejected DEF Construct
<1>8. CASE ~wrong /\ fun
  <2>1. Stop("bad_ir", {left})
    BY <1>8 DEF Construct
  <2>2. ~HasValue(left)
    BY <1>8 DEF HasValue
  <2> HIDE DEF left
  <2>3. ExcusesIR({left})
    BY <2>2 DEF ExcusesIR
  <2> QED
    BY <2>1, <2>3, FailedIR
<1>9. HasKey(t) /\ ~fun => HasValue(left)
  BY VoidHasNoKey, Zenon DEF HasValue
<1>10. HasValue(left) /\ made.ok => Grown(elem, left.type, made.cat) /\ Settles(elem, left.type)
  <2> HIDE DEF left, made
  <2>1. HasValue(left) /\ made.ok => CatalogFits(made.cat) /\ IsSeq(made.cat)
    BY <1>6 DEF Settles, CatalogFits
  <2> QED
    BY <1>3, <2>1, TranslateGrows, TranslateSettles
<1>11. CASE ~wrong /\ ~fun /\ ~ok
  <2>1. Stop("no_type", {left})
    BY <1>11 DEF Construct
  <2>2. CASE HasValue(left)
    <3> HIDE DEF left, made, elem
    <3>1. KeyTwice(List(left.type)) \/ KeyTwice(left.type) \/ ~HasKey(List(left.type))
      BY <1>6, <1>10, <1>11, <2>2 DEF Grown
    <3>2. HasKey(List(left.type))
      <4>1. Len(t) \in 1 .. Len(t) /\ t[Len(t)] \in Scalars \cup {"any"}
        BY <1>5, <2>2, FormedBasics DEF Formed
      <4> HIDE DEF t
      <4>2. HasKey(t)
        BY <4>1 DEF HasKey, Scalars
      <4> QED
        BY <4>2 DEF t
    <3>3. ExcusesType({left})
      BY <3>1, <3>2 DEF ExcusesType
    <3> QED
      BY <2>1, <3>3, FailedType
  <2>3. CASE ~HasValue(left)
    <3>1. left.type = <<"void">>
      BY <1>11, <2>3 DEF HasValue
    <3> HIDE DEF left
    <3>2. ExcusesType({left})
      BY <3>1 DEF ExcusesType
    <3> QED
      BY <2>1, <3>2, FailedType
  <2> QED
    BY <2>2, <2>3
<1>12. CASE ~wrong /\ ~fun /\ ok /\ ~cast
  <2>0. HasValue(left) /\ Word(left.type) /\ Formed(left.type)
    BY <1>3, <1>9, <1>12
  <2>1. Stop("bad_ir", {left})
    BY <1>12 DEF Construct
  <2> DEFINE ir == elem.ir
  <2>11. ir = Translate(left.type, made.cat).ir
    OBVIOUS
  <2>12. ~CanBitCast(left.ir, ir) /\ made.ok
    BY <1>12
  <2> HIDE DEF left, made, t, e, elem, ir
  <2>2. CatalogFits(made.cat) /\ Extends(catalog, made.cat)
    BY <1>6, <2>0, <2>12 DEF Settles, Grown
  <2>3. ExcusesIR({left})
    <3> SUFFICES ASSUME Ordinary(left) PROVE FALSE
      BY DEF ExcusesIR, Ordinary
    <3>1. CASE left.op = "nil"
      <4>1. left.type = <<"list", "any">>
        BY <1>3, <3>1 DEF OperandCompiles
      <4>2. left.type[1] = "list"
        <5>1. <<"list", "any">>[1] = "list"
          OBVIOUS
        <5> QED
          BY <4>1, <5>1
      <4>3. IsPointer(left.ir)
        BY <1>3, <2>0, <4>2, ListOperandIsPointer
      <4>4. IsPointer(ir)
        BY <2>0, <2>11, <4>2, ListIsPointer
      <4> QED
        BY <2>12, <4>3, <4>4 DEF CanBitCast
    <3>2. CASE left.op # "nil"
      <4>1. Settled(left.type, left.ir, catalog)
        BY <1>3, <3>2 DEF OperandCompiles, Ordinary
      <4>2. Settled(left.type, left.ir, made.cat)
        BY <1>4, <2>0, <2>2, <4>1, SettledStays DEF CatalogFits
      <4>3. ir = left.ir
        BY <2>11, <4>2, SettledIR
      <4> QED
        BY <2>12, <4>3 DEF CanBitCast
    <3> QED
      BY <3>1, <3>2
  <2> QED
    BY <2>1, <2>3, FailedIR
<1>13. CASE ~wrong /\ ~fun /\ ok /\ cast /\ ~fits
  <2>0. Formed(left.type)
    BY <1>3, <1>9, <1>13
  <2>1. Stop("bad_store", {left})
    BY <1>13 DEF Construct
  <2>2. made.ok /\ elem.ir # elem.cat[made.ir[2]].elem
    BY <1>13
  <2>3. made = Translate(List(left.type), catalog) /\ elem = Translate(left.type, made.cat)
    OBVIOUS
  <2> HIDE DEF left, made, elem
  <2>4. MisfitOf(left.type, catalog)
    <3>1. Misfits(left.type, catalog)
      BY <2>2, <2>3 DEF Misfits
    <3> QED
      BY <1>4, <2>0, <3>1, OnlyArraysMisfit
  <2>5. ExcusesStore({left}, catalog)
    BY <2>4 DEF ExcusesStore, MisfitOf
  <2> QED
    BY <2>1, <2>5, FailedStore
<1>14. CASE ~wrong /\ ~fun /\ ok /\ cast /\ fits
  <2>0. HasValue(left) /\ Formed(left.type)
    BY <1>3, <1>9, <1>14
  <2>1. /\ Visit(Below(2), e) /\ catalog' = elem.cat
        /\ vars' = vars /\ outcome' = outcome /\ culprits' = culprits
    BY <1>14 DEF Construct
  <2>11. made.ok /\ elem.ok
    BY <1>14
  <2> HIDE DEF made, t, elem, left
  <2>2. /\ Extends(catalog, made.cat) /\ CatalogFits(made.cat) /\ Settled(t, made.ir, made.cat)
        /\ Extends(made.cat, elem.cat) /\ CatalogFits(elem.cat)
    BY <1>6, <1>10, <2>0, <2>11 DEF Settles, Grown
  <2>3. IsSeq(made.cat) /\ IsSeq(elem.cat) /\ OneKeyEach(elem.cat)
    BY <2>2 DEF CatalogFits
  <2>4. Extends(catalog, elem.cat)
    BY <1>4, <2>2, <2>3, ExtendsOn
  <2>5. Settled(t, made.ir, elem.cat)
    BY <1>5, <2>0, <2>2, <2>3, SettledStays
  <2>6. OperandCompiles(e, elem.cat)
    BY <1>5, <2>0, <2>3, <2>5, Compiled
  <2> HIDE DEF e
  <2>7. stack' = Append(Below(2), e) /\ nodes' = nodes + 1
    BY <2>1 DEF Visit
  <2>8. SameTypes(vars, vars')
    BY <2>1 DEF SameTypes
  <2>9. CatalogFits(catalog') /\ Extends(catalog, catalog') /\ OperandCompiles(e, catalog')
    BY <2>1, <2>2, <2>4, <2>6
  <2>10. CatalogInv'
    BY <1>2, <2>7, <2>8, <2>9, CatalogReplaced DEF GeneratorInv
  <2>13. OutcomeInv'
    BY <1>1, <2>1, <2>7, Passed DEF GeneratorInv
  <2> QED
    BY <2>10, <2>13
<1> QED
  BY <1>7, <1>8, <1>11, <1>12, <1>13, <1>14

LEMMA NilIsConstant == IsNilConstant(<<"list", "any">>)
<1> DEFINE n == <<"list", "any">>
<1>1. Formed(n) /\ Len(n) = 2
  BY NilWord, WordFormed
<1> HIDE DEF n
<1>2. SubSeq(n, 1, Len(n)) = n
  BY <1>1, FormedBasics, SuffixFormed DEF Suffix
<1>3. Prefix(n, 2) = n
  BY <1>1, <1>2 DEF Prefix
<1>4. IsNilConstant(n)
  BY <1>1, <1>3 DEF IsNilConstant, n
<1> QED
  BY <1>4 DEF n

\* The operand of head and tail is a list that has its LLVM type already, so the
\* catalog stays as it is, and its struct is of what the list is of.
LEMMA PartGenerates ==
  ASSUME GeneratorInv, NEW op \in {"head", "tail"}, Part(op)
  PROVE  CatalogInv' /\ OutcomeInv'
<1> DEFINE a    == Operand(0)
           t    == a.type
           made == Translate(t, catalog)
           v    == a.val
           h    == Expression("head", Nested(t), made.cat[made.ir[2]].elem, First(v))
           r    == Expression("tail", t, made.ir, Rest(v))
<1>1. MayVisit /\ stack # <<>>
  BY DEF Part
<1>2. /\ 0 \in Nat /\ 1 \in Nat /\ 0 < Len(stack) /\ 1 <= Len(stack)
  BY <1>1, CatalogBasics
<1>3. OperandCompiles(a, catalog) /\ (HasValue(a) => Formed(a.type))
  BY <1>2, OperandIs
<1>4. CatalogFits(catalog) /\ IsSeq(catalog)
  BY CatalogBasics
<1>5. CASE Current(t) # "list" \/ IsNilConstant(t)
  BY <1>5, Rejected DEF Part
<1>6. CASE Current(t) = "list" /\ ~IsNilConstant(t)
  <2>1. /\ Visit(Below(1), IF op = "head" THEN h ELSE r) /\ catalog' = made.cat
        /\ vars' = vars /\ outcome' = outcome /\ culprits' = culprits
    BY <1>6 DEF Part
  <2> HIDE DEF v
  <2>2. t[1] = "list"
    BY <1>6 DEF Current, Kind
  <2>0. HasValue(a)
    BY <1>6, CurrentOfOthers
  <2>3. a.op \notin {"new", "nil"} /\ ~MayShare(a)
    <3>1. a.op # "nil"
      <4> SUFFICES ASSUME a.op = "nil" PROVE FALSE
        OBVIOUS
      <4> DEFINE n == <<"list", "any">>
      <4>1. t = n
        BY <1>3 DEF OperandCompiles
      <4>2. IsNilConstant(n)
        BY NilIsConstant
      <4> HIDE DEF n, t
      <4> QED
        BY <1>6, <4>1, <4>2
    <3> QED
      BY <1>3, <1>6, <3>1 DEF OperandCompiles, MayShare
  <2>4. Settled(t, a.ir, catalog)
    BY <1>3, <2>0, <2>3 DEF OperandCompiles
  <2> DEFINE ir == a.ir
  <2>5. made = [ir |-> ir, cat |-> catalog, ok |-> TRUE]
    BY <2>4 DEF Settled
  <2>6. Formed(t) /\ Settled(t, ir, catalog)
    BY <1>3, <2>0, <2>4
  <2> HIDE DEF made, ir, a, t
  <2>7. made.cat = catalog /\ made.ir = ir
    BY <2>5
  <2>8. catalog[ir[2]].elem # <<>>
        /\ (Nested(t)[1] \notin {"array", "sized"} => Settled(Nested(t), catalog[ir[2]].elem, catalog))
    BY <1>4, <2>2, <2>6, HeadSettled
  <2>9. OperandCompiles(r, catalog)
    <3>1. OperandCompiles(Expression("tail", t, ir, Rest(v)), catalog)
      BY <1>4, <2>6, Compiled
    <3> QED
      BY <2>7, <3>1
  <2>10. OperandCompiles(h, catalog)
    <3> DEFINE u == Nested(t)
               el == catalog[ir[2]].elem
               g  == Expression("head", u, el, First(v))
    <3>1. Formed(u)
      BY <2>2, <2>6, KeyStep, NestedFormed
    <3>2. el # <<>> /\ (u[1] \notin {"array", "sized"} => Settled(u, el, catalog))
      BY <2>8
    <3>3. h = g
      BY <2>7
    <3> HIDE DEF u, el, h
    <3>4. CASE u[1] \notin {"array", "sized"}
      <4>1. OperandCompiles(g, catalog)
        BY <1>4, <3>1, <3>2, <3>4, Compiled
      <4> QED
        BY <3>3, <4>1
    <3>5. CASE u[1] \in {"array", "sized"}
      <4>1. g.op = "head" /\ g.type = u /\ g.ir = el
        BY DEF Expression
      <4>2. Current(u) = "array"
        BY <3>5 DEF Current, Kind
      <4> HIDE DEF g
      <4>3. OperandCompiles(g, catalog)
        BY <3>2, <4>1, <4>2 DEF OperandCompiles, MayShare
      <4> QED
        BY <3>3, <4>3
    <3> QED
      BY <3>4, <3>5
  <2> HIDE DEF h, r
  <2>11. UNCHANGED <<vars, catalog, outcome, culprits>>
    BY <2>1, <2>7
  <2>12. CASE op = "head"
    <3>1. Visit(Below(1), h)
      BY <2>1, <2>12
    <3> QED
      BY <1>1, <1>2, <2>10, <2>11, <3>1, ReplacedOn
  <2>13. CASE op # "head"
    <3>1. Visit(Below(1), r)
      BY <2>1, <2>13
    <3> QED
      BY <1>1, <1>2, <2>9, <2>11, <3>1, ReplacedOn
  <2> QED
    BY <2>12, <2>13
<1> QED
  BY <1>5, <1>6

\* What goes to a variable has the variable's LLVM type or is a pointer like it.
LEMMA AssignGenerates ==
  ASSUME GeneratorInv, NEW x \in Vars, Assign(x)
  PROVE  CatalogInv' /\ OutcomeInv'
<1> DEFINE e  == Operand(0)
           t  == vars[x].type
           ir == Translate(t, catalog).ir
<1>1. MayVisit /\ Len(stack) = 1 /\ x \in DOMAIN vars
  BY DEF Assign
<1>2. 0 \in Nat /\ 0 < Len(stack)
  BY <1>1
<1>3. OperandCompiles(e, catalog) /\ (HasValue(e) => Word(e.type) /\ Formed(e.type))
  BY <1>2, OperandIs
<1>4. t \in DeclTypes /\ Formed(t)
  BY <1>1, VariableFormed DEF GeneratorInv
<1>5. CASE ~EqualTypes(e.type, t)
  BY <1>5, Rejected DEF Assign
<1>6. CASE EqualTypes(e.type, t) /\ ~CanBitCast(e.ir, ir)
  <2>1. Stop("bad_ir", {e})
    BY <1>6 DEF Assign
  <2>2. PICK i : Settled(t, i, catalog)
    BY <1>1 DEF GeneratorInv, CatalogInv, VariablesCompile
  <2>3. ir = i
    BY <2>2, SettledIR
  <2> HIDE DEF e, t
  <2>4. ExcusesIR({e})
    <3> SUFFICES ASSUME Ordinary(e) PROVE FALSE
      BY DEF ExcusesIR, Ordinary
    <3>0. HasValue(e) /\ Word(e.type) /\ Formed(e.type)
      BY <1>3 DEF Ordinary
    <3>1. CASE Mentions(e.type, {"any"})
      <4>1. e.type[1] = "list"
        BY <3>0, <3>1, AnyInList
      <4>2. t[1] = "list"
        BY <3>0, <1>4, <1>6, <4>1, DeclaredMentions, EqualToList
      <4>3. IsPointer(e.ir) /\ IsPointer(ir)
        BY <1>3, <3>0, <1>4, <4>1, <4>2, ListOperandIsPointer, ListIsPointer
      <4> QED
        BY <1>6, <4>3 DEF CanBitCast
    <3>2. CASE ~Mentions(e.type, {"any"})
      <4>1. Settled(e.type, e.ir, catalog)
        BY <1>3, <3>2, OrdinarySettled
      <4>2. e.type = t
        BY <3>0, <1>4, <1>6, <3>2, DeclaredMentions, EqualAreSame DEF Ordinary
      <4>3. Translate(e.type, catalog).ir = e.ir
        BY <4>1, SettledIR
      <4> QED
        BY <1>6, <4>2, <4>3 DEF CanBitCast
    <3> QED
      BY <3>1, <3>2
  <2> QED
    BY <2>1, <2>4, FailedIR
<1>7. CASE EqualTypes(e.type, t) /\ CanBitCast(e.ir, ir)
  <2>1. /\ vars' = [vars EXCEPT ![x].val = e.val] /\ stack' = <<>> /\ nodes' = nodes + 1
        /\ catalog' = catalog /\ outcome' = outcome /\ culprits' = culprits
    BY <1>7 DEF Assign
  <2> HIDE DEF e, t, ir
  <2>2. DOMAIN vars' = DOMAIN vars
    BY <2>1
  <2>3. \A y \in DOMAIN vars : vars'[y].type = vars[y].type
    BY <2>1
  <2>4. VariablesCompile(vars', catalog)
    BY <2>2, <2>3 DEF GeneratorInv, CatalogInv, VariablesCompile
  <2>5. OperandsCompile(stack', catalog)
    <3>1. Len(stack') = 0
      BY <2>1
    <3> QED
      BY <3>1 DEF OperandsCompile
  <2>6. CatalogInv'
    BY <2>1, <2>4, <2>5 DEF GeneratorInv, CatalogInv
  <2>7. OutcomeInv'
    BY <1>1, <2>1, Passed DEF GeneratorInv
  <2> QED
    BY <2>6, <2>7
<1> QED
  BY <1>5, <1>6, <1>7

LEMMA CallGenerates ==
  ASSUME GeneratorInv, NEW x \in DOMAIN vars, Call(vars[x].type)
  PROVE  CatalogInv' /\ OutcomeInv'
<1> DEFINE e  == Operand(0)
           t  == vars[x].type
           ir == Translate(t, catalog).ir
           c  == Expression("call", t, ir, e.val)
<1>1. MayVisit /\ stack # <<>>
  BY DEF Call
<1>2. 0 \in Nat /\ 0 < Len(stack) /\ 1 \in Nat /\ 1 <= Len(stack)
  BY <1>1, CatalogBasics
<1>3. OperandCompiles(e, catalog) /\ (HasValue(e) => Word(e.type) /\ Formed(e.type))
  BY <1>2, OperandIs
<1>4. t \in DeclTypes /\ Formed(t)
  BY VariableFormed DEF GeneratorInv
<1>5. CASE ~EqualTypes(t, e.type)
  BY <1>5, Rejected DEF Call
<1>6. CASE EqualTypes(t, e.type) /\ e.ir # ir /\ ~IsNilConstant(e.type)
  <2>1. Stop("bad_ir", {e})
    BY <1>6 DEF Call
  <2> HIDE DEF e, t
  <2>2. ExcusesIR({e})
    <3> SUFFICES ASSUME Ordinary(e), ~Mentions(e.type, {"any"}) PROVE FALSE
      BY <1>6 DEF ExcusesIR, Ordinary
    <3>1. Settled(e.type, e.ir, catalog)
      BY <1>3, OrdinarySettled
    <3>2. t = e.type
      BY <1>3, <1>4, <1>6, DeclaredMentions, EqualAreSame DEF Ordinary
    <3>3. Translate(e.type, catalog).ir = e.ir
      BY <3>1, SettledIR
    <3> QED
      BY <1>6, <3>2, <3>3
  <2> QED
    BY <2>1, <2>2, FailedIR
<1>7. CASE EqualTypes(t, e.type) /\ ~(e.ir # ir /\ ~IsNilConstant(e.type))
  <2>1. Visit(Below(1), c) /\ UNCHANGED <<vars, catalog, outcome, culprits>>
    BY <1>7 DEF Call
  <2>2. PICK i : Settled(t, i, catalog)
    BY DEF GeneratorInv, CatalogInv, VariablesCompile
  <2>3. ir = i
    BY <2>2, SettledIR
  <2> HIDE DEF ir, t, e
  <2>4. OperandCompiles(c, catalog)
    BY <1>4, <2>2, <2>3, CatalogBasics, Compiled
  <2> HIDE DEF c
  <2> QED
    BY <1>1, <1>2, <2>1, <2>4, ReplacedOn
<1> QED
  BY <1>5, <1>6, <1>7

LEMMA GeneratorInitially == Init => GeneratorInv
<1> SUFFICES ASSUME Init PROVE GeneratorInv
  OBVIOUS
<1>1. ExpressionsInv
  BY ExpressionsInitially
<1>2. vars = <<>> /\ stack = <<>> /\ catalog = <<>> /\ outcome = "compiling" /\ culprits = {} /\ nodes = 0
  BY DEF Init
<1>3. Len(stack) = 0 /\ Len(catalog) = 0 /\ DOMAIN vars = {}
  BY <1>2
<1>4. IsSeq(catalog)
  BY <1>2, EmptySeq DEF IsSeq
<1>5. CatalogInv
  BY <1>3, <1>4 DEF CatalogInv, CatalogFits, OneKeyEach, VariablesCompile, OperandsCompile
<1>6. nodes \in 0 .. MaxNodes
  BY <1>2, ExpressionsAssumption
<1>7. OutcomeInv
  BY <1>2, <1>6 DEF OutcomeInv
<1> QED
  BY <1>1, <1>5, <1>7 DEF GeneratorInv

LEMMA GeneratorKeeps == GeneratorInv /\ [Next]_state => GeneratorInv'
<1> SUFFICES ASSUME GeneratorInv, [Next]_state PROVE GeneratorInv'
  OBVIOUS
<1>1. ExpressionsInv'
  BY ExpressionsKeep DEF GeneratorInv
<1>2. CASE UNCHANGED state
  BY <1>1, <1>2 DEF GeneratorInv, CatalogInv, OutcomeInv, state
<1>3. ASSUME NEW x \in Vars, NEW t \in DeclTypes, Declare(x, t) PROVE CatalogInv' /\ OutcomeInv'
  BY <1>3, DeclareGenerates
<1>4. ASSUME NEW letter \in Scalars, Constant(letter) PROVE CatalogInv' /\ OutcomeInv'
  BY <1>4, ConstantGenerates
<1>5. ASSUME NEW x \in Vars, Id(x) PROVE CatalogInv' /\ OutcomeInv'
  BY <1>5, IdGenerates
<1>6. ASSUME NEW t \in DeclTypes, New(t) PROVE CatalogInv' /\ OutcomeInv'
  BY <1>6, NewGenerates
<1>7. ASSUME NEW o \in Operators, Operator(o) PROVE CatalogInv' /\ OutcomeInv'
  BY <1>7, OperatorGenerates
<1>8. ASSUME NEW x \in Vars, Assign(x) PROVE CatalogInv' /\ OutcomeInv'
  BY <1>8, AssignGenerates
<1>9. ASSUME NEW x \in DOMAIN vars, Call(vars[x].type) PROVE CatalogInv' /\ OutcomeInv'
  BY <1>9, CallGenerates
<1>10. CASE StringLiteral \/ Nil \/ FunctionName \/ VoidCall \/ ArrayElement \/ Compare \/ Construct \/ Part("head") \/ Part("tail") \/ IsNil
  <2>1. CatalogInv' /\ OutcomeInv'
    BY <1>10, StringGenerates, NilGenerates, ArrayElementGenerates, CompareGenerates, ConstructGenerates,
       PartGenerates, IsNilGenerates, FunctionNameGenerates, VoidCallGenerates
  <2> QED
    BY <1>1, <2>1 DEF GeneratorInv
<1>11. CASE Next
  <2>1. (CatalogInv' /\ OutcomeInv') \/ GeneratorInv'
    BY <1>3, <1>4, <1>5, <1>6, <1>7, <1>8, <1>9, <1>10, <1>11 DEF Next
  <2> QED
    BY <1>1, <2>1 DEF GeneratorInv
<1> QED
  BY <1>2, <1>11

\* The table of LLVM list types, the variables and the operands stay in step: no
\* struct of the table is of anything but what its key says, every variable's type
\* has its structs in it, and whatever list types enter it meanwhile, an operand
\* keeps the LLVM type it was given (llvm/ast.cpp:191-243).
THEOREM CatalogKeeps == Spec => []GeneratorInv
<1>1. Init => GeneratorInv
  BY GeneratorInitially
<1>2. GeneratorInv /\ [Next]_state => GeneratorInv'
  BY GeneratorKeeps
<1> QED
  BY <1>1, <1>2, PTL DEF Spec

\* Types of the state of both passes over the expressions; no key enters the table
\* twice, and there is somebody to blame only when the generator failed.
THEOREM ExpressionsTypes == Spec => []ExpressionsTypeOK
<1>1. GeneratorInv => ExpressionsTypeOK
  <2> SUFFICES ASSUME GeneratorInv PROVE ExpressionsTypeOK
    OBVIOUS
  <2>1. /\ DOMAIN vars \subseteq Vars
        /\ \A x \in DOMAIN vars : vars[x].type \in DeclTypes
    BY DEF GeneratorInv, ExpressionsInv, VarsFit, VariableFits
  <2>2. IsSeq(stack) /\ \A i \in 1 .. Len(stack) : HasValue(stack[i]) => Word(stack[i].type)
    BY StackIsSeq DEF GeneratorInv
  <2>3. DOMAIN stack = 1 .. Len(stack)
    BY <2>2, SeqBasics
  <2>4. ASSUME NEW i \in DOMAIN stack PROVE IsType(stack[i].type) /\ stack[i].ir # <<>>
    <3> DEFINE t == stack[i].type
    <3>1. IsType(t)
      <4>1. CASE HasValue(stack[i])
        <5>1. Word(t)
          BY <2>2, <2>3, <4>1
        <5> HIDE DEF t
        <5>2. DOMAIN t = 1 .. Len(t) /\ t # <<>> /\ \A j \in 1 .. Len(t) : t[j] \in ValueLetters
          BY <5>1, WordBasics
        <5> QED
          BY <5>2 DEF IsType, Letters
      <4>2. CASE ~HasValue(stack[i])
        <5>1. t = <<"void">> \/ t = <<"function">>
          BY <4>2 DEF HasValue
        <5>2. IsType(<<"void">>) /\ IsType(<<"function">>)
          BY DEF IsType, Letters
        <5> QED
          BY <5>1, <5>2
      <4> QED
        BY <4>1, <4>2
    <3>2. stack[i].ir # <<>>
      BY <2>3 DEF GeneratorInv, CatalogInv, OperandsCompile, OperandCompiles
    <3> QED
      BY <3>1, <3>2
  <2>5. \A i, j \in DOMAIN catalog : catalog[i].key = catalog[j].key => i = j
    BY CatalogBasics, SeqBasics DEF OneKeyEach
  <2>6. /\ outcome \in {"compiling", "rejected", "bad_ir", "bad_store", "no_type"}
        /\ outcome \in {"compiling", "rejected"} => culprits = {}
        /\ nodes \in 0 .. MaxNodes
    BY DEF GeneratorInv, OutcomeInv
  <2> QED
    BY <2>1, <2>4, <2>5, <2>6 DEF ExpressionsTypeOK
<1> QED
  BY <1>1, CatalogKeeps, PTL

\* In whatever order the types of lists enter the table, every expression that has
\* a value, `nil`, `new` and an array out of a list aside, is a value of the LLVM
\* type its type still stands for.
THEOREM ExpressionsCompileToTheirTypes == Spec => []CompiledToItsType
<1>1. GeneratorInv => CompiledToItsType
  <2> SUFFICES ASSUME GeneratorInv, NEW i \in DOMAIN stack,
                      HasValue(stack[i]), stack[i].op \notin {"new", "nil"}, ~MayShare(stack[i])
               PROVE  Translate(stack[i].type, catalog) = [ir |-> stack[i].ir, cat |-> catalog, ok |-> TRUE]
    BY DEF CompiledToItsType
  <2>1. i \in 1 .. Len(stack)
    BY StackIsSeq, SeqBasics DEF GeneratorInv
  <2>2. OperandCompiles(stack[i], catalog)
    BY <2>1 DEF GeneratorInv, CatalogInv, OperandsCompile
  <2>3. Settled(stack[i].type, stack[i].ir, catalog)
    BY <2>2 DEF OperandCompiles
  <2> QED
    BY <2>3 DEF Settled
<1> QED
  BY <1>1, CatalogKeeps, PTL

\* The generator fails on what the semantic pass accepted only for the reasons
\* FailsOnlyOn lists, in programs of any size over any declared types.
THEOREM GeneratorFailsOnlyOn == Spec => []FailsOnlyOn
<1>1. GeneratorInv => FailsOnlyOn
  BY DEF GeneratorInv, OutcomeInv, ExcusesIR, ExcusesStore, ExcusesType, MadeForAnother, FailsOnlyOn
<1> QED
  BY <1>1, CatalogKeeps, PTL
=============================================================================
